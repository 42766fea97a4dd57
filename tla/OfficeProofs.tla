---------------------------- MODULE OfficeProofs ----------------------------
(***************************************************************************)
(* The parts that share no table with each other, each for any number of   *)
(* rows and requests.                                                      *)
(***************************************************************************)
EXTENDS MCOffice, FeedConnectionsProofs, SumProofs

(***************************************************************************)
(* Reconcile periods, over any set of days: overlapping periods come only  *)
(* from requests that ran at the same time.  The inductive invariant says  *)
(* of every range, kept or about to be inserted, that it is a range of the *)
(* type, and that two requests about to insert overlapping ranges are both *)
(* marked.                                                                 *)
(***************************************************************************)
\* The ranges of two marks do not meet.
Disjoint(a, b) == a.end < b.start \/ b.end < a.start

\* A range about to be inserted meets a kept period, or that of another request, only
\* when both are marked.
InsertsApart ==
  /\ \A r \in Lockers, p \in Periods :
       locker[r].at = "insert" /\ period[p].kept
         /\ ~(locker[r].raced /\ period[p].raced) => Disjoint(locker[r].range, period[p].range)
  /\ \A r, q \in Lockers :
       r # q /\ locker[r].at = "insert" /\ locker[q].at = "insert"
         /\ ~(locker[r].raced /\ locker[q].raced) => Disjoint(locker[r].range, locker[q].range)

PeriodsInv == PeriodsTypeOK /\ PeriodsApart /\ InsertsApart

LEMMA PeriodsBegin == PeriodsInit => PeriodsInv
<1>1. Anyday \in Days
  BY PeriodsAssumption DEF Anyday
<1> QED
  BY <1>1 DEF PeriodsInit, PeriodsInv, PeriodsTypeOK, PeriodsApart, InsertsApart, NoRange, DateRange

\* Counting overlaps: what is kept does not meet the range, and who is about to insert
\* one that does is marked with it.
LEMMA CountKeeps ==
  ASSUME PeriodsInv, NEW r \in Lockers, NEW start \in Days, NEW end \in Days,
         CountOverlaps(r, start, end)
  PROVE  PeriodsInv'
<1> DEFINE range == [start |-> start, end |-> end]
<1>1. /\ range \in DateRange
      /\ \A p \in Periods : period[p].kept => ~Overlaps(period[p].range, range)
      /\ locker' = [q \in Lockers |->
           IF q = r THEN [at |-> "insert", range |-> range, raced |-> Rivals(r, range) # {}]
           ELSE IF q \in Rivals(r, range) THEN [locker[q] EXCEPT !.raced = TRUE]
           ELSE locker[q]]
      /\ period' = period
  BY DEF CountOverlaps, DateRange
<1>2. Days \subseteq Int
  BY PeriodsAssumption
<1> HIDE DEF range
<1>3. /\ locker'[r].at = "insert" /\ locker'[r].range = range
      /\ locker'[r].raced = (Rivals(r, range) # {})
  BY <1>1
<1>4. \A q \in Lockers \ {r} :
        /\ locker'[q].at = locker[q].at /\ locker'[q].range = locker[q].range
        /\ locker'[q].raced = (q \in Rivals(r, range) \/ locker[q].raced)
  BY <1>1 DEF PeriodsInv, PeriodsTypeOK
<1>5. PeriodsTypeOK'
  BY <1>1 DEF PeriodsInv, PeriodsTypeOK
<1>6. PeriodsApart'
  BY <1>1 DEF PeriodsInv, PeriodsApart
<1>7. ASSUME NEW q \in Lockers, NEW p \in Periods,
             locker'[q].at = "insert", period'[p].kept,
             ~(locker'[q].raced /\ period'[p].raced)
      PROVE  Disjoint(locker'[q].range, period'[p].range)
  <2>1. CASE q = r
    BY <1>1, <1>2, <1>3, <1>7, <2>1 DEF Overlaps, Disjoint, PeriodsInv, PeriodsTypeOK, DateRange
  <2>2. CASE q # r
    BY <1>1, <1>4, <1>7, <2>2 DEF PeriodsInv, InsertsApart
  <2> QED
    BY <2>1, <2>2
<1>8. ASSUME NEW q \in Lockers \ {r}, locker'[q].at = "insert",
             ~(locker'[r].raced /\ locker'[q].raced)
      PROVE  Disjoint(range, locker[q].range) /\ Disjoint(locker[q].range, range)
  <2>1. q \notin Rivals(r, range)
    BY <1>3, <1>4, <1>8
  <2> QED
    BY <1>1, <1>2, <1>4, <1>8, <2>1 DEF Rivals, Disjoint, PeriodsInv, PeriodsTypeOK, DateRange
<1>9. ASSUME NEW j \in Lockers, NEW q \in Lockers, j # q,
             locker'[j].at = "insert", locker'[q].at = "insert",
             ~(locker'[j].raced /\ locker'[q].raced)
      PROVE  Disjoint(locker'[j].range, locker'[q].range)
  <2>1. CASE j = r
    BY <1>3, <1>4, <1>8, <1>9, <2>1
  <2>2. CASE q = r
    BY <1>3, <1>4, <1>8, <1>9, <2>2
  <2>3. CASE j # r /\ q # r
    <3>1. ~(locker[j].raced /\ locker[q].raced)
      BY <1>4, <1>9, <2>3
    <3> QED
      BY <1>4, <1>9, <2>3, <3>1 DEF PeriodsInv, InsertsApart
  <2> QED
    BY <2>1, <2>2, <2>3
<1> QED
  BY <1>5, <1>6, <1>7, <1>9 DEF PeriodsInv, InsertsApart

LEMMA UnlockKeeps ==
  ASSUME PeriodsInv, NEW r \in Lockers, Unlock(r), UNCHANGED period
  PROVE  PeriodsInv'
<1>1. NoRange \in DateRange
  BY PeriodsAssumption DEF NoRange, DateRange, Anyday
<1>2. locker' = [locker EXCEPT ![r] = [at |-> "idle", range |-> NoRange, raced |-> FALSE]]
  BY DEF Unlock
<1>3. \A q \in Lockers : locker'[q].at = "insert" => locker'[q] = locker[q]
  BY <1>2 DEF PeriodsInv, PeriodsTypeOK
<1>4. PeriodsTypeOK'
  BY <1>1, <1>2 DEF PeriodsInv, PeriodsTypeOK
<1>5. PeriodsApart' /\ InsertsApart'
  BY <1>3 DEF PeriodsInv, PeriodsApart, InsertsApart
<1> QED
  BY <1>4, <1>5 DEF PeriodsInv

LEMMA InsertKeeps ==
  ASSUME PeriodsInv, NEW r \in Lockers, NEW p \in Periods, InsertPeriod(r, p)
  PROVE  PeriodsInv'
<1>1. NoRange \in DateRange
  BY PeriodsAssumption DEF NoRange, DateRange, Anyday
<1>2. /\ locker[r].at = "insert"
      /\ period' = [period EXCEPT ![p] = [kept |-> TRUE, range |-> locker[r].range,
                                          raced |-> locker[r].raced]]
      /\ locker' = [locker EXCEPT ![r] = [at |-> "idle", range |-> NoRange, raced |-> FALSE]]
  BY DEF InsertPeriod, Unlock
<1>3. \A q \in Lockers : locker'[q].at = "insert" => q # r /\ locker'[q] = locker[q]
  BY <1>2 DEF PeriodsInv, PeriodsTypeOK
<1>4. /\ period'[p].kept /\ period'[p].range = locker[r].range
      /\ period'[p].raced = locker[r].raced
      /\ \A q \in Periods \ {p} : period'[q] = period[q]
  BY <1>2 DEF PeriodsInv, PeriodsTypeOK
<1>5. PeriodsTypeOK'
  <2>1. locker[r].range \in DateRange /\ locker[r].raced \in BOOLEAN
    BY DEF PeriodsInv, PeriodsTypeOK
  <2> QED
    BY <1>1, <1>2, <2>1 DEF PeriodsInv, PeriodsTypeOK
<1>6. PeriodsApart'
  <2>1. ASSUME NEW q \in Periods \ {p}, period'[q].kept,
               ~(period'[p].raced /\ period'[q].raced)
        PROVE  /\ Disjoint(period'[p].range, period'[q].range)
               /\ Disjoint(period'[q].range, period'[p].range)
    BY <1>2, <1>4, <2>1 DEF PeriodsInv, InsertsApart, Disjoint
  <2> QED
    BY <1>4, <2>1 DEF PeriodsInv, PeriodsApart, Disjoint
<1>7. ASSUME NEW q \in Lockers, NEW k \in Periods,
             locker'[q].at = "insert", period'[k].kept,
             ~(locker'[q].raced /\ period'[k].raced)
      PROVE  Disjoint(locker'[q].range, period'[k].range)
  <2>1. q # r /\ locker'[q] = locker[q]
    BY <1>3, <1>7
  <2>2. CASE k = p
    BY <1>2, <1>4, <1>7, <2>1, <2>2 DEF PeriodsInv, InsertsApart
  <2>3. CASE k # p
    BY <1>4, <1>7, <2>1, <2>3 DEF PeriodsInv, InsertsApart
  <2> QED
    BY <2>2, <2>3
<1>8. \A j, q \in Lockers :
        j # q /\ locker'[j].at = "insert" /\ locker'[q].at = "insert"
          /\ ~(locker'[j].raced /\ locker'[q].raced) =>
            Disjoint(locker'[j].range, locker'[q].range)
  BY <1>3 DEF PeriodsInv, InsertsApart
<1> QED
  BY <1>5, <1>6, <1>7, <1>8 DEF PeriodsInv, InsertsApart

LEMMA DeletePeriodKeeps ==
  ASSUME PeriodsInv, NEW p \in Periods, DeletePeriod(p)
  PROVE  PeriodsInv'
<1>1. NoRange \in DateRange
  BY PeriodsAssumption DEF NoRange, DateRange, Anyday
<1>2. /\ period' = [period EXCEPT ![p] = [kept |-> FALSE, range |-> NoRange, raced |-> FALSE]]
      /\ locker' = locker
  BY DEF DeletePeriod
<1>3. \A q \in Periods : period'[q].kept => period'[q] = period[q]
  BY <1>2 DEF PeriodsInv, PeriodsTypeOK
<1>4. PeriodsTypeOK'
  BY <1>1, <1>2 DEF PeriodsInv, PeriodsTypeOK
<1>5. PeriodsApart' /\ InsertsApart'
  BY <1>2, <1>3 DEF PeriodsInv, PeriodsApart, InsertsApart
<1> QED
  BY <1>4, <1>5 DEF PeriodsInv

LEMMA PeriodsStep == PeriodsInv /\ [PeriodsNext]_periodVars => PeriodsInv'
<1> SUFFICES ASSUME PeriodsInv, [PeriodsNext]_periodVars PROVE PeriodsInv'
  OBVIOUS
<1>1. CASE UNCHANGED periodVars
  BY <1>1 DEF periodVars, PeriodsInv, PeriodsTypeOK, PeriodsApart, InsertsApart
<1>2. ASSUME NEW r \in Lockers, NEW start \in Days, NEW end \in Days, CountOverlaps(r, start, end)
      PROVE  PeriodsInv'
  BY <1>2, CountKeeps
<1>3. ASSUME NEW r \in Lockers, NEW p \in Periods, InsertPeriod(r, p)
      PROVE  PeriodsInv'
  BY <1>3, InsertKeeps
<1>4. ASSUME NEW r \in Lockers, InsertFails(r)
      PROVE  PeriodsInv'
  BY <1>4, UnlockKeeps DEF InsertFails
<1>5. ASSUME NEW p \in Periods, DeletePeriod(p)
      PROVE  PeriodsInv'
  BY <1>5, DeletePeriodKeeps
<1> QED
  BY <1>1, <1>2, <1>3, <1>4, <1>5 DEF PeriodsNext

\* Overlapping periods "would make the lock ambiguous" (CreatePeriod): whatever requests
\* create and delete, two kept periods overlap only if both were created at the same time.
THEOREM PeriodsStayApart == PeriodsSpec => []PeriodsApart
<1>1. PeriodsInv => PeriodsApart
  BY DEF PeriodsInv
<1> QED
  BY PeriodsBegin, PeriodsStep, <1>1, PTL DEF PeriodsSpec

(***************************************************************************)
(* Sessions: a sign-in never has two tokens that work.  The inductive      *)
(* invariant adds that an unused row belongs to no sign-in and replaces    *)
(* nothing, and that a rotation under way holds a live token that no other *)
(* rotation holds.                                                         *)
(***************************************************************************)
\* Row k is in use.
InUse(k) == token[k].state # "none"

\* A sign-in has one row that works at most, and no row was replaced twice.
OneLivePerSignIn ==
  /\ \A j, k \in Tokens : Live(j) /\ Live(k) /\ token[j].first = token[k].first => j = k
  /\ \A j, k \in Tokens : token[j].next = token[k].next /\ token[j].next # NoToken => j = k
  /\ \A k \in Tokens : token[k].next # NoToken => ~Live(k)

\* A row in use belongs to a sign-in that began with a row in use, and only rows in use
\* have replaced another.
Descent ==
  /\ \A k \in Tokens : InUse(k) => token[k].first \in Tokens /\ InUse(token[k].first)
  /\ \A k \in Tokens : token[k].next # NoToken => InUse(token[k].next)
  /\ \A k \in Tokens : ~InUse(k) => token[k].next = NoToken

\* The row lock: one rotation per token, and nothing revokes the token it holds.
LocksHold ==
  /\ \A r \in Requests :
       refresh[r].at \in {"rotate", "rotating"} => refresh[r].token \in Tokens
  /\ \A r \in Requests : refresh[r].at = "rotating" => Live(refresh[r].token)
  /\ \A r, q \in Requests :
       /\ refresh[r].at = "rotating" /\ refresh[q].at = "rotating"
       /\ refresh[r].token = refresh[q].token
       => r = q

SessionsInv == SessionsTypeOK /\ OneLivePerSignIn /\ Descent /\ LocksHold

TokenRow == [state : {"none", "live", "revoked"}, expired : BOOLEAN,
             next : Tokens \cup {NoToken}, first : Tokens \cup {NoToken}]

LEMMA SessionsBegin == SessionsInit => SessionsInv
  BY DEF SessionsInit, SessionsInv, SessionsTypeOK, OneLivePerSignIn, Descent, LocksHold,
         Live, InUse, AtRest

LEMMA RestTyped == AtRest \in [at : {"idle", "rotate", "rotating", "wipe", "wiping"},
                               token : Tokens \cup {NoToken}, seen : SUBSET Tokens]
  BY DEF AtRest

\* A step that leaves the rows alone and begins no rotation.
LEMMA TurnKeeps ==
  ASSUME SessionsInv, NEW r \in Requests, UNCHANGED token,
         \A q \in Requests \ {r} : refresh'[q] = refresh[q],
         SessionsTypeOK',
         refresh'[r].at # "rotating",
         refresh'[r].at = "rotate" => refresh'[r].token \in Tokens
  PROVE  SessionsInv'
<1>1. OneLivePerSignIn' /\ Descent'
  BY DEF SessionsInv, OneLivePerSignIn, Descent, Live, InUse
<1>2. LocksHold'
  BY DEF SessionsInv, LocksHold, Live
<1> QED
  BY <1>1, <1>2 DEF SessionsInv

LEMMA RestKeeps ==
  ASSUME SessionsInv, NEW r \in Requests, UNCHANGED token, Rest(r)
  PROVE  SessionsInv'
<1>1. refresh' = [refresh EXCEPT ![r] = AtRest]
  BY DEF Rest
<1>2. SessionsTypeOK'
  BY <1>1, RestTyped DEF SessionsInv, SessionsTypeOK
<1>3. refresh'[r] = AtRest /\ \A q \in Requests \ {r} : refresh'[q] = refresh[q]
  BY <1>1 DEF SessionsInv, SessionsTypeOK
<1> QED
  BY <1>2, <1>3, TurnKeeps DEF AtRest

LEMMA WipeTurnKeeps ==
  ASSUME SessionsInv, NEW r \in Requests, UNCHANGED token, Turn(r, "wipe")
  PROVE  SessionsInv'
<1>1. refresh' = [refresh EXCEPT ![r].at = "wipe"]
  BY DEF Turn
<1>2. SessionsTypeOK' /\ refresh'[r].at = "wipe"
  BY <1>1 DEF SessionsInv, SessionsTypeOK
<1>3. \A q \in Requests \ {r} : refresh'[q] = refresh[q]
  BY <1>1 DEF SessionsInv, SessionsTypeOK
<1> QED
  BY <1>2, <1>3, TurnKeeps

LEMMA PresentKeeps ==
  ASSUME SessionsInv, NEW r \in Requests, NEW k \in Tokens, Present(r, k)
  PROVE  SessionsInv'
<1> DEFINE held == [at |-> IF Live(k) THEN "rotate" ELSE "wipe", token |-> k, seen |-> {}]
<1>1. refresh' = [refresh EXCEPT ![r] = held] /\ UNCHANGED token
  BY DEF Present, AtRest
<1>2. held \in [at : {"idle", "rotate", "rotating", "wipe", "wiping"},
                token : Tokens \cup {NoToken}, seen : SUBSET Tokens]
  OBVIOUS
<1>3. held.at # "rotating" /\ held.token = k
  OBVIOUS
<1> HIDE DEF held
<1>4. SessionsTypeOK'
  BY <1>1, <1>2 DEF SessionsInv, SessionsTypeOK
<1>5. refresh'[r] = held /\ \A q \in Requests \ {r} : refresh'[q] = refresh[q]
  BY <1>1 DEF SessionsInv, SessionsTypeOK
<1> QED
  BY <1>1, <1>3, <1>4, <1>5, TurnKeeps

LEMMA BeginRotateKeeps ==
  ASSUME SessionsInv, NEW r \in Requests, BeginRotate(r)
  PROVE  SessionsInv'
<1>1. /\ refresh[r].at = "rotate" /\ ~RowLocked(refresh[r].token) /\ Live(refresh[r].token)
      /\ refresh' = [refresh EXCEPT ![r].at = "rotating"] /\ token' = token
  BY DEF BeginRotate, StillLive, Turn
<1>2. /\ SessionsTypeOK'
      /\ refresh'[r].at = "rotating" /\ refresh'[r].token = refresh[r].token
      /\ \A q \in Requests \ {r} : refresh'[q] = refresh[q]
  BY <1>1 DEF SessionsInv, SessionsTypeOK
<1>3. OneLivePerSignIn' /\ Descent'
  BY <1>1 DEF SessionsInv, OneLivePerSignIn, Descent, Live, InUse
<1>4. \A q \in Requests \ {r} :
        refresh[q].at = "rotating" => refresh[q].token # refresh[r].token
  BY <1>1 DEF RowLocked
<1>5. LocksHold'
  BY <1>1, <1>2, <1>4 DEF SessionsInv, LocksHold, Live
<1> QED
  BY <1>2, <1>3, <1>5 DEF SessionsInv

LEMMA CommitRotateKeeps ==
  ASSUME SessionsInv, NEW r \in Requests, NEW new \in Tokens, CommitRotate(r, new)
  PROVE  SessionsInv'
<1> DEFINE old == refresh[r].token
<1>1. /\ refresh[r].at = "rotating" /\ token[new].state = "none"
      /\ token' = [token EXCEPT ![old].state = "revoked", ![old].next = new,
                                ![new].state = "live", ![new].first = token[old].first]
      /\ refresh' = [refresh EXCEPT ![r] = AtRest]
  BY DEF CommitRotate, Rest
<1>2. old \in Tokens /\ Live(old) /\ old # new /\ token[old].next = NoToken
  BY <1>1 DEF SessionsInv, LocksHold, Live, OneLivePerSignIn
<1> HIDE DEF old
<1>3. /\ token'[old].state = "revoked" /\ token'[old].next = new
      /\ token'[old].first = token[old].first
      /\ token'[new].state = "live" /\ token'[new].first = token[old].first
      /\ token'[new].next = token[new].next
      /\ \A k \in Tokens \ {old, new} : token'[k] = token[k]
  BY <1>1, <1>2 DEF SessionsInv, SessionsTypeOK
<1>4. refresh'[r] = AtRest /\ \A q \in Requests \ {r} : refresh'[q] = refresh[q]
  BY <1>1 DEF SessionsInv, SessionsTypeOK
<1>5. SessionsTypeOK'
  <2>1. token[old].first \in Tokens \cup {NoToken}
    BY <1>2 DEF SessionsInv, SessionsTypeOK
  <2>2. /\ token'[old] = [token[old] EXCEPT !.state = "revoked", !.next = new]
        /\ token'[new] = [token[new] EXCEPT !.state = "live", !.first = token[old].first]
    BY <1>1, <1>2 DEF SessionsInv, SessionsTypeOK
  <2>3. ASSUME NEW k \in Tokens PROVE token'[k] \in TokenRow
    <3>1. token[k] \in TokenRow
      BY DEF SessionsInv, SessionsTypeOK, TokenRow
    <3>2. CASE k = old
      BY <2>2, <3>1, <3>2 DEF TokenRow
    <3>3. CASE k = new
      BY <2>1, <2>2, <3>1, <3>3 DEF TokenRow
    <3>4. CASE k \notin {old, new}
      BY <1>3, <3>1, <3>4
    <3> QED
      BY <3>2, <3>3, <3>4
  <2>4. token' \in [Tokens -> TokenRow]
    BY <1>1, <2>3 DEF SessionsInv, SessionsTypeOK
  <2>5. refresh' \in [Requests -> [at : {"idle", "rotate", "rotating", "wipe", "wiping"},
                                   token : Tokens \cup {NoToken}, seen : SUBSET Tokens]]
    BY <1>1, RestTyped DEF SessionsInv, SessionsTypeOK
  <2> QED
    BY <2>4, <2>5 DEF SessionsTypeOK, TokenRow
<1>6. \A k \in Tokens : token[k].next # new
  BY <1>1, SessionsAssumption DEF SessionsInv, Descent, InUse
<1>7. token[new].next = NoToken /\ new # NoToken
  BY <1>1, SessionsAssumption DEF SessionsInv, Descent, InUse
<1>8. OneLivePerSignIn'
  <2>1. \A k \in Tokens \ {old, new} : ~(Live(k) /\ token[k].first = token[old].first)
    BY <1>2 DEF SessionsInv, OneLivePerSignIn
  <2>2. \A j, k \in Tokens :
          Live(j)' /\ Live(k)' /\ token'[j].first = token'[k].first => j = k
    BY <1>2, <1>3, <2>1 DEF SessionsInv, OneLivePerSignIn, Live
  <2>3. \A j, k \in Tokens : token'[j].next = token'[k].next /\ token'[j].next # NoToken => j = k
    BY <1>2, <1>3, <1>6, <1>7 DEF SessionsInv, OneLivePerSignIn
  <2>4. \A k \in Tokens : token'[k].next # NoToken => ~Live(k)'
    BY <1>2, <1>3, <1>7 DEF SessionsInv, OneLivePerSignIn, Live
  <2> QED
    BY <2>2, <2>3, <2>4 DEF OneLivePerSignIn
<1>9. Descent'
  <2>1. \A k \in Tokens : InUse(k) => InUse(k)'
    BY <1>3 DEF InUse
  <2>2. token[old].first \in Tokens /\ InUse(token[old].first) /\ InUse(new)'
    BY <1>2, <1>3 DEF SessionsInv, Descent, Live, InUse
  <2>3. \A k \in Tokens : InUse(k)' => token'[k].first \in Tokens /\ InUse(token[k].first)'
    BY <1>3, <2>1, <2>2 DEF SessionsInv, Descent, InUse
  <2>4. \A k \in Tokens : token'[k].next # NoToken => InUse(token[k].next)'
    <3> SUFFICES ASSUME NEW k \in Tokens, token'[k].next # NoToken
                 PROVE  InUse(token[k].next)'
      OBVIOUS
    <3>1. CASE k = old
      BY <1>3, <2>2, <3>1
    <3>2. CASE k # old
      <4>1. token'[k].next = token[k].next
        BY <1>3, <3>2
      <4>2. token[k].next \in Tokens /\ InUse(token[k].next)
        BY <4>1 DEF SessionsInv, Descent, SessionsTypeOK
      <4> QED
        BY <2>1, <4>1, <4>2
    <3> QED
      BY <3>1, <3>2
  <2>5. \A k \in Tokens : ~InUse(k)' => token'[k].next = NoToken
    BY <1>3 DEF SessionsInv, Descent, InUse
  <2> QED
    BY <2>3, <2>4, <2>5 DEF Descent
<1>10. LocksHold'
  <2>1. \A q \in Requests \ {r} :
          refresh[q].at = "rotating" => refresh[q].token # old /\ refresh[q].token # new
    BY <1>1 DEF SessionsInv, LocksHold, Live, old
  <2> QED
    BY <1>3, <1>4, <2>1 DEF SessionsInv, LocksHold, Live, AtRest
<1> QED
  BY <1>5, <1>8, <1>9, <1>10 DEF SessionsInv

\* A step that only revokes: no locked row, and no row that is not live.
LEMMA RevokeKeeps ==
  ASSUME SessionsInv, SessionsTypeOK',
         NEW gone \in SUBSET Tokens,
         \A k \in gone : InUse(k) /\ ~RowLocked(k),
         \A k \in gone : /\ token'[k].state = "revoked"
                         /\ token'[k].next = token[k].next /\ token'[k].first = token[k].first,
         \A k \in Tokens \ gone : token'[k] = token[k],
         \A q \in Requests : refresh'[q] = refresh[q] \/ refresh'[q] = AtRest
  PROVE  SessionsInv'
<1>1. \A k \in Tokens : /\ InUse(k)' = InUse(k) /\ (Live(k)' => Live(k))
                        /\ token'[k].next = token[k].next /\ token'[k].first = token[k].first
  BY DEF InUse, Live
<1>2. OneLivePerSignIn'
  BY <1>1 DEF SessionsInv, OneLivePerSignIn
<1>3. Descent'
  BY <1>1 DEF SessionsInv, Descent, SessionsTypeOK
<1>4. LocksHold'
  <2>1. \A q \in Requests : refresh'[q].at \in {"rotate", "rotating"} => refresh'[q] = refresh[q]
    BY DEF AtRest
  <2>2. \A q \in Requests : refresh[q].at = "rotating" =>
          /\ refresh[q].token \in Tokens /\ refresh[q].token \notin gone
          /\ Live(refresh[q].token)
    BY DEF SessionsInv, LocksHold, RowLocked
  <2>3. \A q \in Requests : refresh'[q].at = "rotating" => Live(refresh[q].token)'
    BY <2>1, <2>2 DEF Live
  <2> QED
    BY <2>1, <2>3 DEF SessionsInv, LocksHold
<1> QED
  BY <1>2, <1>3, <1>4 DEF SessionsInv

LEMMA SignInKeeps ==
  ASSUME SessionsInv, NEW k \in Tokens, SignIn(k)
  PROVE  SessionsInv'
<1>1. /\ ~InUse(k) /\ refresh' = refresh
      /\ token' = [token EXCEPT ![k].state = "live", ![k].first = k]
  BY DEF SignIn, InUse
<1>2. /\ token'[k].state = "live" /\ token'[k].first = k /\ token'[k].next = token[k].next
      /\ \A j \in Tokens \ {k} : token'[j] = token[j]
  BY <1>1 DEF SessionsInv, SessionsTypeOK
<1>3. SessionsTypeOK'
  BY <1>1 DEF SessionsInv, SessionsTypeOK
<1>4. k # NoToken /\ token[k].next = NoToken /\ ~Live(k)
  BY <1>1, SessionsAssumption DEF SessionsInv, Descent, InUse, Live
<1>5. \A j \in Tokens : InUse(j) => token[j].first # k
  BY <1>1 DEF SessionsInv, Descent
<1>6. OneLivePerSignIn'
  <2>1. \A j \in Tokens \ {k} : (Live(j))' => Live(j) /\ token[j].first # k
    BY <1>2, <1>5 DEF Live, InUse
  <2> QED
    BY <1>2, <1>4, <2>1 DEF SessionsInv, OneLivePerSignIn
<1>7. Descent'
  <2>1. \A j \in Tokens : (InUse(j))' <=> InUse(j) \/ j = k
    BY <1>2 DEF InUse
  <2>2. \A j \in Tokens : token'[j].next = token[j].next
    BY <1>2
  <2>3. \A j \in Tokens : token[j].next # NoToken => token[j].next \in Tokens
    BY DEF SessionsInv, SessionsTypeOK
  <2>4. \A j \in Tokens : (InUse(j))' => token'[j].first \in Tokens /\ (InUse(token[j].first))'
    BY <1>2, <2>1 DEF SessionsInv, Descent
  <2>5. \A j \in Tokens : token'[j].next # NoToken => (InUse(token[j].next))'
    BY <2>1, <2>2, <2>3 DEF SessionsInv, Descent
  <2>6. \A j \in Tokens : ~(InUse(j))' => token'[j].next = NoToken
    BY <2>1, <2>2 DEF SessionsInv, Descent
  <2> QED
    BY <2>4, <2>5, <2>6 DEF Descent
<1>8. LocksHold'
  BY <1>1, <1>2 DEF SessionsInv, LocksHold, Live
<1> QED
  BY <1>3, <1>6, <1>7, <1>8 DEF SessionsInv

LEMMA ExpireKeeps ==
  ASSUME SessionsInv, NEW k \in Tokens, Expire(k)
  PROVE  SessionsInv'
<1>1. refresh' = refresh /\ token' = [token EXCEPT ![k].expired = TRUE]
  BY DEF Expire
<1>2. \A j \in Tokens : /\ token'[j].state = token[j].state /\ token'[j].first = token[j].first
                        /\ token'[j].next = token[j].next
  BY <1>1 DEF SessionsInv, SessionsTypeOK
<1>3. SessionsTypeOK'
  BY <1>1 DEF SessionsInv, SessionsTypeOK
<1>4. \A j \in Tokens : /\ (Live(j))' <=> Live(j)
                        /\ (InUse(j))' <=> InUse(j)
  BY <1>2 DEF Live, InUse
<1>5. OneLivePerSignIn'
  BY <1>2, <1>4 DEF SessionsInv, OneLivePerSignIn
<1>6. Descent'
  BY <1>2, <1>4 DEF SessionsInv, Descent, SessionsTypeOK
<1>7. LocksHold'
  BY <1>1, <1>2 DEF SessionsInv, LocksHold, Live
<1> QED
  BY <1>3, <1>5, <1>6, <1>7 DEF SessionsInv

LEMMA SignOutKeeps ==
  ASSUME SessionsInv, NEW k \in Tokens, SignOut(k)
  PROVE  SessionsInv'
<1>1. /\ Live(k) /\ ~RowLocked(k) /\ refresh' = refresh
      /\ token' = [token EXCEPT ![k].state = "revoked"]
  BY DEF SignOut
<1>2. SessionsTypeOK'
  BY <1>1 DEF SessionsInv, SessionsTypeOK
<1>3. /\ token'[k].state = "revoked" /\ token'[k].next = token[k].next
      /\ token'[k].first = token[k].first
      /\ \A j \in Tokens \ {k} : token'[j] = token[j]
  BY <1>1 DEF SessionsInv, SessionsTypeOK
<1> DEFINE gone == {k}
<1>4. gone \in SUBSET Tokens /\ \A j \in gone : InUse(j) /\ ~RowLocked(j)
  BY <1>1 DEF Live, InUse
<1> QED
  BY <1>1, <1>2, <1>3, <1>4, RevokeKeeps

LEMMA BeginWipeKeeps ==
  ASSUME SessionsInv, NEW r \in Requests, BeginWipe(r)
  PROVE  SessionsInv'
<1> DEFINE live == {k \in Tokens : Live(k)}
<1>1. /\ refresh' = [refresh EXCEPT ![r].at = "wiping", ![r].seen = live]
      /\ token' = token /\ live \in SUBSET Tokens
  BY DEF BeginWipe
<1> HIDE DEF live
<1>2. SessionsTypeOK' /\ refresh'[r].at = "wiping"
  BY <1>1 DEF SessionsInv, SessionsTypeOK
<1>3. \A q \in Requests \ {r} : refresh'[q] = refresh[q]
  BY <1>1 DEF SessionsInv, SessionsTypeOK
<1> QED
  BY <1>1, <1>2, <1>3, TurnKeeps

\* What a sign-out everywhere has seen was live then, so it is in use now.
SeenInUse == \A r \in Requests, k \in Tokens : k \in refresh[r].seen => InUse(k)

LEMMA EndWipeKeeps ==
  ASSUME SessionsInv, SeenInUse, NEW r \in Requests, EndWipe(r)
  PROVE  SessionsInv'
<1> DEFINE seen == refresh[r].seen
<1>1. /\ \A k \in seen : ~RowLocked(k)
      /\ token' = [k \in Tokens |->
                     IF k \in seen THEN [token[k] EXCEPT !.state = "revoked"] ELSE token[k]]
      /\ refresh' = [refresh EXCEPT ![r] = AtRest]
  BY DEF EndWipe, Rest
<1>2. seen \in SUBSET Tokens
  BY DEF SessionsInv, SessionsTypeOK
<1>3. \A k \in seen : InUse(k)
  BY <1>2 DEF SeenInUse
<1> HIDE DEF seen
<1>4. \A k \in Tokens : token'[k] = IF k \in seen THEN [token[k] EXCEPT !.state = "revoked"]
                                    ELSE token[k]
  BY <1>1
<1>5. \A k \in seen : /\ token'[k].state = "revoked" /\ token'[k].next = token[k].next
                      /\ token'[k].first = token[k].first
  BY <1>2, <1>4 DEF SessionsInv, SessionsTypeOK
<1>6. \A k \in Tokens \ seen : token'[k] = token[k]
  BY <1>4
<1>7. SessionsTypeOK'
  <2>1. \A k \in Tokens : token'[k] \in [state : {"none", "live", "revoked"}, expired : BOOLEAN,
                                         next : Tokens \cup {NoToken},
                                         first : Tokens \cup {NoToken}]
    BY <1>4 DEF SessionsInv, SessionsTypeOK
  <2>2. token' \in [Tokens -> [state : {"none", "live", "revoked"}, expired : BOOLEAN,
                               next : Tokens \cup {NoToken}, first : Tokens \cup {NoToken}]]
    BY <1>1, <2>1
  <2> QED
    BY <1>1, <2>2, RestTyped DEF SessionsInv, SessionsTypeOK
<1>8. \A q \in Requests : refresh'[q] = refresh[q] \/ refresh'[q] = AtRest
  BY <1>1 DEF SessionsInv, SessionsTypeOK
<1> QED
  BY <1>1, <1>2, <1>3, <1>5, <1>6, <1>7, <1>8, RevokeKeeps

\* Rows in use stay in use, and a request sees nothing new but the live rows.
LEMMA UseStays ==
  ASSUME SessionsInv, [SessionsNext]_sessionVars
  PROVE  /\ \A j \in Tokens : token[j].state # "none" => token'[j].state # "none"
         /\ \A q \in Requests :
              refresh'[q].seen \subseteq refresh[q].seen \cup {k \in Tokens : Live(k)}
<1>1. CASE UNCHANGED sessionVars
  BY <1>1 DEF sessionVars
<1>2. ASSUME NEW k \in Tokens, SignIn(k) \/ Expire(k) \/ SignOut(k)
      PROVE  UNCHANGED refresh /\ \A j \in Tokens : token[j].state # "none" => token'[j].state # "none"
  BY <1>2 DEF SignIn, Expire, SignOut, SessionsInv, SessionsTypeOK
<1>3. ASSUME NEW r \in Requests, NEW k \in Tokens, CommitRotate(r, k)
      PROVE  /\ \A j \in Tokens : token[j].state # "none" => token'[j].state # "none"
             /\ refresh' = [refresh EXCEPT ![r] = AtRest]
  BY <1>3 DEF CommitRotate, Rest, SessionsInv, SessionsTypeOK
<1>4. ASSUME NEW r \in Requests, EndWipe(r)
      PROVE  /\ \A j \in Tokens : token[j].state # "none" => token'[j].state # "none"
             /\ refresh' = [refresh EXCEPT ![r] = AtRest]
  <2>1. \A j \in Tokens : token'[j] = IF j \in refresh[r].seen
                                      THEN [token[j] EXCEPT !.state = "revoked"] ELSE token[j]
    BY <1>4 DEF EndWipe
  <2> QED
    BY <1>4, <2>1 DEF EndWipe, Rest, SessionsInv, SessionsTypeOK
<1>5. ASSUME NEW r \in Requests,
             \/ \E k \in Tokens : Present(r, k)
             \/ LoseRace(r) \/ BeginRotate(r) \/ GiveUpRequest(r)
             \/ SignOutEverywhere(r) \/ BeginWipe(r)
      PROVE  /\ token' = token
             /\ refresh'[r].seen \subseteq refresh[r].seen \cup {k \in Tokens : Live(k)}
             /\ \A q \in Requests \ {r} : refresh'[q] = refresh[q]
  BY <1>5 DEF Present, LoseRace, BeginRotate, GiveUpRequest, SignOutEverywhere, BeginWipe,
              Turn, Rest, AtRest, SessionsInv, SessionsTypeOK
<1>6. ASSUME NEW r \in Requests, refresh' = [refresh EXCEPT ![r] = AtRest]
      PROVE  \A q \in Requests :
               refresh'[q].seen \subseteq refresh[q].seen \cup {k \in Tokens : Live(k)}
  BY <1>6 DEF AtRest, SessionsInv, SessionsTypeOK
<1> QED
  BY <1>1, <1>2, <1>3, <1>4, <1>5, <1>6 DEF SessionsNext

LEMMA SeenStaysInUse ==
  ASSUME SessionsInv, SeenInUse, [SessionsNext]_sessionVars
  PROVE  SeenInUse'
  BY UseStays DEF SeenInUse, Live, InUse

LEMMA SessionsStep ==
  SessionsInv /\ SeenInUse /\ [SessionsNext]_sessionVars => SessionsInv'
<1> SUFFICES ASSUME SessionsInv, SeenInUse, [SessionsNext]_sessionVars PROVE SessionsInv'
  OBVIOUS
<1>1. CASE UNCHANGED sessionVars
  BY <1>1 DEF sessionVars, SessionsInv, SessionsTypeOK, OneLivePerSignIn, Descent, LocksHold,
              Live, InUse
<1>2. ASSUME NEW k \in Tokens, SignIn(k) \/ Expire(k) \/ SignOut(k)
      PROVE  SessionsInv'
  BY <1>2, SignInKeeps, ExpireKeeps, SignOutKeeps
<1>3. ASSUME NEW r \in Requests, NEW k \in Tokens, Present(r, k) \/ CommitRotate(r, k)
      PROVE  SessionsInv'
  BY <1>3, PresentKeeps, CommitRotateKeeps
<1>4. ASSUME NEW r \in Requests, LoseRace(r) \/ SignOutEverywhere(r)
      PROVE  SessionsInv'
  BY <1>4, WipeTurnKeeps DEF LoseRace, SignOutEverywhere
<1>5. ASSUME NEW r \in Requests, GiveUpRequest(r)
      PROVE  SessionsInv'
  BY <1>5, RestKeeps DEF GiveUpRequest
<1>6. ASSUME NEW r \in Requests, BeginRotate(r) \/ BeginWipe(r) \/ EndWipe(r)
      PROVE  SessionsInv'
  BY <1>6, BeginRotateKeeps, BeginWipeKeeps, EndWipeKeeps
<1> QED
  BY <1>1, <1>2, <1>3, <1>4, <1>5, <1>6 DEF SessionsNext

\* However many refreshes of its tokens race with each other and with signing out, a
\* sign-in never has two tokens that work, and no token was replaced twice.
THEOREM SignInsHaveOneToken == SessionsSpec => []OneLivePerSignIn
<1>1. SessionsInit => SessionsInv /\ SeenInUse
  BY SessionsBegin DEF SessionsInit, SeenInUse, AtRest
<1>2. SessionsInv /\ SeenInUse /\ [SessionsNext]_sessionVars => (SessionsInv /\ SeenInUse)'
  BY SessionsStep, SeenStaysInUse
<1>3. SessionsInv => OneLivePerSignIn
  BY DEF SessionsInv
<1> QED
  BY <1>1, <1>2, <1>3, PTL DEF SessionsSpec

(* The tokens implement SignInBook: the tokens of a sign-in that work are one or none. *)

\* A step that leaves every token as it was, but for when it expires.
LEMMA SignInsStay ==
  ASSUME \A k \in Tokens : /\ token'[k].state = token[k].state
                           /\ token'[k].first = token[k].first
  PROVE  UNCHANGED SignIns!signIns
<1>1. ASSUME NEW s \in Tokens PROVE (Working(s))' = Working(s)
  BY DEF Working, Live
<1>2. [s \in Tokens |-> Working(s)]' = [s \in Tokens |-> Working(s)]
  BY <1>1
<1>3. UNCHANGED {k \in Tokens : token[k].state # "none"}
  OBVIOUS
<1> QED
  BY <1>2, <1>3 DEF SignIns!signIns

LEMMA SignInOpens ==
  ASSUME SessionsInv, NEW k \in Tokens, SignIn(k)
  PROVE  SignIns!Open(k)
<1>1. /\ token[k].state = "none"
      /\ token' = [token EXCEPT ![k].state = "live", ![k].first = k]
  BY DEF SignIn
<1>2. /\ token'[k].state = "live" /\ token'[k].first = k
      /\ \A j \in Tokens \ {k} : token'[j] = token[j]
  BY <1>1 DEF SessionsInv, SessionsTypeOK
<1>3. ASSUME NEW j \in Tokens, Live(j) PROVE token[j].first # k
  BY <1>1, <1>3 DEF SessionsInv, Descent, InUse, Live
<1>4. (Working(k))' = {k}
  BY <1>2, <1>3 DEF Working, Live
<1>5. ASSUME NEW s \in Tokens \ {k} PROVE (Working(s))' = Working(s)
  BY <1>1, <1>2 DEF Working, Live
<1>6. [s \in Tokens |-> Working(s)]' = [[s \in Tokens |-> Working(s)] EXCEPT ![k] = {k}]
  BY <1>4, <1>5
<1>7. {j \in Tokens : token[j].state # "none"}' = {j \in Tokens : token[j].state # "none"} \cup {k}
  BY <1>2
<1> QED
  BY <1>1, <1>6, <1>7 DEF SignIns!Open

\* What a rotation replaces is the one token of its sign-in that works.
LEMMA RotationReplaces ==
  ASSUME SessionsInv, NEW r \in Requests, NEW new \in Tokens, CommitRotate(r, new)
  PROVE  \E s \in Tokens : SignIns!Replace(s, new)
<1>1. /\ refresh[r].token \in Tokens /\ Live(refresh[r].token)
      /\ token[refresh[r].token].first \in Tokens
  BY DEF CommitRotate, SessionsInv, LocksHold, Descent, InUse, Live
<1> PICK old \in Tokens : old = refresh[r].token
  BY <1>1
<1> PICK s \in Tokens : s = token[old].first
  BY <1>1
<1>2. /\ token[new].state = "none"
      /\ token' = [token EXCEPT ![old].state = "revoked", ![old].next = new,
                                ![new].state = "live", ![new].first = s]
  BY DEF CommitRotate
<1>3. Live(old) /\ old # new
  BY <1>1, <1>2 DEF Live
<1>4. /\ token'[old].state = "revoked" /\ token'[old].first = s
      /\ token'[new].state = "live" /\ token'[new].first = s
      /\ \A k \in Tokens \ {old, new} : token'[k] = token[k]
  BY <1>2, <1>3 DEF SessionsInv, SessionsTypeOK
<1>5. ASSUME NEW k \in Tokens \ {old}, Live(k) PROVE token[k].first # s
  BY <1>3, <1>5 DEF SessionsInv, OneLivePerSignIn
<1>6. old \in Working(s) /\ (Working(s))' = {new}
  BY <1>3, <1>4, <1>5 DEF Working, Live
<1>7. ASSUME NEW q \in Tokens \ {s} PROVE (Working(q))' = Working(q)
  BY <1>2, <1>3, <1>4 DEF Working, Live
<1>8. [q \in Tokens |-> Working(q)]' = [[q \in Tokens |-> Working(q)] EXCEPT ![s] = {new}]
  BY <1>6, <1>7
<1>9. {j \in Tokens : token[j].state # "none"}' = {j \in Tokens : token[j].state # "none"} \cup {new}
  <2>1. token[old].state # "none"
    BY <1>3 DEF Live
  <2> QED
    BY <1>3, <1>4, <2>1
<1>10. SignIns!Replace(s, new)
  BY <1>2, <1>6, <1>8, <1>9 DEF SignIns!Replace
<1> QED
  BY <1>10

\* Tokens that are revoked without a replacement end the sign-ins in which they worked.
LEMMA RevokingEnds ==
  ASSUME OneLivePerSignIn, NEW gone \in SUBSET Tokens,
         \A k \in gone : InUse(k),
         \A k \in gone : token'[k].state = "revoked" /\ token'[k].first = token[k].first,
         \A k \in Tokens \ gone : token'[k] = token[k]
  PROVE  \E S \in SUBSET Tokens : SignIns!End(S)
<1> DEFINE S == {s \in Tokens : Working(s) \cap gone # {}}
<1>1. ASSUME NEW s \in S PROVE (Working(s))' = {}
  <2>1. PICK old \in gone : Live(old) /\ token[old].first = s
    BY DEF Working
  <2>2. ASSUME NEW k \in Tokens \ gone, Live(k) PROVE token[k].first # s
    BY <2>1, <2>2 DEF OneLivePerSignIn
  <2> QED
    BY <2>2 DEF Working, Live
<1>2. ASSUME NEW s \in Tokens \ S PROVE (Working(s))' = Working(s)
  <2>1. \A k \in gone : ~(Live(k) /\ token[k].first = s)
    BY DEF Working
  <2> QED
    BY <2>1 DEF Working, Live
<1> HIDE DEF S
<1>3. [s \in Tokens |-> Working(s)]' =
        [s \in Tokens |-> IF s \in S THEN {} ELSE [q \in Tokens |-> Working(q)][s]]
  BY <1>1, <1>2
<1>4. UNCHANGED {k \in Tokens : token[k].state # "none"}
  BY DEF InUse
<1>5. SignIns!End(S)
  BY <1>3, <1>4 DEF SignIns!End
<1>6. S \in SUBSET Tokens
  BY DEF S
<1> QED
  BY <1>5, <1>6

LEMMA SignInBookStep ==
  ASSUME SessionsInv, SeenInUse, [SessionsNext]_sessionVars
  PROVE  [SignIns!Next]_SignIns!signIns
<1>1. OneLivePerSignIn
  BY DEF SessionsInv
<1>2. ASSUME UNCHANGED token PROVE [SignIns!Next]_SignIns!signIns
  BY <1>2, SignInsStay
<1>3. ASSUME NEW k \in Tokens, SignIn(k) PROVE [SignIns!Next]_SignIns!signIns
  BY <1>3, SignInOpens DEF SignIns!Next
<1>4. ASSUME NEW k \in Tokens, Expire(k) PROVE [SignIns!Next]_SignIns!signIns
  <2>1. token' = [token EXCEPT ![k].expired = TRUE]
    BY <1>4 DEF Expire
  <2>2. \A j \in Tokens : token'[j].state = token[j].state /\ token'[j].first = token[j].first
    BY <2>1 DEF SessionsInv, SessionsTypeOK
  <2> QED
    BY <2>2, SignInsStay
<1>5. ASSUME NEW k \in Tokens, SignOut(k) PROVE [SignIns!Next]_SignIns!signIns
  <2>1. Live(k) /\ token' = [token EXCEPT ![k].state = "revoked"]
    BY <1>5 DEF SignOut
  <2>2. /\ token'[k].state = "revoked" /\ token'[k].first = token[k].first
        /\ \A j \in Tokens \ {k} : token'[j] = token[j]
    BY <2>1 DEF SessionsInv, SessionsTypeOK
  <2>3. InUse(k)
    BY <2>1 DEF InUse, Live
  <2>4. \E S \in SUBSET Tokens : SignIns!End(S)
    <3> DEFINE gone == {k}
    <3>1. gone \in SUBSET Tokens /\ \A j \in gone : j = k
      OBVIOUS
    <3> QED
      BY <1>1, <2>2, <2>3, <3>1, RevokingEnds
  <2> QED
    BY <2>4 DEF SignIns!Next
<1>6. ASSUME NEW r \in Requests, EndWipe(r) PROVE [SignIns!Next]_SignIns!signIns
  <2> DEFINE gone == refresh[r].seen
  <2>1. gone \in SUBSET Tokens /\ \A k \in gone : InUse(k)
    BY DEF SessionsInv, SessionsTypeOK, SeenInUse
  <2>2. \A k \in Tokens : token'[k] = IF k \in gone THEN [token[k] EXCEPT !.state = "revoked"]
                                      ELSE token[k]
    BY <1>6 DEF EndWipe
  <2> HIDE DEF gone
  <2>3. /\ \A k \in gone : token'[k].state = "revoked" /\ token'[k].first = token[k].first
        /\ \A k \in Tokens \ gone : token'[k] = token[k]
    BY <2>1, <2>2 DEF SessionsInv, SessionsTypeOK
  <2> QED
    BY <1>1, <2>1, <2>3, RevokingEnds DEF SignIns!Next
<1>7. ASSUME NEW r \in Requests, NEW k \in Tokens, CommitRotate(r, k)
      PROVE  [SignIns!Next]_SignIns!signIns
  BY <1>7, RotationReplaces DEF SignIns!Next
<1>8. ASSUME NEW r \in Requests,
             \/ \E k \in Tokens : Present(r, k)
             \/ LoseRace(r) \/ BeginRotate(r) \/ GiveUpRequest(r)
             \/ SignOutEverywhere(r) \/ BeginWipe(r)
      PROVE  UNCHANGED token
  BY <1>8 DEF Present, LoseRace, BeginRotate, GiveUpRequest, SignOutEverywhere, BeginWipe
<1>9. CASE UNCHANGED sessionVars
  BY <1>2, <1>9 DEF sessionVars
<1> QED
  BY <1>2, <1>3, <1>4, <1>5, <1>6, <1>7, <1>8, <1>9 DEF SessionsNext

LEMMA SignInBookBegins == SessionsInit => SignIns!Init
<1> SUFFICES ASSUME SessionsInit PROVE SignIns!Init
  OBVIOUS
<1>1. \A k \in Tokens : token[k].state = "none"
  BY DEF SessionsInit
<1>2. \A s \in Tokens : Working(s) = {}
  BY <1>1 DEF Working, Live
<1>3. {k \in Tokens : token[k].state # "none"} = {}
  BY <1>1
<1>4. [s \in Tokens |-> Working(s)] = [s \in Tokens |-> {}]
  BY <1>2
<1> QED
  BY <1>3, <1>4 DEF SignIns!Init

\* A sign-in that has ended never comes back and no token stands for two sign-ins, or twice
\* for one, whatever refreshes race with each other and with signing out.
THEOREM SignInBookKept == SessionsSpec => KeepsSignInBook
<1>1. SessionsInit => SessionsInv /\ SeenInUse
  BY SessionsBegin DEF SessionsInit, SeenInUse, AtRest
<1>2. SessionsInv /\ SeenInUse /\ [SessionsNext]_sessionVars => (SessionsInv /\ SeenInUse)'
  BY SessionsStep, SeenStaysInUse
<1>3. SessionsInv /\ SeenInUse /\ [SessionsNext]_sessionVars
        => [SignIns!Next]_SignIns!signIns
  BY SignInBookStep
<1> QED
  BY <1>1, <1>2, <1>3, SignInBookBegins, PTL DEF SessionsSpec, KeepsSignInBook, SignIns!Spec

----------------------------------------------------------------------------
(***************************************************************************)
(* Imports of statement files, for any number of imports, files and        *)
(* requests.                                                               *)
(***************************************************************************)
\* Rows that may come in together: those not flagged are not stored, nor above.
Clean(rows) ==
  \A n \in DOMAIN rows : ~rows[n].duplicate =>
    /\ ~Stored(rows[n].print)
    /\ \A m \in 1..(n - 1) : rows[m].print # rows[n].print

\* What a request holds: it works on an import that was created, its rows are clean
\* if they were compared with all there is, and what an undo has counted still holds
\* unless it was raced.
Hand == [at : {"idle", "create", "remap", "select", "commit", "delete"},
         import : Imports \cup {NoImport}, rows : Seq(StagedRow),
         force : BOOLEAN, dated : BOOLEAN, raced : BOOLEAN]

Fit(h) ==
  /\ h.at \in {"remap", "select", "commit", "delete"} =>
       h.import \in Imports /\ imports[h.import].status # "none"
  /\ ~h.dated /\ h.at \in {"create", "remap"} => Clean(h.rows)
  /\ ~h.dated /\ ~h.force /\ h.at \in {"select", "commit"}
       /\ imports[h.import].status = "STAGED" => Clean(h.rows)
  /\ h.at = "delete" /\ ~h.raced => NothingBooked(h.import)

Staged ==
  /\ \A i \in Imports : imports[i].status \in {"none", "STAGED"} => commits[i] = 0
  /\ \A i \in Imports \ dated : imports[i].status = "STAGED" => Clean(imports[i].rows)

ImportsInv ==
  /\ ImportsTypeOK /\ CommittedOnce /\ NothingTwice /\ Staged
  /\ \A u \in Uploads : Fit(upload[u])

LEMMA ImportsBegin == ImportsInit => ImportsInv
<1>. SUFFICES ASSUME ImportsInit PROVE ImportsInv
  OBVIOUS
<1>1. << >> \in Seq(StagedRow)
  OBVIOUS
<1>2. NoLines \in [Prints -> Nat] /\ \A f \in Prints : NoLines[f] = 0
  BY DEF NoLines
<1>3. ImportsTypeOK
  BY <1>1, <1>2 DEF ImportsInit, ImportsTypeOK, NoUpload
<1>. QED BY <1>2, <1>3 DEF ImportsInit, ImportsInv, Fit, Staged, CommittedOnce, NothingTwice, NoUpload

LEMMA RowsPrepared ==
  ASSUME NEW file \in StatementFiles
  PROVE  PrepareRows(file) \in Seq(StagedRow) /\ Clean(PrepareRows(file))
<1>1. file \in Seq(Prints)
  BY StatementImportsAssumption
<1>2. /\ Len(file) \in Nat /\ DOMAIN file = 1..Len(file)
      /\ \A n \in 1..Len(file) : file[n] \in Prints
  BY <1>1
<1>. DEFINE flag(n) == Stored(file[n]) \/ \E m \in 1..(n - 1) : file[m] = file[n]
<1>3. \A n \in 1..Len(file) : flag(n) \in BOOLEAN
  OBVIOUS
<1>4. PrepareRows(file) = [n \in DOMAIN file |-> [print |-> file[n], duplicate |-> flag(n)]]
  BY DEF PrepareRows
<1>5. DOMAIN PrepareRows(file) = 1..Len(file)
  BY <1>2, <1>4
<1>. HIDE DEF flag
<1>6. PrepareRows(file) \in [1..Len(file) -> StagedRow]
  BY <1>2, <1>3, <1>4 DEF StagedRow
<1>7. PrepareRows(file) \in Seq(StagedRow)
  BY <1>2, <1>6
<1>8. \A n \in 1..Len(file) : /\ PrepareRows(file)[n].print = file[n]
                              /\ PrepareRows(file)[n].duplicate = flag(n)
  BY <1>2, <1>4
<1>9. \A n \in 1..Len(file) : \A m \in 1..(n - 1) : m \in 1..Len(file)
  BY <1>2
<1>10. ASSUME NEW n \in 1..Len(file), ~PrepareRows(file)[n].duplicate
      PROVE  /\ ~Stored(PrepareRows(file)[n].print)
             /\ \A m \in 1..(n - 1) : PrepareRows(file)[m].print # PrepareRows(file)[n].print
  <2>1. ~flag(n)
    BY <1>8, <1>10
  <2>2. ~Stored(file[n]) /\ \A m \in 1..(n - 1) : file[m] # file[n]
    BY <2>1 DEF flag
  <2>. QED BY <1>8, <1>9, <2>2
<1>. QED BY <1>5, <1>7, <1>10 DEF Clean

LEMMA FreshIs ==
  ASSUME NEW rows \in Seq(StagedRow), NEW f
  PROVE  /\ Fresh(rows, f) \in Nat
         /\ Clean(rows) => Fresh(rows, f) <= 1
         /\ Fresh(rows, f) > 0 /\ Clean(rows) => ~Stored(f)
<1>. DEFINE new == {n \in DOMAIN rows : rows[n].print = f /\ ~rows[n].duplicate}
<1>1. DOMAIN rows = 1..Len(rows) /\ Len(rows) \in Nat
  OBVIOUS
<1>2. IsFiniteSet(new)
  <2>1. new \in SUBSET (1..Len(rows)) /\ IsFiniteSet(1..Len(rows))
    BY <1>1, FS_Interval
  <2>. QED BY <2>1, FS_Subset
<1>3. Fresh(rows, f) = Cardinality(new)
  BY DEF Fresh
<1>4. Fresh(rows, f) \in Nat
  BY <1>2, <1>3, FS_CardinalityType
<1>5. Fresh(rows, f) # 0 => new # {}
  BY <1>3, FS_EmptySet
<1>6. ASSUME Clean(rows), NEW n \in new, NEW m \in new PROVE n = m
  <2>1. n \in Int /\ m \in Int /\ n >= 1 /\ m >= 1
    BY <1>1
  <2>2. CASE n < m
    BY <1>6, <2>1, <2>2 DEF Clean
  <2>3. CASE m < n
    BY <1>6, <2>1, <2>3 DEF Clean
  <2>. QED BY <2>1, <2>2, <2>3
<1>7. ASSUME Clean(rows) PROVE Fresh(rows, f) <= 1
  <2>1. CASE new = {}
    <3>1. Cardinality(new) = 0
      BY <2>1, FS_EmptySet
    <3>. QED BY <1>3, <3>1
  <2>2. CASE new # {}
    <3>1. PICK n \in new : TRUE
      BY <2>2
    <3>2. new = {n}
      BY <1>6, <1>7, <3>1
    <3>3. Cardinality({n}) = 1
      BY FS_Singleton
    <3>. HIDE DEF new
    <3>. QED BY <1>3, <3>2, <3>3
  <2>. QED BY <2>1, <2>2
<1>8. ASSUME Clean(rows), new # {} PROVE ~Stored(f)
  BY <1>8 DEF Clean
<1>. QED BY <1>4, <1>5, <1>7, <1>8

\* Nothing more is stored: clean rows stay clean.
LEMMA CleanStays ==
  ASSUME \A f \in Prints : Stored(f)' => Stored(f), NEW rows \in Seq(StagedRow)
  PROVE  Clean(rows) => Clean(rows)'
<1>1. \A n \in DOMAIN rows : rows[n] \in StagedRow
  OBVIOUS
<1>2. \A n \in DOMAIN rows : rows[n].print \in Prints
  BY <1>1 DEF StagedRow
<1>. QED BY <1>2 DEF Clean

----------------------------------------------------------------------------
(* Steps that only change what a request holds. *)

LEMMA HandTaken ==
  ASSUME ImportsInv, NEW u \in Uploads, NEW h \in Hand, Fit(h),
         upload' = [upload EXCEPT ![u] = h],
         UNCHANGED <<imports, open, booked, fed, commits, forced, dated>>
  PROVE  ImportsInv'
<1>1. /\ upload' \in [Uploads -> Hand] /\ upload'[u] = h
      /\ \A v \in Uploads \ {u} : upload'[v] = upload[v]
  BY DEF ImportsInv, ImportsTypeOK, Hand
<1>2. ImportsTypeOK'
  BY <1>1 DEF ImportsInv, ImportsTypeOK, Hand
<1>3. \A f : Stored(f)' = Stored(f)
  BY DEF Stored
<1>4. \A rows : Clean(rows)' = Clean(rows)
  BY <1>3 DEF Clean
<1>5. \A k : Fit(k) => Fit(k)'
  BY <1>4 DEF Fit, NothingBooked
<1>6. ASSUME NEW v \in Uploads PROVE Fit(upload[v])'
  <2>1. PICK k : k = upload'[v]
    OBVIOUS
  <2>2. Fit(k)'
    BY <1>1, <1>5, <2>1 DEF ImportsInv
  <2>. QED BY <2>1, <2>2 DEF Fit
<1>7. CommittedOnce' /\ NothingTwice'
  BY DEF ImportsInv, CommittedOnce, NothingTwice
<1>8. Staged'
  BY <1>4 DEF ImportsInv, Staged
<1>. QED BY <1>2, <1>6, <1>7, <1>8 DEF ImportsInv

LEMMA IdleFits == NoUpload \in Hand /\ Fit(NoUpload)
<1>1. << >> \in Seq(StagedRow)
  OBVIOUS
<1>. QED BY <1>1 DEF NoUpload, Hand, Fit

LEMMA ReadsKeep ==
  ASSUME ImportsInv, NEW u \in Uploads,
         \/ \E file \in StatementFiles : ParseFile(u, file)
         \/ \E file \in StatementFiles, i \in Imports : RemapFile(u, i, file)
         \/ \E i \in Imports, force \in BOOLEAN : ReadPayload(u, i, force)
         \/ SelectStaged(u)
         \/ \E i \in Imports : CountBooked(u, i)
         \/ AbandonUpload(u)
  PROVE  ImportsInv'
<1>1. upload \in [Uploads -> Hand] /\ Fit(upload[u])
  BY DEF ImportsInv, ImportsTypeOK, Hand
<1>2. << >> \in Seq(StagedRow)
  OBVIOUS
<1>3. ASSUME NEW file \in StatementFiles, ParseFile(u, file) PROVE ImportsInv'
  <2>. DEFINE h == [NoUpload EXCEPT !.at = "create", !.rows = PrepareRows(file)]
  <2>1. h \in Hand /\ Fit(h)
    BY RowsPrepared DEF NoUpload, Hand, Fit
  <2>2. /\ upload' = [upload EXCEPT ![u] = h]
        /\ UNCHANGED <<imports, open, booked, fed, commits, forced, dated>>
    BY <1>3 DEF ParseFile
  <2>. HIDE DEF h
  <2>. QED BY <2>1, <2>2, HandTaken
<1>4. ASSUME NEW file \in StatementFiles, NEW i \in Imports, RemapFile(u, i, file)
      PROVE  ImportsInv'
  <2>. DEFINE h == [NoUpload EXCEPT !.at = "remap", !.import = i, !.rows = PrepareRows(file)]
  <2>1. h \in Hand /\ Fit(h)
    BY <1>4, RowsPrepared DEF NoUpload, Hand, Fit, RemapFile
  <2>2. /\ upload' = [upload EXCEPT ![u] = h]
        /\ UNCHANGED <<imports, open, booked, fed, commits, forced, dated>>
    BY <1>4 DEF RemapFile
  <2>. HIDE DEF h
  <2>. QED BY <2>1, <2>2, HandTaken
<1>5. ASSUME NEW i \in Imports, NEW force \in BOOLEAN, ReadPayload(u, i, force)
      PROVE  ImportsInv'
  <2>. DEFINE late == i \in dated
              rows == [n \in DOMAIN imports[i].rows |->
                         [imports[i].rows[n] EXCEPT !.duplicate = @ /\ ~force]]
              h == [NoUpload EXCEPT !.at = "select", !.import = i, !.force = force,
                                    !.dated = late, !.rows = rows]
  <2>1. /\ upload' = [upload EXCEPT ![u] = h]
        /\ UNCHANGED <<imports, open, booked, fed, commits, forced, dated>>
    BY <1>5 DEF ReadPayload
  <2>2. imports[i].rows \in Seq(StagedRow) /\ imports[i].status \in {"STAGED", "IMPORTED"}
    BY <1>5 DEF ReadPayload, ImportsInv, ImportsTypeOK
  <2>3. rows \in Seq(StagedRow)
    <3>. DEFINE staged == imports[i].rows
    <3>1. staged \in [1..Len(staged) -> StagedRow] /\ Len(staged) \in Nat
      BY <2>2
    <3>2. rows \in [1..Len(staged) -> StagedRow]
      <4>. HIDE DEF staged
      <4>1. ASSUME NEW n \in 1..Len(staged)
            PROVE  [staged[n] EXCEPT !.duplicate = @ /\ ~force] \in StagedRow
        BY <3>1 DEF StagedRow
      <4>2. rows = [n \in 1..Len(staged) |-> [staged[n] EXCEPT !.duplicate = @ /\ ~force]]
        BY <3>1 DEF staged
      <4>. QED BY <4>1, <4>2
    <3>. HIDE DEF staged, rows
    <3>. QED BY <3>1, <3>2
  <2>4. ~force => rows = imports[i].rows
    <3>. DEFINE staged == imports[i].rows
    <3>1. staged \in [1..Len(staged) -> StagedRow]
      BY <2>2
    <3>. HIDE DEF staged
    <3>2. ~force => \A n \in DOMAIN staged : [staged[n] EXCEPT !.duplicate = @ /\ ~force] = staged[n]
      BY <3>1 DEF StagedRow
    <3>3. ~force => [n \in DOMAIN staged |-> [staged[n] EXCEPT !.duplicate = @ /\ ~force]] = staged
      BY <3>1, <3>2
    <3>. QED BY <3>3 DEF staged
  <2>5. ~late /\ imports[i].status = "STAGED" => Clean(imports[i].rows)
    BY DEF ImportsInv, Staged
  <2>6. late \in BOOLEAN
    OBVIOUS
  <2>. HIDE DEF late, rows
  <2>7. h \in Hand
    BY <2>3, <2>6 DEF NoUpload, Hand
  <2>8. /\ h.at = "select" /\ h.import = i /\ h.force = force /\ h.dated = late /\ h.rows = rows
    BY DEF NoUpload
  <2>. HIDE DEF h
  <2>9. Fit(h)
    BY <2>2, <2>4, <2>5, <2>8 DEF Fit
  <2>. QED BY <2>1, <2>7, <2>9, HandTaken
<1>6. CASE SelectStaged(u)
  <2>1. PICK h : /\ h = IF imports[upload[u].import].status = "STAGED"
                        THEN [upload[u] EXCEPT !.at = "commit"] ELSE NoUpload
                 /\ upload' = [upload EXCEPT ![u] = h]
                 /\ UNCHANGED <<imports, open, booked, fed, commits, forced, dated>>
    BY <1>1, <1>6 DEF SelectStaged
  <2>2. h \in Hand
    BY <1>1, <2>1, IdleFits DEF Hand
  <2>3. Fit(h)
    <3>1. CASE h = NoUpload
      BY <3>1, IdleFits
    <3>2. CASE h = [upload[u] EXCEPT !.at = "commit"]
      BY <1>1, <1>6, <3>2 DEF Fit, SelectStaged, Hand
    <3>. QED BY <2>1, <3>1, <3>2
  <2>. QED BY <2>1, <2>2, <2>3, HandTaken
<1>7. ASSUME NEW i \in Imports, CountBooked(u, i) PROVE ImportsInv'
  <2>. DEFINE h == [NoUpload EXCEPT !.at = "delete", !.import = i]
  <2>1. h \in Hand /\ Fit(h)
    BY <1>2, <1>7 DEF NoUpload, Hand, Fit, CountBooked
  <2>2. /\ upload' = [upload EXCEPT ![u] = h]
        /\ UNCHANGED <<imports, open, booked, fed, commits, forced, dated>>
    BY <1>7 DEF CountBooked
  <2>. HIDE DEF h
  <2>. QED BY <2>1, <2>2, HandTaken
<1>8. CASE AbandonUpload(u)
  BY <1>8, IdleFits, HandTaken DEF AbandonUpload
<1>. QED BY <1>3, <1>4, <1>5, <1>6, <1>7, <1>8

----------------------------------------------------------------------------
(* Steps that change the tables. *)

\* Where nothing more is stored and no import is staged or forgotten, what a request
\* holds stays fit.
LEMMA FitStays ==
  ASSUME \A f \in Prints : Stored(f)' => Stored(f), NEW h \in Hand, Fit(h),
         h.import \in Imports /\ h.at \in {"remap", "select", "commit", "delete"} =>
           /\ imports[h.import].status # "none" => imports'[h.import].status # "none"
           /\ imports'[h.import].status = "STAGED" => imports[h.import].status = "STAGED"
           /\ h.at = "delete" /\ ~h.raced => (NothingBooked(h.import) => NothingBooked(h.import)')
  PROVE  Fit(h)'
<1>1. Clean(h.rows) => Clean(h.rows)'
  BY CleanStays DEF Hand
<1>. QED BY <1>1 DEF Fit

LEMMA CreateKeeps ==
  ASSUME ImportsInv, NEW u \in Uploads, NEW i \in Imports, CreateImport(u, i)
  PROVE  ImportsInv'
<1>1. PICK h \in Hand : h = upload[u] /\ Fit(h)
  BY DEF ImportsInv, ImportsTypeOK, Hand
<1>2. /\ imports[i].status = "none" /\ h.at = "create"
      /\ imports' = [imports EXCEPT ![i] = [status |-> "STAGED", rows |-> h.rows]]
      /\ dated' = IF h.dated THEN dated \cup {i} ELSE dated
      /\ upload' = [upload EXCEPT ![u] = NoUpload]
      /\ UNCHANGED <<open, booked, fed, commits, forced>>
  BY <1>1 DEF CreateImport
<1>3. ImportsTypeOK'
  BY <1>1, <1>2, IdleFits DEF ImportsInv, ImportsTypeOK, Hand
<1>4. /\ imports'[i].status = "STAGED" /\ imports'[i].rows = h.rows
      /\ \A j \in Imports \ {i} : imports'[j] = imports[j]
  BY <1>2 DEF ImportsInv, ImportsTypeOK
<1>5. \A f : Stored(f)' = Stored(f)
  BY <1>2 DEF Stored
<1>6. \A rows : Clean(rows)' = Clean(rows)
  BY <1>5 DEF Clean
<1>7. CommittedOnce'
  BY <1>2, <1>4 DEF ImportsInv, CommittedOnce
<1>8. NothingTwice'
  <2>1. dated \subseteq dated'
    BY <1>2
  <2>. QED BY <1>2, <2>1 DEF ImportsInv, NothingTwice
<1>9. Staged'
  <2>1. i \notin dated' => Clean(h.rows)
    BY <1>1, <1>2 DEF Fit
  <2>. QED BY <1>2, <1>4, <1>6, <2>1 DEF ImportsInv, Staged
<1>10. ASSUME NEW v \in Uploads PROVE Fit(upload[v])'
  <2>1. PICK k \in Hand : k = upload'[v] /\ Fit(k) /\ (k = NoUpload \/ k = upload[v])
    BY <1>2, IdleFits DEF ImportsInv, ImportsTypeOK, Hand
  <2>2. Fit(k)'
    <3>1. k.at \in {"remap", "select", "commit", "delete"} => k.import # i
      BY <1>2, <2>1 DEF Fit
    <3>. QED BY <1>2, <1>4, <1>5, <2>1, <3>1, FitStays DEF NothingBooked
  <2>. QED BY <2>1, <2>2 DEF Fit
<1>. QED BY <1>3, <1>7, <1>8, <1>9, <1>10 DEF ImportsInv

LEMMA UpdateKeeps ==
  ASSUME ImportsInv, NEW u \in Uploads, UpdateImport(u)
  PROVE  ImportsInv'
<1>1. PICK h \in Hand : h = upload[u] /\ Fit(h)
  BY DEF ImportsInv, ImportsTypeOK, Hand
<1>2. PICK i \in Imports : i = h.import
  BY <1>1 DEF UpdateImport, Fit
<1>3. /\ h.at = "remap"
      /\ IF imports[i].status = "STAGED"
         THEN /\ imports' = [imports EXCEPT ![i].rows = h.rows]
              /\ dated' = IF h.dated THEN dated \cup {i} ELSE dated \ {i}
         ELSE UNCHANGED <<imports, dated>>
      /\ upload' = [upload EXCEPT ![u] = NoUpload]
      /\ UNCHANGED <<open, booked, fed, commits, forced>>
  BY <1>1, <1>2 DEF UpdateImport
<1>4. ImportsTypeOK'
  <2>1. imports' \in [Imports -> [status : {"none", "STAGED", "IMPORTED", "gone"}, rows : Seq(StagedRow)]]
    <3>1. h.rows \in Seq(StagedRow) /\ imports[i].status \in {"none", "STAGED", "IMPORTED", "gone"}
      BY DEF ImportsInv, ImportsTypeOK, Hand
    <3>2. CASE imports[i].status = "STAGED"
      <4>1. imports' = [imports EXCEPT ![i].rows = h.rows]
        BY <1>3, <3>2
      <4>. QED BY <3>1, <4>1 DEF ImportsInv, ImportsTypeOK
    <3>3. CASE imports[i].status # "STAGED"
      BY <1>3, <3>3 DEF ImportsInv, ImportsTypeOK
    <3>. QED BY <3>2, <3>3
  <2>2. dated' \subseteq Imports
    BY <1>3 DEF ImportsInv, ImportsTypeOK
  <2>3. upload' \in [Uploads -> Hand]
    BY <1>3, IdleFits DEF ImportsInv, ImportsTypeOK, Hand
  <2>. QED BY <1>3, <2>1, <2>2, <2>3 DEF ImportsInv, ImportsTypeOK, Hand
<1>5. /\ \A j \in Imports : imports'[j].status = imports[j].status
      /\ \A j \in Imports \ {i} : imports'[j] = imports[j]
      /\ imports[i].status = "STAGED" => imports'[i].rows = h.rows
  <2>1. CASE imports[i].status = "STAGED"
    <3>1. imports' = [imports EXCEPT ![i].rows = h.rows]
      BY <1>3, <2>1
    <3>. QED BY <3>1 DEF ImportsInv, ImportsTypeOK
  <2>2. CASE imports[i].status # "STAGED"
    BY <1>3, <2>2
  <2>. QED BY <2>1, <2>2
<1>6. \A f : Stored(f)' = Stored(f)
  BY <1>3 DEF Stored
<1>7. \A rows : Clean(rows)' = Clean(rows)
  BY <1>6 DEF Clean
<1>8. CommittedOnce'
  BY <1>3, <1>5 DEF ImportsInv, CommittedOnce
<1>9. NothingTwice'
  <2>1. \A j \in dated \ dated', f \in Prints : ~(open[j][f] + booked[j][f] > 0)
    BY <1>3 DEF ImportsInv, CommittedOnce
  <2>2. \A j \in Imports, f \in Prints : open[j][f] + booked[j][f] \in Nat
    BY DEF ImportsInv, ImportsTypeOK
  <2>. QED BY <1>3, <2>1, <2>2 DEF ImportsInv, NothingTwice
<1>10. Staged'
  <2>1. ~h.dated => Clean(h.rows)
    BY <1>1, <1>3 DEF Fit
  <2>2. CASE imports[i].status = "STAGED"
    BY <1>3, <1>5, <1>7, <2>1, <2>2 DEF ImportsInv, Staged
  <2>3. CASE imports[i].status # "STAGED"
    BY <1>3, <1>7, <2>3 DEF ImportsInv, Staged
  <2>. QED BY <2>2, <2>3
<1>11. ASSUME NEW v \in Uploads PROVE Fit(upload[v])'
  <2>1. PICK k \in Hand : k = upload'[v] /\ Fit(k)
    BY <1>3, IdleFits DEF ImportsInv, ImportsTypeOK, Hand
  <2>2. Fit(k)'
    BY <1>3, <1>5, <1>6, <2>1, FitStays DEF NothingBooked
  <2>. QED BY <2>1, <2>2 DEF Fit
<1>. QED BY <1>4, <1>8, <1>9, <1>10, <1>11 DEF ImportsInv

LEMMA CommitKeeps ==
  ASSUME ImportsInv, NEW u \in Uploads, CommitImport(u)
  PROVE  ImportsInv'
<1>1. PICK h \in Hand : h = upload[u] /\ Fit(h)
  BY DEF ImportsInv, ImportsTypeOK, Hand
<1>2. PICK i \in Imports : i = h.import
  BY <1>1 DEF CommitImport, Fit
<1>3. h.at = "commit"
  BY <1>1 DEF CommitImport
<1>4. CASE imports[i].status # "STAGED"
  <2>1. /\ upload' = [upload EXCEPT ![u] = NoUpload]
        /\ UNCHANGED <<imports, open, booked, fed, commits, forced, dated>>
    BY <1>1, <1>2, <1>4 DEF CommitImport, StillStaged
  <2>. QED BY <2>1, IdleFits, HandTaken
<1>5. CASE imports[i].status = "STAGED"
  <2>1. /\ imports' = [imports EXCEPT ![i].status = "IMPORTED"]
        /\ open' = [open EXCEPT ![i] = [f \in Prints |-> @[f] + Fresh(h.rows, f)]]
        /\ commits' = [commits EXCEPT ![i] = @ + 1]
        /\ forced' = IF h.force THEN forced \cup {i} ELSE forced
        /\ dated' = {j \in Imports : imports[j].status = "STAGED" /\ j # i}
                    \cup {j \in dated : imports[j].status = "IMPORTED"}
                    \cup (IF h.dated THEN {i} ELSE {})
        /\ UNCHANGED <<booked, fed>>
    BY <1>1, <1>2, <1>5 DEF CommitImport, StillStaged
  <2>2. upload' = [v \in Uploads |-> IF v = u THEN NoUpload
                     ELSE [upload[v] EXCEPT !.dated = @ \/ upload[v].at # "idle"]]
    BY <1>1, <1>2, <1>5 DEF CommitImport, StillStaged, Outdate
  <2>3. /\ imports'[i].status = "IMPORTED" /\ commits'[i] = commits[i] + 1
        /\ \A j \in Imports \ {i} : imports'[j] = imports[j] /\ commits'[j] = commits[j]
    BY <2>1 DEF ImportsInv, ImportsTypeOK
  <2>4. \A f \in Prints : /\ Fresh(h.rows, f) \in Nat
                          /\ open[i][f] = 0 /\ booked[i][f] = 0
    <3>1. h.rows \in Seq(StagedRow)
      BY DEF Hand
    <3>2. \A f \in Prints : open[i][f] \in Nat /\ booked[i][f] \in Nat
      BY DEF ImportsInv, ImportsTypeOK
    <3>3. \A f \in Prints : ~(open[i][f] + booked[i][f] > 0)
      BY <1>5 DEF ImportsInv, CommittedOnce
    <3>. QED BY <3>1, <3>2, <3>3, FreshIs
  <2>5. /\ \A f \in Prints : open'[i][f] = Fresh(h.rows, f)
        /\ \A j \in Imports \ {i} : open'[j] = open[j]
    BY <2>1, <2>4 DEF ImportsInv, ImportsTypeOK
  <2>6. /\ upload' \in [Uploads -> Hand]
        /\ \A v \in Uploads : Fit(upload[v])'
    <3>1. ASSUME NEW v \in Uploads PROVE upload'[v] \in Hand /\ Fit(upload[v])'
      <4>1. PICK k \in Hand : k = upload[v] /\ Fit(k)
        BY DEF ImportsInv, ImportsTypeOK, Hand
      <4>2. CASE v = u
        <5>1. upload'[v] = NoUpload
          BY <2>2, <4>2
        <5>. QED BY <5>1, IdleFits DEF Fit, NoUpload
      <4>3. CASE v # u /\ k.at = "idle"
        <5>1. upload'[v] = [k EXCEPT !.dated = @ \/ FALSE]
          BY <2>2, <4>1, <4>3
        <5>2. upload'[v] = k
          BY <5>1 DEF Hand
        <5>. QED BY <4>3, <5>2 DEF Fit
      <4>4. CASE v # u /\ k.at # "idle"
        <5>1. upload'[v] = [k EXCEPT !.dated = @ \/ TRUE]
          BY <2>2, <4>1, <4>4
        <5>2. /\ upload'[v] \in Hand /\ upload'[v].dated /\ upload'[v].at = k.at
              /\ upload'[v].import = k.import /\ upload'[v].raced = k.raced
          BY <5>1 DEF Hand
        <5>3. k.at \in {"remap", "select", "commit", "delete"} =>
                /\ k.import \in Imports /\ imports'[k.import].status # "none"
          BY <2>3, <4>1 DEF Fit
        <5>4. k.at = "delete" /\ ~k.raced => NothingBooked(k.import)'
          BY <2>1, <4>1 DEF Fit, NothingBooked
        <5>. QED BY <5>2, <5>3, <5>4 DEF Fit, NothingBooked
      <4>. QED BY <4>2, <4>3, <4>4
    <3>. QED BY <2>2, <3>1
  <2>7. ImportsTypeOK'
    <3>1. imports' \in [Imports -> [status : {"none", "STAGED", "IMPORTED", "gone"}, rows : Seq(StagedRow)]]
      BY <2>1 DEF ImportsInv, ImportsTypeOK
    <3>2. open' \in [Imports -> [Prints -> Nat]]
      <4>. DEFINE into == [f \in Prints |-> open[i][f] + Fresh(h.rows, f)]
      <4>1. into \in [Prints -> Nat]
        BY <2>4
      <4>2. open' = [open EXCEPT ![i] = into]
        BY <2>1 DEF ImportsInv, ImportsTypeOK
      <4>. HIDE DEF into
      <4>. QED BY <4>1, <4>2 DEF ImportsInv, ImportsTypeOK
    <3>3. commits' \in [Imports -> Nat] /\ forced' \subseteq Imports
      BY <2>1 DEF ImportsInv, ImportsTypeOK
    <3>4. dated' \subseteq Imports
      BY <2>1 DEF ImportsInv, ImportsTypeOK
    <3>. QED BY <2>1, <2>6, <3>1, <3>2, <3>3, <3>4 DEF ImportsInv, ImportsTypeOK, Hand
  <2>8. CommittedOnce'
    <3>1. commits'[i] = 1
      BY <1>5, <2>3 DEF ImportsInv, Staged
    <3>. QED BY <2>1, <2>3, <2>5, <3>1 DEF ImportsInv, CommittedOnce
  <2>9. Staged'
    <3>1. \A j \in Imports : imports'[j].status = "STAGED" => j \in dated'
      BY <2>1, <2>3
    <3>2. \A j \in Imports : imports'[j].status \in {"none", "STAGED"} => commits'[j] = 0
      BY <2>3 DEF ImportsInv, Staged
    <3>. QED BY <3>1, <3>2 DEF Staged
  <2>10. NothingTwice'
    <3>. DEFINE Plain == Imports \ (forced' \cup dated')
    <3>1. ASSUME NEW j \in Plain, j # i
          PROVE  \/ j \in Imports \ (forced \cup dated)
                 \/ \A f \in Prints : ~(open[j][f] + booked[j][f] > 0)
      <4>1. imports[j].status = "IMPORTED" => j \notin dated
        BY <2>1, <3>1
      <4>. QED BY <2>1, <3>1, <4>1 DEF ImportsInv, CommittedOnce
    <3>2. i \in Plain => Clean(h.rows)
      BY <1>1, <1>2, <1>3, <1>5, <2>1 DEF Fit, Hand
    <3>3. \A f \in Prints : i \in Plain =>
            /\ open'[i][f] <= 1
            /\ open'[i][f] > 0 => ~Stored(f)
      <4>1. h.rows \in Seq(StagedRow)
        BY DEF Hand
      <4>. QED BY <2>5, <3>2, <4>1, FreshIs
    <3>4. \A f \in Prints : ~Stored(f) => \A j \in Imports : ~(open[j][f] + booked[j][f] > 0)
      BY DEF Stored
    <3>5. \A j \in Imports, f \in Prints : open[j][f] \in Nat /\ booked[j][f] \in Nat
      BY DEF ImportsInv, ImportsTypeOK
    <3>6. ASSUME NEW j \in Plain, NEW f \in Prints
          PROVE  /\ open'[j][f] + booked'[j][f] <= 1
                 /\ \A k \in Plain \ {j} :
                      open'[j][f] + booked'[j][f] > 0 => open'[k][f] + booked'[k][f] = 0
      <4>1. CASE j = i
        <5>1. open'[j][f] <= 1 /\ open'[j][f] \in Nat /\ booked'[j][f] = 0
          BY <2>1, <2>4, <2>5, <3>3, <3>6, <4>1
        <5>2. ASSUME NEW k \in Plain \ {j}, open'[j][f] > 0
              PROVE  open'[k][f] + booked'[k][f] = 0
          <6>1. k \in Imports \ {i}
            BY <4>1
          <6>2. open'[k][f] = open[k][f] /\ booked'[k][f] = booked[k][f]
            BY <2>1, <2>5, <6>1
          <6>3. ~Stored(f)
            BY <3>3, <3>6, <4>1, <5>2
          <6>4. ~(open[k][f] + booked[k][f] > 0)
            BY <3>4, <6>1, <6>3
          <6>. QED BY <3>5, <6>1, <6>2, <6>4
        <5>. QED BY <5>1, <5>2
      <4>2. CASE j # i
        <5>1. open'[j][f] = open[j][f] /\ booked'[j][f] = booked[j][f]
          BY <2>1, <2>5, <4>2
        <5>2. open[j][f] + booked[j][f] <= 1
          BY <3>1, <3>5, <4>2 DEF ImportsInv, NothingTwice
        <5>3. ASSUME NEW k \in Plain \ {j}, open[j][f] + booked[j][f] > 0
              PROVE  open'[k][f] + booked'[k][f] = 0
          <6>1. CASE k = i
            BY <2>1, <2>4, <2>5, <3>3, <3>4, <5>3, <6>1
          <6>2. CASE k # i
            <7>1. open'[k][f] = open[k][f] /\ booked'[k][f] = booked[k][f]
              BY <2>1, <2>5, <6>2
            <7>2. j \in Imports \ (forced \cup dated)
              BY <3>1, <4>2, <5>3
            <7>3. CASE \A g \in Prints : ~(open[k][g] + booked[k][g] > 0)
              BY <3>5, <7>1, <7>3
            <7>4. CASE k \in Imports \ (forced \cup dated)
              BY <5>3, <7>1, <7>2, <7>4 DEF ImportsInv, NothingTwice
            <7>. QED BY <3>1, <6>2, <7>3, <7>4
          <6>. QED BY <6>1, <6>2
        <5>. QED BY <5>1, <5>2, <5>3
      <4>. QED BY <4>1, <4>2
    <3>. HIDE DEF Plain
    <3>7. Plain = Imports \ (forced' \cup dated')
      BY DEF Plain
    <3>. QED BY <3>6, <3>7 DEF NothingTwice
  <2>. QED BY <2>6, <2>7, <2>8, <2>9, <2>10 DEF ImportsInv
<1>. QED BY <1>4, <1>5

LEMMA FeedKeeps ==
  ASSUME ImportsInv, NEW f \in Prints, FeedLine(f)
  PROVE  ImportsInv'
<1>1. /\ fed' = fed \cup {f}
      /\ dated' = dated \cup {j \in Imports : imports[j].status = "STAGED"}
      /\ UNCHANGED <<imports, open, booked, commits, forced>>
  BY DEF FeedLine
<1>2. /\ upload' \in [Uploads -> Hand]
      /\ \A v \in Uploads : Fit(upload[v])'
  <2>1. upload' = [v \in Uploads |-> [upload[v] EXCEPT !.dated = @ \/ upload[v].at # "idle"]]
    BY DEF FeedLine
  <2>2. ASSUME NEW v \in Uploads PROVE upload'[v] \in Hand /\ Fit(upload[v])'
    <3>1. PICK k \in Hand : k = upload[v] /\ Fit(k)
      BY DEF ImportsInv, ImportsTypeOK, Hand
    <3>2. CASE k.at = "idle"
      <4>1. upload'[v] = [k EXCEPT !.dated = @ \/ FALSE]
        BY <2>1, <3>1, <3>2
      <4>2. upload'[v] = k
        BY <4>1 DEF Hand
      <4>. QED BY <3>2, <4>2 DEF Fit
    <3>3. CASE k.at # "idle"
      <4>1. upload'[v] = [k EXCEPT !.dated = @ \/ TRUE]
        BY <2>1, <3>1, <3>3
      <4>2. /\ upload'[v] \in Hand /\ upload'[v].dated /\ upload'[v].at = k.at
            /\ upload'[v].import = k.import /\ upload'[v].raced = k.raced
        BY <4>1 DEF Hand
      <4>. QED BY <1>1, <3>1, <4>2 DEF Fit, NothingBooked
    <3>. QED BY <3>2, <3>3
  <2>. QED BY <2>1, <2>2
<1>3. ImportsTypeOK'
  BY <1>1, <1>2 DEF ImportsInv, ImportsTypeOK, Hand
<1>4. CommittedOnce' /\ NothingTwice'
  BY <1>1 DEF ImportsInv, CommittedOnce, NothingTwice
<1>5. Staged'
  BY <1>1 DEF ImportsInv, Staged
<1>. QED BY <1>2, <1>3, <1>4, <1>5 DEF ImportsInv

LEMMA BookKeeps ==
  ASSUME ImportsInv, NEW i \in Imports, NEW f \in Prints, BookLine(i, f)
  PROVE  ImportsInv'
<1>1. /\ open[i][f] > 0
      /\ open' = [open EXCEPT ![i][f] = @ - 1]
      /\ booked' = [booked EXCEPT ![i][f] = @ + 1]
      /\ UNCHANGED <<imports, fed, commits, forced, dated>>
  BY DEF BookLine
<1>2. /\ open' \in [Imports -> [Prints -> Nat]] /\ booked' \in [Imports -> [Prints -> Nat]]
      /\ \A j \in Imports, g \in Prints : open'[j][g] + booked'[j][g] = open[j][g] + booked[j][g]
      /\ \A j \in Imports \ {i} : booked'[j] = booked[j]
  BY <1>1 DEF ImportsInv, ImportsTypeOK
<1>3. \A g \in Prints : Stored(g)' => Stored(g)
  BY <1>1, <1>2 DEF Stored
<1>4. /\ upload' \in [Uploads -> Hand]
      /\ \A v \in Uploads : Fit(upload[v])'
  <2>1. upload' = [v \in Uploads |->
           IF upload[v].at = "delete" /\ upload[v].import = i
           THEN [upload[v] EXCEPT !.raced = TRUE] ELSE upload[v]]
    BY DEF BookLine
  <2>2. ASSUME NEW v \in Uploads PROVE upload'[v] \in Hand /\ Fit(upload[v])'
    <3>1. PICK k \in Hand : k = upload[v] /\ Fit(k)
      BY DEF ImportsInv, ImportsTypeOK, Hand
    <3>2. CASE k.at = "delete" /\ k.import = i
      <4>1. upload'[v] = [k EXCEPT !.raced = TRUE]
        BY <2>1, <3>1, <3>2
      <4>2. /\ upload'[v] \in Hand /\ upload'[v].at = k.at /\ upload'[v].import = k.import
            /\ upload'[v].raced
        BY <4>1 DEF Hand
      <4>. QED BY <1>1, <3>1, <3>2, <4>2 DEF Fit
    <3>3. CASE ~(k.at = "delete" /\ k.import = i)
      <4>1. upload'[v] = k
        BY <2>1, <3>1, <3>3
      <4>2. Fit(k)'
        BY <1>1, <1>2, <1>3, <3>1, <3>3, FitStays DEF NothingBooked
      <4>. QED BY <4>1, <4>2 DEF Fit
    <3>. QED BY <3>2, <3>3
  <2>. QED BY <2>1, <2>2
<1>5. ImportsTypeOK'
  BY <1>1, <1>2, <1>4 DEF ImportsInv, ImportsTypeOK, Hand
<1>6. CommittedOnce' /\ NothingTwice'
  BY <1>1, <1>2 DEF ImportsInv, CommittedOnce, NothingTwice
<1>7. Staged'
  BY <1>1, <1>3, CleanStays DEF ImportsInv, ImportsTypeOK, Staged
<1>. QED BY <1>4, <1>5, <1>6, <1>7 DEF ImportsInv

LEMMA DiscardKeeps ==
  ASSUME ImportsInv, NEW i \in Imports, NEW f \in Prints, DiscardLine(i, f)
  PROVE  ImportsInv'
<1>1. /\ open[i][f] > 0
      /\ open' = [open EXCEPT ![i][f] = @ - 1]
      /\ UNCHANGED <<imports, booked, fed, upload, commits, forced, dated>>
  BY DEF DiscardLine
<1>2. open' \in [Imports -> [Prints -> Nat]]
  BY <1>1 DEF ImportsInv, ImportsTypeOK
<1>3. \A j \in Imports, g \in Prints : /\ open'[j][g] <= open[j][g]
                                       /\ open'[j][g] \in Nat /\ open[j][g] \in Nat /\ booked[j][g] \in Nat
  BY <1>1 DEF ImportsInv, ImportsTypeOK
<1>4. \A g \in Prints : Stored(g)' => Stored(g)
  BY <1>1, <1>3 DEF Stored
<1>5. ASSUME NEW v \in Uploads PROVE Fit(upload[v])'
  <2>1. PICK k \in Hand : k = upload'[v] /\ Fit(k)
    BY <1>1 DEF ImportsInv, ImportsTypeOK, Hand
  <2>2. Fit(k)'
    BY <1>1, <1>4, <2>1, FitStays DEF NothingBooked
  <2>. QED BY <2>1, <2>2 DEF Fit
<1>6. ImportsTypeOK'
  BY <1>1, <1>2 DEF ImportsInv, ImportsTypeOK
<1>7. CommittedOnce'
  BY <1>1, <1>3 DEF ImportsInv, CommittedOnce
<1>8. NothingTwice'
  BY <1>1, <1>3 DEF ImportsInv, NothingTwice
<1>9. Staged'
  BY <1>1, <1>4, CleanStays DEF ImportsInv, ImportsTypeOK, Staged
<1>. QED BY <1>5, <1>6, <1>7, <1>8, <1>9 DEF ImportsInv

LEMMA DeleteKeeps ==
  ASSUME ImportsInv, NEW u \in Uploads, DeleteImport(u)
  PROVE  ImportsInv'
<1>1. PICK i \in Imports : i = upload[u].import
  BY DEF DeleteImport, ImportsInv, Fit
<1>2. /\ imports' = [imports EXCEPT ![i] = [status |-> "gone", rows |-> << >>]]
      /\ open' = [open EXCEPT ![i] = NoLines]
      /\ booked' = [booked EXCEPT ![i] = NoLines]
      /\ upload' = [upload EXCEPT ![u] = NoUpload]
      /\ UNCHANGED <<fed, commits, forced, dated>>
  BY <1>1 DEF DeleteImport
<1>3. /\ imports'[i].status = "gone"
      /\ \A f \in Prints : open'[i][f] = 0 /\ booked'[i][f] = 0
      /\ \A j \in Imports \ {i} : imports'[j] = imports[j] /\ open'[j] = open[j] /\ booked'[j] = booked[j]
  BY <1>2 DEF ImportsInv, ImportsTypeOK, NoLines
<1>4. ImportsTypeOK'
  <2>1. << >> \in Seq(StagedRow) /\ NoLines \in [Prints -> Nat]
    BY DEF NoLines
  <2>2. imports' \in [Imports -> [status : {"none", "STAGED", "IMPORTED", "gone"}, rows : Seq(StagedRow)]]
    BY <1>2, <2>1 DEF ImportsInv, ImportsTypeOK
  <2>3. upload' \in [Uploads -> Hand]
    BY <1>2, IdleFits DEF ImportsInv, ImportsTypeOK, Hand
  <2>. QED BY <1>2, <2>1, <2>2, <2>3 DEF ImportsInv, ImportsTypeOK, Hand
<1>5. \A j \in Imports, f \in Prints :
        \/ open'[j][f] = 0 /\ booked'[j][f] = 0
        \/ j # i /\ open'[j][f] = open[j][f] /\ booked'[j][f] = booked[j][f]
  BY <1>3
<1>6. \A f \in Prints : Stored(f)' => Stored(f)
  BY <1>2, <1>5 DEF Stored
<1>7. ASSUME NEW v \in Uploads PROVE Fit(upload[v])'
  <2>1. PICK k \in Hand : k = upload'[v] /\ Fit(k)
    BY <1>2, IdleFits DEF ImportsInv, ImportsTypeOK, Hand
  <2>2. Fit(k)'
    BY <1>3, <1>5, <1>6, <2>1, FitStays DEF NothingBooked
  <2>. QED BY <2>1, <2>2 DEF Fit
<1>8. CommittedOnce'
  BY <1>2, <1>3, <1>5 DEF ImportsInv, CommittedOnce
<1>9. NothingTwice'
  <2>1. \A j \in Imports, f \in Prints : open'[j][f] + booked'[j][f] \in {0, open[j][f] + booked[j][f]}
    BY <1>5
  <2>2. \A j \in Imports, f \in Prints : open[j][f] + booked[j][f] \in Nat
    BY DEF ImportsInv, ImportsTypeOK
  <2>. QED BY <1>2, <2>1, <2>2 DEF ImportsInv, NothingTwice
<1>10. Staged'
  <2>1. \A j \in Imports : imports[j].rows \in Seq(StagedRow)
    BY DEF ImportsInv, ImportsTypeOK
  <2>. QED BY <1>2, <1>3, <1>6, <2>1, CleanStays DEF ImportsInv, Staged
<1>. QED BY <1>4, <1>7, <1>8, <1>9, <1>10 DEF ImportsInv

LEMMA ImportsKeep == ImportsInv /\ [ImportsNext]_importVars => ImportsInv'
<1>. SUFFICES ASSUME ImportsInv, [ImportsNext]_importVars PROVE ImportsInv'
  OBVIOUS
<1>1. CASE UNCHANGED importVars
  <2>1. \A f \in Prints : Stored(f)' = Stored(f)
    BY <1>1 DEF importVars, Stored
  <2>2. \A rows : Clean(rows)' = Clean(rows)
    BY <1>1 DEF importVars, Stored, Clean
  <2>3. ASSUME NEW v \in Uploads PROVE Fit(upload[v])'
    BY <1>1, <2>2 DEF importVars, ImportsInv, Fit, NothingBooked
  <2>4. ImportsTypeOK' /\ CommittedOnce' /\ NothingTwice'
    BY <1>1 DEF importVars, ImportsInv, ImportsTypeOK, CommittedOnce, NothingTwice
  <2>5. Staged'
    BY <1>1, <2>2 DEF importVars, ImportsInv, Staged
  <2>. QED BY <2>3, <2>4, <2>5 DEF ImportsInv
<1>2. CASE ImportsNext
  BY <1>2, ReadsKeep, CreateKeeps, UpdateKeeps, CommitKeeps, FeedKeeps, BookKeeps, DiscardKeeps,
     DeleteKeeps DEF ImportsNext
<1>. QED BY <1>1, <1>2

\* Of any number of imports, however commits, new mappings and undos of one race with
\* each other, its lines come in at most once and go with it.
THEOREM ImportedOnce == ImportsSpec => []CommittedOnce
<1>1. ImportsInv => CommittedOnce
  BY DEF ImportsInv
<1>. QED BY <1>1, ImportsBegin, ImportsKeep, PTL DEF ImportsSpec

\* No fingerprint comes in twice, for any files with any rows in common, unless the user
\* insisted or the duplicates had been looked for before other lines came in.
THEOREM PrintsComeInOnce == ImportsSpec => []NothingTwice
<1>1. ImportsInv => NothingTwice
  BY DEF ImportsInv
<1>. QED BY <1>1, ImportsBegin, ImportsKeep, PTL DEF ImportsSpec

\* An undo takes a booked line only when the line was booked after the undo had counted.
THEOREM UndoSparesBooked == ImportsSpec => BookedLinesKept
<1>. DEFINE Spares == \A i \in Imports, f \in Prints :
              booked'[i][f] < booked[i][f] =>
                \E u \in Uploads : /\ upload[u].at = "delete"
                                   /\ upload[u].import = i
                                   /\ upload[u].raced
<1>1. ImportsInv /\ [ImportsNext]_importVars => [Spares]_importVars
  <2>. SUFFICES ASSUME ImportsInv, ImportsNext, NEW i \in Imports, NEW f \in Prints,
                       booked'[i][f] < booked[i][f]
                PROVE  \E u \in Uploads : /\ upload[u].at = "delete"
                                          /\ upload[u].import = i
                                          /\ upload[u].raced
    OBVIOUS
  <2>1. booked \in [Imports -> [Prints -> Nat]]
    BY DEF ImportsInv, ImportsTypeOK
  <2>2. booked' # booked
    BY <2>1
  <2>3. ASSUME NEW j \in Imports, NEW g \in Prints, BookLine(j, g) PROVE FALSE
    <3>1. booked' = [booked EXCEPT ![j][g] = @ + 1]
      BY <2>3 DEF BookLine
    <3>. QED BY <2>1, <3>1
  <2>4. PICK u \in Uploads : DeleteImport(u)
    BY <2>2, <2>3 DEF ImportsNext, ParseFile, RemapFile, CreateImport, CountBooked, ReadPayload,
                      UpdateImport, SelectStaged, CommitImport, AbandonUpload, FeedLine, DiscardLine
  <2>5. /\ upload[u].at = "delete"
        /\ booked' = [booked EXCEPT ![upload[u].import] = NoLines]
    BY <2>4 DEF DeleteImport
  <2>6. upload[u].import = i
    BY <2>1, <2>5
  <2>7. ~NothingBooked(i)
    <3>1. booked'[i][f] = 0
      BY <2>1, <2>5, <2>6 DEF NoLines
    <3>. QED BY <2>1, <3>1 DEF NothingBooked
  <2>8. upload[u].raced
    BY <2>5, <2>6, <2>7 DEF ImportsInv, Fit
  <2>. QED BY <2>5, <2>6, <2>8
<1>2. ImportsSpec => [][Spares]_importVars
  BY <1>1, ImportsBegin, ImportsKeep, PTL DEF ImportsSpec
<1>. QED BY <1>2 DEF BookedLinesKept

----------------------------------------------------------------------------
(***************************************************************************)
(* Conversion balances, for any number of saves of any screens.            *)
(***************************************************************************)
\* What is about to be saved balances.
Journalled(s) ==
  /\ s.date \in BalanceDates
  /\ IsFiniteSet(DOMAIN s.lines) /\ SumAmounts(s.lines) = 0

\* From the first write to the commit a save is alone, and what it has deleted is what
\* there is.
Alone ==
  /\ \A r \in Savers : saver[r].at = "insert" => saver[r].deleted = openings
  /\ \A r, q \in Savers :
       saver[r].at \in {"delete", "insert"} /\ saver[q].at \in {"delete", "insert"} => r = q

JournalLines == UNION {[K -> EnteredRow] : K \in SUBSET Nat}
Opening == [by : Savers, date : BalanceDates, lines : JournalLines]
SaveRow == [at : {"idle", "update", "delete", "insert"}, date : BalanceDates \cup {NoDate},
            locked : BOOLEAN, lines : JournalLines, deleted : SUBSET Opening,
            overtaken : BOOLEAN]

ConversionInv ==
  /\ saver \in [Savers -> SaveRow] /\ openings \subseteq Opening /\ org.locked \in BOOLEAN
  /\ \A r \in Savers : saver[r].at # "idle" => Journalled(saver[r])
  /\ Alone /\ OneConversionJournal

LEMMA CarriedBalances ==
  ASSUME NEW rows \in Screens
  PROVE  LET lines == ConversionLines(rows)
         IN lines \in JournalLines /\ IsFiniteSet(DOMAIN lines) /\ SumAmounts(lines) = 0
<1>1. /\ rows \in Seq(EnteredRow) /\ Len(rows) \in Nat /\ DOMAIN rows = 1..Len(rows)
      /\ \A k \in 1..Len(rows) : rows[k] \in EnteredRow
  <2>1. rows \in Seq(EnteredRow)
    BY ConversionAssumption
  <2>. QED BY <2>1
<1>. DEFINE K == {k \in DOMAIN rows : rows[k].account # NoAccount /\ rows[k].amount # 0}
            kept == Kept(rows)
            sum == SumAmounts(kept)
            last == Len(rows) + 1
<1>2. kept = [k \in K |-> rows[k]] /\ K \subseteq 1..Len(rows)
  BY <1>1 DEF Kept, Restrict
<1>3. IsFiniteSet(K)
  <2>1. K \in SUBSET (1..Len(rows)) /\ IsFiniteSet(1..Len(rows))
    BY <1>1, <1>2, FS_Interval
  <2>. QED BY <2>1, FS_Subset
<1>. HIDE DEF K, kept
<1>4. kept \in JournalLines /\ DOMAIN kept = K /\ \A k \in K : kept[k] \in EnteredRow /\ kept[k] = rows[k]
  <2>1. kept \in [K -> EnteredRow] /\ K \in SUBSET Nat
    BY <1>1, <1>2
  <2>. QED BY <1>2, <2>1 DEF JournalLines
<1>. DEFINE f == [k \in K |-> kept[k].amount]
<1>5. sum = SumUp(K, f) /\ \A k \in K : f[k] = kept[k].amount /\ f[k] \in Int
  BY <1>4, FoldAllIsSum DEF SumAmounts, EnteredRow
<1>. HIDE DEF f
<1>6. sum \in Int
  <2>1. SumUp(K, f) \in Int
    BY <1>3, <1>5, SumIsInt
  <2>. QED BY <1>5, <2>1
<1>7. CASE sum = 0
  BY <1>3, <1>4, <1>7 DEF ConversionLines, kept
<1>8. CASE sum # 0
  <2>. DEFINE carry == [account |-> Historical, amount |-> -sum]
              lines == [k \in K \cup {last} |-> IF k \in K THEN kept[k] ELSE carry]
              g == [k \in K \cup {last} |-> lines[k].amount]
  <2>1. ConversionLines(rows) = lines
    BY <1>4, <1>8 DEF ConversionLines, kept
  <2>2. last \in Nat /\ last \notin K
    BY <1>1, <1>2
  <2>3. carry \in EnteredRow /\ carry.amount = -sum
    BY <1>6, ConversionAssumption DEF EnteredRow
  <2>. HIDE DEF carry, last, sum
  <2>4. lines \in JournalLines
    <3>1. lines \in [K \cup {last} -> EnteredRow]
      BY <1>4, <2>3
    <3>2. K \cup {last} \in SUBSET Nat
      BY <1>2, <2>2
    <3>. HIDE DEF lines
    <3>. QED BY <3>1, <3>2 DEF JournalLines
  <2>5. IsFiniteSet(DOMAIN lines)
    BY <1>3, FS_AddElement
  <2>6. DOMAIN lines = K \cup {last} /\ (\A k \in K : lines[k] = kept[k]) /\ lines[last] = carry
    BY <2>2
  <2>. HIDE DEF lines
  <2>7. SumAmounts(lines) = SumUp(K \cup {last}, g)
    BY <2>6, FoldAllIsSum DEF SumAmounts
  <2>8. (\A k \in K : g[k] = f[k]) /\ g[last] = -sum
    BY <1>5, <2>2, <2>3, <2>6
  <2>. HIDE DEF g
  <2>9. SumUp(K \cup {last}, g) = g[last] + SumUp(K, g)
    BY <1>3, <1>5, <1>6, <2>2, <2>8, SumAdds
  <2>10. SumUp(K, g) = sum
    BY <1>3, <1>5, <2>8, SumSame
  <2>11. -sum + sum = 0
    BY <1>6
  <2>. QED BY <2>1, <2>4, <2>5, <2>7, <2>8, <2>9, <2>10, <2>11
<1>. QED BY <1>7, <1>8

LEMMA RestingSave == NotSaving \in SaveRow
<1>1. << >> \in [{} -> EnteredRow] /\ {} \in SUBSET Nat
  OBVIOUS
<1>2. << >> \in JournalLines
  BY <1>1 DEF JournalLines
<1>. QED BY <1>2 DEF NotSaving, SaveRow

LEMMA ConversionBegins == ConversionInit => ConversionInv
BY RestingSave DEF ConversionInit, ConversionInv, OneConversionJournal, Alone, NotSaving

\* Steps of a save that leave what is committed.
LEMMA SavesKeep ==
  ASSUME ConversionInv, NEW r \in Savers,
         OpenScreen(r) \/ UpdateOrganisation(r) \/ DeleteOpening(r) \/ AbandonSave(r)
  PROVE  ConversionInv'
<1>1. PICK s \in SaveRow :
        /\ saver' = [saver EXCEPT ![r] = s] /\ UNCHANGED <<org, openings>>
        /\ s.at # "idle" => Journalled(s)
        /\ s.at = "insert" => s.deleted = openings
        /\ s.at \in {"delete", "insert"} =>
             \A q \in Savers \ {r} : saver[q].at \notin {"delete", "insert"}
        /\ s.at # "idle" /\ org.locked => r \in Admins \/ s.overtaken
  <2>. PICK k \in SaveRow : k = saver[r]
    BY DEF ConversionInv
  <2>0. /\ k.at # "idle" => Journalled(k)
        /\ k.at # "idle" /\ org.locked => r \in Admins \/ k.overtaken
    BY DEF ConversionInv, OneConversionJournal
  <2>1. CASE OpenScreen(r)
    <3>1. PICK rows \in Screens, date \in BalanceDates, locked \in BOOLEAN :
            saver' = [saver EXCEPT ![r] = [NotSaving EXCEPT
                !.at = "update", !.date = date, !.locked = locked, !.lines = ConversionLines(rows)]]
      BY <2>1 DEF OpenScreen
    <3>. DEFINE lines == ConversionLines(rows)
    <3>2. lines \in JournalLines /\ IsFiniteSet(DOMAIN lines) /\ SumAmounts(lines) = 0
      BY CarriedBalances
    <3>. HIDE DEF lines
    <3>. DEFINE s == [NotSaving EXCEPT
                        !.at = "update", !.date = date, !.locked = locked, !.lines = lines]
    <3>3. s \in SaveRow /\ s.at = "update" /\ s.date = date /\ s.lines = lines
      BY <3>2 DEF NotSaving, SaveRow
    <3>4. saver' = [saver EXCEPT ![r] = s]
      BY <3>1 DEF lines
    <3>. HIDE DEF s
    <3>. QED BY <2>1, <3>2, <3>3, <3>4 DEF OpenScreen, Journalled
  <2>2. CASE UpdateOrganisation(r)
    <3>. DEFINE s == [k EXCEPT !.at = "delete"]
    <3>1. /\ s \in SaveRow /\ s.at = "delete" /\ s.date = k.date /\ s.lines = k.lines
          /\ s.overtaken = k.overtaken /\ k.at = "update"
      BY <2>2 DEF SaveRow, UpdateOrganisation
    <3>2. saver' = [saver EXCEPT ![r] = s]
      BY <2>2 DEF UpdateOrganisation
    <3>. HIDE DEF s
    <3>. QED BY <2>0, <2>2, <3>1, <3>2 DEF UpdateOrganisation, OrgFree, Journalled
  <2>3. CASE DeleteOpening(r)
    <3>. DEFINE s == [k EXCEPT !.at = "insert", !.deleted = openings]
    <3>1. /\ s \in SaveRow /\ s.at = "insert" /\ s.date = k.date /\ s.lines = k.lines
          /\ s.overtaken = k.overtaken /\ s.deleted = openings /\ k.at = "delete"
      BY <2>3 DEF SaveRow, DeleteOpening, ConversionInv
    <3>2. saver' = [saver EXCEPT ![r] = s]
      BY <2>3 DEF DeleteOpening, ConversionInv
    <3>3. \A q \in Savers \ {r} : saver[q].at \notin {"delete", "insert"}
      BY <3>1 DEF ConversionInv, Alone
    <3>. HIDE DEF s
    <3>. QED BY <2>0, <2>3, <3>1, <3>2, <3>3 DEF DeleteOpening, Journalled
  <2>4. CASE AbandonSave(r)
    BY <2>4, RestingSave DEF AbandonSave, NotSaving
  <2>. QED BY <2>1, <2>2, <2>3, <2>4
<1>2. /\ saver' \in [Savers -> SaveRow] /\ saver'[r] = s
      /\ \A q \in Savers \ {r} : saver'[q] = saver[q]
  BY <1>1 DEF ConversionInv
<1>3. ASSUME NEW q \in Savers PROVE saver'[q].at # "idle" => Journalled(saver[q])'
  <2>1. PICK k : k = saver'[q] /\ (k.at # "idle" => Journalled(k))
    BY <1>1, <1>2 DEF ConversionInv
  <2>. QED BY <2>1 DEF Journalled
<1>4. Alone'
  BY <1>1, <1>2 DEF ConversionInv, Alone
<1>5. OneConversionJournal'
  BY <1>1, <1>2 DEF ConversionInv, OneConversionJournal
<1>. QED BY <1>1, <1>2, <1>3, <1>4, <1>5 DEF ConversionInv

LEMMA CommitSaveKeeps ==
  ASSUME ConversionInv, NEW r \in Savers, CommitSave(r)
  PROVE  ConversionInv'
<1>1. PICK s \in SaveRow : s = saver[r] /\ s.at = "insert" /\ s.deleted = openings /\ Journalled(s)
  BY DEF CommitSave, ConversionInv, Alone
<1>2. PICK o : o = [by |-> r, date |-> s.date, lines |-> s.lines]
  OBVIOUS
<1>3. /\ org' = [date |-> s.date, locked |-> s.locked]
      /\ openings' \subseteq {o}
  BY <1>1, <1>2 DEF CommitSave
<1>4. o \in Opening /\ o.date = s.date /\ o.lines = s.lines
  BY <1>1, <1>2 DEF Opening, SaveRow, Journalled
<1>5. saver' = [q \in Savers |->
                  IF q = r THEN NotSaving
                  ELSE [saver[q] EXCEPT !.overtaken = saver[q].at # "idle"]]
  BY DEF CommitSave
<1>6. ASSUME NEW q \in Savers
      PROVE  /\ saver'[q] \in SaveRow
             /\ saver'[q].at \notin {"delete", "insert"}
             /\ saver'[q].at # "idle" => Journalled(saver[q])' /\ saver'[q].overtaken
  <2>1. CASE q = r
    BY <1>5, <2>1, RestingSave DEF NotSaving
  <2>2. CASE q # r
    <3>1. PICK k \in SaveRow : /\ k = saver[q] /\ (k.at # "idle" => Journalled(k))
                               /\ k.at \notin {"delete", "insert"}
      BY <1>1, <2>2 DEF ConversionInv, Alone
    <3>. DEFINE late == k.at # "idle"
    <3>2. saver'[q] = [k EXCEPT !.overtaken = late] /\ late \in BOOLEAN
      BY <1>5, <2>2, <3>1
    <3>. HIDE DEF late
    <3>3. /\ saver'[q] \in SaveRow /\ saver'[q].at = k.at /\ saver'[q].overtaken = late
          /\ saver'[q].date = k.date /\ saver'[q].lines = k.lines
      BY <3>2 DEF SaveRow
    <3>. QED BY <3>1, <3>3 DEF late, Journalled
  <2>. QED BY <2>1, <2>2
<1>7. saver' \in [Savers -> SaveRow]
  BY <1>5, <1>6
<1>8. Alone'
  BY <1>6 DEF Alone
<1>9. OneConversionJournal'
  <2>1. \A p \in openings' : p.date = org'.date /\ SumAmounts(p.lines) = 0
    BY <1>1, <1>3, <1>4 DEF Journalled
  <2>2. \A p, q \in openings' : p = q
    BY <1>3
  <2>. QED BY <1>6, <2>1, <2>2 DEF OneConversionJournal
<1>10. org'.locked \in BOOLEAN /\ openings' \subseteq Opening
  BY <1>3, <1>4 DEF SaveRow
<1>. QED BY <1>6, <1>7, <1>8, <1>9, <1>10 DEF ConversionInv

LEMMA ConversionKeeps == ConversionInv /\ [ConversionNext]_conversionVars => ConversionInv'
<1>1. ASSUME ConversionInv, UNCHANGED conversionVars PROVE ConversionInv'
  BY <1>1 DEF conversionVars, ConversionInv, Alone, OneConversionJournal, Journalled
<1>. QED BY <1>1, SavesKeep, CommitSaveKeeps DEF ConversionNext

\* "The screen and the ledger cannot disagree" (Save): for any number of saves at once,
\* of any screens, one conversion journal at most is left; it balances and has the date
\* of the organisation's conversion, and only an administrator, or a save that began
\* before, replaces it once it is locked.
THEOREM OneOpeningJournal == ConversionSpec => []OneConversionJournal
<1>1. ConversionInv => OneConversionJournal
  BY DEF ConversionInv
<1>. QED BY <1>1, ConversionBegins, ConversionKeeps, PTL DEF ConversionSpec

(***************************************************************************)
(* The order of the bank rules, for any number of rules and of users who   *)
(* drag them.                                                              *)
(***************************************************************************)
RuleRow == [state : {"unused", "kept", "gone"}, order : Nat, content : Contents \cup {AnyContent}]
Page == [at : {"idle", "page"}, list : Seq(Rules), next : Nat, wrote : SUBSET Nat]

\* A page under way: its rules were in the list, and of those it has come to it holds
\* the ones that still are.
Paged(k) ==
  /\ k.at = "idle" => k.wrote = {}
  /\ k.next \in 1..(Len(k.list) + 1) /\ k.wrote \subseteq 1..(k.next - 1)
  /\ \A i, j \in 1..Len(k.list) : k.list[i] = k.list[j] => i = j
  /\ \A i \in 1..Len(k.list) : rule[k.list[i]].state # "unused"
  /\ \A i \in 1..(k.next - 1) : i \in k.wrote <=> rule[k.list[i]].state = "kept"

\* The rules of the list that was saved last have the order of that list.
Sorted ==
  /\ \A i, j \in DOMAIN asked : asked[i] = asked[j] => i = j
  /\ \A i \in DOMAIN asked : /\ rule[asked[i]].state # "unused"
                             /\ rule[asked[i]].state = "kept" => rule[asked[i]].order = i - 1

RulesInv ==
  /\ rule \in [Rules -> RuleRow] /\ drag \in [Draggers -> Page] /\ asked \in Seq(Rules)
  /\ \A d \in Draggers : Paged(drag[d])
  /\ Sorted

LEMMA FirstWins == RulesInv => FirstAskedWins
<1>. SUFFICES ASSUME RulesInv, NEW c \in Candidates
              PROVE  LET hits == {i \in DOMAIN asked :
                                    asked[i] \in InList /\ Matches(rule[asked[i]].content, c)}
                     IN hits # {} => \/ Suggest(c) = asked[Min(hits)]
                                     \/ Suggest(c) \notin Range(asked)
  BY DEF FirstAskedWins
<1>. DEFINE hits == {i \in DOMAIN asked :
                       asked[i] \in InList /\ Matches(rule[asked[i]].content, c)}
            H == {r \in InList : Matches(rule[r].content, c)}
<1>. SUFFICES ASSUME hits # {}, Suggest(c) \in Range(asked) PROVE Suggest(c) = asked[Min(hits)]
  OBVIOUS
<1>1. /\ DOMAIN asked \subseteq Nat
      /\ \A i \in DOMAIN asked : asked[i] \in Rules
  BY DEF RulesInv
<1>2. Min(hits) \in hits /\ \A i \in hits : Min(hits) <= i
  <2>1. hits \in SUBSET Nat
    BY <1>1
  <2>. HIDE DEF hits
  <2>2. \E m \in hits : \A k \in hits : m <= k
    BY <2>1, LeastOf
  <2>. QED BY <2>2 DEF Min
<1>3. H # {} /\ H \subseteq Rules
  BY <1>1 DEF InList
<1>4. \A r \in Rules : rule[r].order \in Nat /\ RankOf[r] \in Nat
  BY RulesAssumption DEF RulesInv, RuleRow
<1>. HIDE DEF H
<1>5. PICK r \in H : \A q \in H : rule[r].order <= rule[q].order
  <2>. DEFINE S == {rule[q].order : q \in H}
  <2>1. S \in SUBSET Nat /\ S # {}
    BY <1>3, <1>4
  <2>2. PICK m \in S : \A k \in S : m <= k
    <3>. HIDE DEF S
    <3>. QED BY <2>1, LeastOf
  <2>. QED BY <2>2
<1>6. PICK s \in H : /\ rule[s].order = rule[r].order
                     /\ \A q \in H : rule[q].order = rule[r].order => RankOf[s] <= RankOf[q]
  <2>. DEFINE E == {q \in H : rule[q].order = rule[r].order}
              S == {RankOf[q] : q \in E}
  <2>1. S \in SUBSET Nat /\ S # {}
    BY <1>3, <1>4, <1>5
  <2>2. PICK m \in S : \A k \in S : m <= k
    <3>. HIDE DEF S
    <3>. QED BY <2>1, LeastOf
  <2>. QED BY <2>2
<1>7. \A q \in H \ {s} : Before(s, q)
  BY <1>3, <1>4, <1>5, <1>6, RulesAssumption DEF Before
<1>8. Suggest(c) \in H /\ \A q \in H \ {Suggest(c)} : Before(Suggest(c), q)
  <2>1. Suggest(c) = CHOOSE x \in H : \A q \in H \ {x} : Before(x, q)
    BY <1>3 DEF Suggest, H
  <2>. QED BY <1>7, <2>1
<1>9. PICK k \in DOMAIN asked : asked[k] = Suggest(c)
  BY DEF Range
<1>10. k \in hits
  BY <1>8, <1>9 DEF H
<1>11. Min(hits) <= k /\ Min(hits) \in DOMAIN asked /\ asked[Min(hits)] \in H
  BY <1>2, <1>10 DEF H
<1>12. rule[asked[k]].order = k - 1 /\ rule[asked[Min(hits)]].order = Min(hits) - 1
  BY <1>2, <1>9, <1>10, <1>11 DEF RulesInv, Sorted, InList
<1>13. ASSUME Min(hits) # k PROVE FALSE
  <2>. DEFINE m == Min(hits)
  <2>1. m \in Nat /\ k \in Nat /\ m < k /\ m \in DOMAIN asked
    BY <1>1, <1>11, <1>13
  <2>. HIDE DEF m
  <2>2. asked[m] # asked[k]
    BY <1>13, <2>1 DEF RulesInv, Sorted, m
  <2>3. Before(asked[k], asked[m])
    BY <1>8, <1>9, <1>11, <2>2 DEF m
  <2>4. rule[asked[m]].order < rule[asked[k]].order
    BY <1>12, <2>1 DEF m
  <2>. QED BY <1>1, <1>4, <2>1, <2>3, <2>4 DEF Before
<1>. QED BY <1>9, <1>13

LEMMA RulesBegin == RulesInit => RulesInv
<1>. SUFFICES ASSUME RulesInit PROVE RulesInv
  OBVIOUS
<1>1. << >> \in Seq(Rules) /\ Len(<< >>) = 0 /\ DOMAIN << >> = {}
  OBVIOUS
<1>2. NoRow \in RuleRow /\ NoDrag \in Page
  BY <1>1 DEF NoRow, RuleRow, NoDrag, Page
<1>3. Paged(NoDrag)
  BY <1>1 DEF Paged, NoDrag
<1>. QED BY <1>1, <1>2, <1>3 DEF RulesInit, RulesInv, Sorted

\* A step that uses or removes no rule but those no list has or holds.
LEMMA PagesStay ==
  ASSUME RulesInv, NEW k \in Page, Paged(k), rule' \in [Rules -> RuleRow],
         \A r \in Rules : rule[r].state # "unused" => rule'[r].state # "unused",
         \A r \in Rules : rule[r].state = "gone" => rule'[r].state # "kept",
         \A i \in k.wrote : rule'[k.list[i]].state = "kept"
  PROVE  Paged(k)'
<1>1. /\ k.list \in Seq(Rules) /\ Len(k.list) \in Nat /\ k.next \in Nat
      /\ \A i \in 1..Len(k.list) : k.list[i] \in Rules
  BY DEF Page
<1>2. \A i \in 1..(k.next - 1) : i \in 1..Len(k.list)
  BY <1>1 DEF Paged
<1>3. \A r \in Rules : rule[r].state \in {"unused", "kept", "gone"} /\ rule'[r].state \in {"unused", "kept", "gone"}
  BY DEF RulesInv, RuleRow
<1>4. \A i \in 1..Len(k.list) : rule'[k.list[i]].state # "unused"
  BY <1>1 DEF Paged
<1>5. ASSUME NEW i \in 1..(k.next - 1) PROVE i \in k.wrote <=> rule'[k.list[i]].state = "kept"
  <2>1. CASE i \in k.wrote
    BY <2>1
  <2>2. CASE i \notin k.wrote
    <3>1. rule[k.list[i]].state = "gone"
      BY <1>1, <1>2, <1>3, <2>2 DEF Paged
    <3>. QED BY <1>1, <1>2, <2>2, <3>1
  <2>. QED BY <2>1, <2>2
<1>. QED BY <1>4, <1>5 DEF Paged

LEMMA CreateRuleKeeps ==
  ASSUME RulesInv, NEW r \in Rules, NEW x \in Contents, CreateRule(r, x)
  PROVE  RulesInv'
<1>. DEFINE orders == {rule[q].order : q \in InList}
            last == IF InList = {} THEN 0 ELSE Max(orders) + 1
            row == [state |-> "kept", order |-> last, content |-> x]
<1>1. /\ rule[r].state = "unused" /\ UNCHANGED <<drag, asked>>
      /\ rule' = [rule EXCEPT ![r] = row]
  BY DEF CreateRule
<1>2. last \in Nat
  <2>1. InList \in SUBSET Rules /\ \A q \in InList : rule[q].order \in Nat
    BY DEF InList, RulesInv, RuleRow
  <2>2. IsFiniteSet(InList)
    BY <2>1, RulesAssumption, FS_Subset
  <2>3. CASE InList # {}
    <3>. DEFINE f == [q \in InList |-> rule[q].order]
    <3>1. \A q \in InList : f[q] = rule[q].order /\ f[q] \in Nat
      BY <2>1
    <3>. HIDE DEF f
    <3>2. PICK y \in InList : \A q \in InList : f[q] <= f[y]
      BY <2>2, <2>3, <3>1, GreatestOf
    <3>3. \E n \in orders : \A m \in orders : n >= m
      BY <2>1, <3>1, <3>2
    <3>4. orders \subseteq Nat
      BY <2>1
    <3>. HIDE DEF orders
    <3>5. Max(orders) \in orders
      BY <3>3 DEF Max
    <3>6. Max(orders) \in Nat
      BY <3>4, <3>5
    <3>7. last = Max(orders) + 1
      BY <2>3
    <3>. HIDE DEF last
    <3>. QED BY <3>6, <3>7
  <2>. QED BY <2>3
<1>. HIDE DEF last
<1>3. row \in RuleRow /\ row.state = "kept"
  BY <1>2 DEF RuleRow
<1>. HIDE DEF row
<1>4. /\ rule' \in [Rules -> RuleRow] /\ rule'[r].state = "kept"
      /\ \A q \in Rules \ {r} : rule'[q] = rule[q]
  BY <1>1, <1>3 DEF RulesInv
<1>5. ASSUME NEW d \in Draggers PROVE Paged(drag[d])'
  <2>1. PICK k \in Page : k = drag[d] /\ Paged(k)
    BY DEF RulesInv
  <2>2. \A i \in k.wrote : rule'[k.list[i]].state = "kept"
    <3>1. k.list \in Seq(Rules) /\ k.next \in Nat
      BY DEF Page
    <3>2. \A i \in k.wrote : i \in 1..(k.next - 1) /\ i \in 1..Len(k.list)
      BY <2>1, <3>1 DEF Paged
    <3>3. \A i \in k.wrote : k.list[i] \in Rules /\ rule[k.list[i]].state = "kept"
      BY <2>1, <3>1, <3>2 DEF Paged
    <3>. QED BY <1>1, <1>4, <3>3
  <2>3. Paged(k)'
    BY <1>1, <1>4, <2>1, <2>2, PagesStay
  <2>. QED BY <1>1, <2>1, <2>3 DEF Paged
<1>6. Sorted'
  <2>1. \A i \in DOMAIN asked : asked[i] \in Rules /\ asked[i] # r
    BY <1>1 DEF RulesInv, Sorted
  <2>. QED BY <1>1, <1>4, <2>1 DEF RulesInv, Sorted
<1>. QED BY <1>1, <1>4, <1>5, <1>6 DEF RulesInv

LEMMA EditKeeps ==
  ASSUME RulesInv, NEW r \in Rules, NEW row \in RuleRow, rule[r].state = "kept",
         rule' = [rule EXCEPT ![r] = row], UNCHANGED <<drag, asked>>,
         \/ row.state = "gone" /\ ~Locked(r)
         \/ row.state = "kept" /\ row.order = rule[r].order
  PROVE  RulesInv'
<1>1. /\ rule' \in [Rules -> RuleRow] /\ rule'[r] = row
      /\ \A q \in Rules \ {r} : rule'[q] = rule[q]
  BY DEF RulesInv
<1>2. ASSUME NEW d \in Draggers PROVE Paged(drag[d])'
  <2>1. PICK k \in Page : k = drag[d] /\ Paged(k)
    BY DEF RulesInv
  <2>2. \A i \in k.wrote : rule'[k.list[i]].state = "kept"
    <3>1. k.list \in Seq(Rules) /\ k.next \in Nat
      BY DEF Page
    <3>2. \A i \in k.wrote : i \in 1..(k.next - 1) /\ i \in 1..Len(k.list)
      BY <2>1, <3>1 DEF Paged
    <3>3. \A i \in k.wrote : k.list[i] \in Rules /\ rule[k.list[i]].state = "kept"
      BY <2>1, <3>1, <3>2 DEF Paged
    <3>4. row.state # "kept" => \A i \in k.wrote : k.list[i] # r
      BY <2>1 DEF Locked, LockedBy
    <3>. QED BY <1>1, <3>3, <3>4
  <2>3. Paged(k)'
    BY <1>1, <2>1, <2>2, PagesStay
  <2>. QED BY <2>1, <2>3 DEF Paged
<1>3. Sorted'
  <2>1. \A i \in DOMAIN asked : asked[i] \in Rules
    BY DEF RulesInv
  <2>. QED BY <1>1, <2>1 DEF RulesInv, Sorted
<1>. QED BY <1>1, <1>2, <1>3 DEF RulesInv

LEMMA UpdateRuleKeeps ==
  ASSUME RulesInv, NEW r \in Rules,
         (\E x \in Contents : UpdateRule(r, x)) \/ DeleteRule(r)
  PROVE  RulesInv'
<1>1. ASSUME NEW x \in Contents, UpdateRule(r, x) PROVE RulesInv'
  <2>. DEFINE row == [rule[r] EXCEPT !.content = x]
  <2>1. rule[r] \in RuleRow /\ rule[r].state = "kept" /\ UNCHANGED <<drag, asked>>
    BY <1>1 DEF UpdateRule, RulesInv
  <2>2. row \in RuleRow /\ row.state = "kept" /\ row.order = rule[r].order
    BY <2>1 DEF RuleRow
  <2>3. rule' = [rule EXCEPT ![r] = row]
    BY <1>1 DEF UpdateRule, RulesInv
  <2>. HIDE DEF row
  <2>. QED BY <2>1, <2>2, <2>3, EditKeeps
<1>2. CASE DeleteRule(r)
  <2>. DEFINE row == [NoRow EXCEPT !.state = "gone"]
  <2>1. rule[r].state = "kept" /\ ~Locked(r) /\ UNCHANGED <<drag, asked>>
    BY <1>2 DEF DeleteRule
  <2>2. row \in RuleRow /\ row.state = "gone"
    BY DEF RuleRow, NoRow
  <2>3. rule' = [rule EXCEPT ![r] = row]
    BY <1>2 DEF DeleteRule
  <2>. HIDE DEF row
  <2>. QED BY <2>1, <2>2, <2>3, EditKeeps
<1>. QED BY <1>1, <1>2

\* A page is opened, goes on, or is given up.
LEMMA PageKeeps ==
  ASSUME RulesInv, NEW d \in Draggers, NEW k \in Page, Paged(k),
         drag' = [drag EXCEPT ![d] = k], UNCHANGED <<rule, asked>>
  PROVE  RulesInv'
<1>1. ASSUME NEW e \in Draggers PROVE Paged(drag[e])'
  <2>1. PICK j : j = drag'[e] /\ Paged(j)
    BY DEF RulesInv
  <2>. QED BY <2>1 DEF Paged
<1>. QED BY <1>1 DEF RulesInv, Sorted

LEMMA DragKeeps ==
  ASSUME RulesInv, NEW d \in Draggers,
         \/ \E list \in SetToSeqs(InList) : OpenList(d, list)
         \/ ReorderRow(d)
         \/ GiveUpReorder(d)
  PROVE  RulesInv'
<1>1. ASSUME NEW list \in SetToSeqs(InList), OpenList(d, list) PROVE RulesInv'
  <2>. DEFINE k == [NoDrag EXCEPT !.at = "page", !.list = list]
              n == Cardinality(InList)
  <2>1. drag' = [drag EXCEPT ![d] = k] /\ UNCHANGED <<rule, asked>>
    BY <1>1 DEF OpenList
  <2>2. n \in Nat
    <3>1. InList \in SUBSET Rules
      BY DEF InList
    <3>. QED BY <3>1, RulesAssumption, FS_Subset, FS_CardinalityType
  <2>. HIDE DEF n
  <2>3. list \in [1..n -> InList] /\ \A i, j \in 1..n : i # j => list[i] # list[j]
    BY DEF SetToSeqs, n
  <2>4. list \in Seq(Rules) /\ Len(list) = n
    BY <2>2, <2>3 DEF InList
  <2>5. k \in Page /\ k.at = "page" /\ k.list = list /\ k.next = 1 /\ k.wrote = {}
    BY <2>4 DEF NoDrag, Page
  <2>. HIDE DEF k
  <2>6. Paged(k)
    BY <2>2, <2>3, <2>4, <2>5 DEF Paged, InList
  <2>. QED BY <2>1, <2>5, <2>6, PageKeeps
<1>2. CASE ReorderRow(d)
  <2>1. PICK k \in Page : k = drag[d] /\ Paged(k)
    BY DEF RulesInv
  <2>. DEFINE i == k.next
              r == k.list[i]
              wrote == IF r \in InList THEN k.wrote \cup {i} ELSE k.wrote
              j == [k EXCEPT !.next = i + 1, !.wrote = wrote]
  <2>2. /\ k.at = "page" /\ i <= Len(k.list) /\ UNCHANGED <<rule, asked>>
        /\ drag' = [drag EXCEPT ![d] = j]
    BY <1>2, <2>1 DEF ReorderRow, RulesInv
  <2>3. /\ k.list \in Seq(Rules) /\ Len(k.list) \in Nat /\ i \in Nat /\ k.wrote \in SUBSET Nat
        /\ i >= 1
    BY <2>1 DEF Page, Paged
  <2>4. wrote \in SUBSET Nat /\ r \in Rules /\ (r \in InList <=> rule[r].state = "kept")
    BY <2>2, <2>3 DEF InList
  <2>5. \A m \in 1..i : (m \in wrote) <=> (IF m = i THEN rule[r].state = "kept" ELSE m \in k.wrote)
    <3>1. i \notin k.wrote
      BY <2>1, <2>3 DEF Paged
    <3>. QED BY <2>4, <3>1
  <2>6. wrote \subseteq 1..i
    BY <2>1, <2>3 DEF Paged
  <2>. HIDE DEF wrote
  <2>7. j \in Page /\ j.at = "page" /\ j.list = k.list /\ j.next = i + 1 /\ j.wrote = wrote
    <3>1. PICK n \in Nat : n = i + 1
      BY <2>3
    <3>2. j = [k EXCEPT !.next = n, !.wrote = wrote]
      BY <3>1
    <3>. HIDE DEF j, i
    <3>3. j \in Page /\ j.at = k.at /\ j.list = k.list /\ j.next = n /\ j.wrote = wrote
      BY <2>4, <3>2 DEF Page
    <3>. QED BY <2>2, <3>1, <3>3
  <2>. HIDE DEF j
  <2>8. Paged(j)
    <3>1. \A m \in 1..i : m \in wrote <=> rule[k.list[m]].state = "kept"
      <4>1. \A m \in 1..i : m # i => m \in 1..(i - 1)
        BY <2>3
      <4>. QED BY <2>1, <2>5, <4>1 DEF Paged
    <3>2. i + 1 \in 1..(Len(k.list) + 1) /\ (i + 1) - 1 = i
      BY <2>2, <2>3
    <3>. QED BY <2>1, <2>6, <2>7, <3>1, <3>2 DEF Paged
  <2>. QED BY <2>2, <2>7, <2>8, PageKeeps
<1>3. CASE GiveUpReorder(d)
  <2>1. NoDrag \in Page /\ Paged(NoDrag)
    BY DEF NoDrag, Page, Paged
  <2>. QED BY <1>3, <2>1, PageKeeps DEF GiveUpReorder
<1>. QED BY <1>1, <1>2, <1>3

LEMMA CommitReorderKeeps ==
  ASSUME RulesInv, NEW d \in Draggers, CommitReorder(d)
  PROVE  RulesInv'
<1>1. PICK k \in Page : k = drag[d] /\ Paged(k)
  BY DEF RulesInv
<1>. DEFINE place(r) == CHOOSE i \in k.wrote : k.list[i] = r
            held == {k.list[i] : i \in k.wrote}
<1>2. /\ k.next > Len(k.list) /\ asked' = k.list /\ drag' = [drag EXCEPT ![d] = NoDrag]
      /\ rule' = [r \in Rules |->
           IF r \in held THEN [rule[r] EXCEPT !.order = place(r) - 1] ELSE rule[r]]
  BY <1>1 DEF CommitReorder, LockedBy
<1>3. /\ k.list \in Seq(Rules) /\ Len(k.list) \in Nat /\ k.next = Len(k.list) + 1
      /\ \A i \in 1..Len(k.list) : k.list[i] \in Rules
      /\ k.wrote \subseteq 1..Len(k.list) /\ DOMAIN k.list = 1..Len(k.list)
  <2>1. k.list \in Seq(Rules) /\ Len(k.list) \in Nat /\ k.next \in Nat
    BY DEF Page
  <2>2. k.next = Len(k.list) + 1
    BY <1>1, <1>2, <2>1 DEF Paged
  <2>. QED BY <1>1, <2>1, <2>2 DEF Paged
<1>4. \A i \in k.wrote : place(k.list[i]) = i
  BY <1>1, <1>3 DEF Paged
<1>5. \A r \in held : place(r) \in k.wrote
  BY <1>4
<1>. HIDE DEF place
<1>6. \A r \in Rules : /\ rule'[r] \in RuleRow /\ rule'[r].state = rule[r].state
                       /\ r \in held => rule'[r].order = place(r) - 1
  <2>. SUFFICES ASSUME NEW r \in Rules
                PROVE  /\ rule'[r] \in RuleRow /\ rule'[r].state = rule[r].state
                       /\ r \in held => rule'[r].order = place(r) - 1
    OBVIOUS
  <2>1. rule[r] \in RuleRow
    BY DEF RulesInv
  <2>2. CASE r \in held
    <3>1. place(r) - 1 \in Nat
      BY <1>3, <1>5, <2>2
    <3>2. rule'[r] = [rule[r] EXCEPT !.order = place(r) - 1]
      BY <1>2, <2>2
    <3>. QED BY <2>1, <3>1, <3>2 DEF RuleRow
  <2>3. CASE r \notin held
    BY <1>2, <2>1, <2>3
  <2>. QED BY <2>2, <2>3
<1>7. rule' \in [Rules -> RuleRow]
  BY <1>2, <1>6
<1>8. ASSUME NEW e \in Draggers PROVE Paged(drag[e])'
  <2>1. NoDrag \in Page /\ Paged(NoDrag)
    BY DEF NoDrag, Page, Paged
  <2>2. PICK j \in Page : j = drag'[e] /\ Paged(j)
    BY <1>2, <2>1 DEF RulesInv
  <2>3. \A i \in j.wrote : rule'[j.list[i]].state = "kept"
    <3>1. j.list \in Seq(Rules) /\ j.next \in Nat
      BY DEF Page
    <3>2. \A i \in j.wrote : i \in 1..(j.next - 1) /\ i \in 1..Len(j.list)
      BY <2>2, <3>1 DEF Paged
    <3>3. \A i \in j.wrote : j.list[i] \in Rules /\ rule[j.list[i]].state = "kept"
      BY <2>2, <3>1, <3>2 DEF Paged
    <3>. QED BY <1>6, <3>3
  <2>4. Paged(j)'
    BY <1>6, <1>7, <2>2, <2>3, PagesStay
  <2>. QED BY <2>2, <2>4 DEF Paged
<1>9. Sorted'
  <2>1. \A i, j \in 1..Len(k.list) : k.list[i] = k.list[j] => i = j
    BY <1>1 DEF Paged
  <2>2. ASSUME NEW i \in 1..Len(k.list)
        PROVE  /\ rule'[k.list[i]].state # "unused"
               /\ rule'[k.list[i]].state = "kept" => rule'[k.list[i]].order = i - 1
    <3>1. k.list[i] \in Rules /\ rule[k.list[i]].state # "unused" /\ i \in 1..(k.next - 1)
      BY <1>1, <1>3 DEF Paged
    <3>2. rule[k.list[i]].state = "kept" => i \in k.wrote
      BY <1>1, <3>1 DEF Paged
    <3>. QED BY <1>4, <1>6, <3>1, <3>2
  <2>. QED BY <1>2, <1>3, <2>1, <2>2 DEF Sorted
<1>10. drag' \in [Draggers -> Page]
  BY <1>2 DEF RulesInv, NoDrag, Page
<1>. QED BY <1>2, <1>3, <1>7, <1>8, <1>9, <1>10 DEF RulesInv

LEMMA RulesKeep == RulesInv /\ [RulesNext]_ruleVars => RulesInv'
<1>1. ASSUME RulesInv, UNCHANGED ruleVars PROVE RulesInv'
  <2>1. ASSUME NEW d \in Draggers PROVE Paged(drag[d])'
    BY <1>1 DEF ruleVars, RulesInv, Paged
  <2>. QED BY <1>1, <2>1 DEF ruleVars, RulesInv, Sorted
<1>. QED BY <1>1, CreateRuleKeeps, UpdateRuleKeeps, DragKeeps, CommitReorderKeeps DEF RulesNext

\* "two people dragging rules at the same time cannot interleave into a third order"
\* (Reorder), for any number of them and of rules: of the list that was saved last, the
\* first that matches a line decides, unless a rule that list did not have does.
THEOREM ListDecides == RulesSpec => []FirstAskedWins
BY FirstWins, RulesBegin, RulesKeep, PTL DEF RulesSpec

(***************************************************************************)
(* What a rule allocates, for any definition that Validate lets through    *)
(* and any total.                                                          *)
(***************************************************************************)
LEMMA SeqIsSummed ==
  ASSUME NEW s \in Seq(Int)
  PROVE  /\ SumSeq(s) = SumUp(1..Len(s), s) /\ SumSeq(s) \in Int
         /\ Len(s) \in Nat /\ IsFiniteSet(1..Len(s)) /\ \A i \in 1..Len(s) : s[i] \in Int
<1>1. DOMAIN s = 1..Len(s) /\ Len(s) \in Nat /\ \A i \in 1..Len(s) : s[i] \in Int
  OBVIOUS
<1>2. IsFiniteSet(1..Len(s))
  BY <1>1, FS_Interval
<1>3. SumUp(1..Len(s), s) \in Int
  BY <1>1, <1>2, SumIsInt
<1>4. SumSeq(s) = SumUp(DOMAIN s, s)
  BY FoldAllIsSum DEF SumSeq
<1>. QED BY <1>1, <1>2, <1>3, <1>4

LEMMA SumJoins ==
  ASSUME NEW s \in Seq(Int), NEW t \in Seq(Int)
  PROVE  SumSeq(s \o t) = SumSeq(s) + SumSeq(t)
<1>. DEFINE u == s \o t
            m == Len(s)
            n == Len(t)
            S == 1..m
            T == (m + 1)..(m + n)
<1>1. /\ u \in Seq(Int) /\ Len(u) = m + n /\ m \in Nat /\ n \in Nat
      /\ \A i \in S : u[i] = s[i]
      /\ \A i \in 1..n : u[m + i] = t[i]
  OBVIOUS
<1>2. 1..(m + n) = S \cup T /\ S \cap T = {}
  BY <1>1
<1>3. IsFiniteSet(S) /\ IsFiniteSet(T) /\ IsFiniteSet(1..n)
  BY <1>1, FS_Interval
<1>4. \A i \in S \cup T : u[i] \in Int
  BY <1>1, <1>2
<1>5. SumSeq(u) = SumUp(S \cup T, u)
  BY <1>1, <1>2, SeqIsSummed
<1>6. SumUp(S, u) = SumUp(S, s)
  BY <1>1, <1>3, SumSame
<1>7. SumUp(1..n, t) = SumUp(T, u)
  <2>. DEFINE h == [i \in 1..n |-> m + i]
  <2>1. \A i \in 1..n : h[i] \in T /\ t[i] \in Int /\ t[i] = u[h[i]]
    BY <1>1
  <2>2. \A i, j \in 1..n : h[i] = h[j] => i = j
    BY <1>1
  <2>3. ASSUME NEW k \in T PROVE \E i \in 1..n : h[i] = k
    <3>1. k - m \in 1..n /\ h[k - m] = k
      BY <1>1
    <3>. QED BY <3>1
  <2>. HIDE DEF h
  <2>4. Renames(1..n, t, h, T, u)
    BY <1>3, <2>1, <2>2, <2>3 DEF Renames
  <2>. QED BY <2>4, SumRenamed
<1>. HIDE DEF u, S, T
<1>8. SumUp(S \cup T, u) = SumUp(S, u) + SumUp(T, u)
  BY <1>2, <1>3, <1>4, SumOfUnion
<1>. QED BY <1>5, <1>6, <1>7, <1>8, SeqIsSummed DEF S, u

\* What one line is off by comes from rounding down, and the last line takes what the
\* others left.
LEMMA Rounded ==
  ASSUME NEW x \in Int
  PROVE  x \div Whole \in Int /\ x - Whole * (x \div Whole) \in 0..Whole
BY DEF Whole

LEMMA LoneShare ==
  ASSUME NEW rest \in Int
  PROVE  /\ Shares(<< 0 >>, rest) \in Seq(Int) /\ SumSeq(Shares(<< 0 >>, rest)) = rest
         /\ Whole * Shares(<< 0 >>, rest)[1] - rest * Asked(<< 0 >>)[1] = 0
         /\ DOMAIN Shares(<< 0 >>, rest) = {1}
<1>1. Shares(<< 0 >>, rest) = <<rest>> /\ Asked(<< 0 >>) = <<Whole>>
  BY DEF Shares, Asked
<1>2. <<rest>> \in Seq(Int) /\ Len(<<rest>>) = 1 /\ <<rest>>[1] = rest /\ 1..1 = {1}
  OBVIOUS
<1>3. SumSeq(<<rest>>) = SumUp({1}, <<rest>>)
  BY <1>2, SeqIsSummed
<1>4. SumUp({1}, <<rest>>) = rest
  BY <1>2, SumOfOne
<1>5. Whole * rest - rest * Whole = 0
  BY DEF Whole
<1>6. Whole * <<rest>>[1] - rest * <<Whole>>[1] = 0 /\ DOMAIN <<rest>> = {1}
  BY <1>2, <1>5
<1>. QED BY <1>1, <1>2, <1>3, <1>4, <1>6

LEMMA SharesFoot ==
  ASSUME NEW p \in Seq(Int), p # << 0 >>, p # << >>, ValidPercents(p), NEW rest \in Int
  PROVE  LET shares == Shares(p, rest)
             spare  == Whole * Len(p) + (IF rest < 0 THEN -rest ELSE rest)
         IN  /\ shares \in Seq(Int) /\ DOMAIN shares = 1..Len(p) /\ SumSeq(shares) = rest
             /\ \A i \in 1..Len(p) : Whole * shares[i] - rest * p[i] \in -spare..spare
<1>. DEFINE n == Len(p)
            D == 1..(n - 1)
            P == [k \in D |-> p[k]]
            R == [k \in D |-> rest * p[k]]
            Q == [k \in D |-> (rest * p[k]) \div Whole]
            W == [k \in D |-> Whole * Q[k]]
            E == [k \in D |-> R[k] - W[k]]
            last == rest - SumSeq(Q)
            shares == [i \in 1..n |-> IF i < n THEN Q[i] ELSE last]
            dist == IF rest < 0 THEN -rest ELSE rest
            spare == Whole * n + dist
<1>1. n \in Nat \ {0} /\ \A i \in 1..n : p[i] \in Int
  <2>1. n # 0
    OBVIOUS
  <2>. QED BY <2>1
<1>2. IsFiniteSet(D) /\ IsFiniteSet(1..n) /\ Cardinality(D) = n - 1
  <2>1. n - 1 \in Int /\ n \in Int /\ 1 \in Int /\ (n - 1) - 1 + 1 = n - 1
    BY <1>1
  <2>2. IsFiniteSet(1..n) /\ IsFiniteSet(D)
    BY <2>1, FS_Interval
  <2>3. Cardinality(D) = IF 1 > n - 1 THEN 0 ELSE (n - 1) - 1 + 1
    BY <2>1, FS_Interval
  <2>. QED BY <1>1, <2>1, <2>2, <2>3
<1>3. ASSUME NEW k \in D
      PROVE  /\ P[k] \in Int /\ R[k] \in Int /\ Q[k] \in Int /\ W[k] \in Int /\ E[k] \in 0..Whole
             /\ R[k] = rest * P[k] /\ W[k] = Whole * Q[k] /\ R[k] = W[k] + E[k]
  <2>1. k \in 1..n /\ p[k] \in Int
    BY <1>1
  <2>2. rest * p[k] \in Int
    BY <2>1
  <2>3. Q[k] \in Int /\ R[k] - Whole * Q[k] \in 0..Whole
    BY <2>2, Rounded
  <2>4. Whole * Q[k] \in Int
    BY <2>3 DEF Whole
  <2>5. P[k] = p[k] /\ R[k] = rest * p[k] /\ W[k] = Whole * Q[k] /\ E[k] = R[k] - W[k]
    OBVIOUS
  <2>. HIDE DEF P, Q, R, W, E
  <2>. QED BY <2>1, <2>2, <2>3, <2>4, <2>5
<1>4. Shares(p, rest) = shares
  <2>1. Shares(p, rest) = [i \in 1..n |-> IF i < n THEN (rest * p[i]) \div Whole ELSE last]
    BY DEF Shares
  <2>2. \A i \in 1..n : i < n => Q[i] = (rest * p[i]) \div Whole
    BY <1>1
  <2>. HIDE DEF Q, last
  <2>. QED BY <2>1, <2>2
<1>5. /\ \A i \in D : i \in 1..n /\ shares[i] = Q[i]
      /\ n \in 1..n /\ shares[n] = last
      /\ (1..n) \ {n} = D
      /\ \A i \in 1..n : i = n \/ i \in D
  <2>1. \A i \in 1..n : shares[i] = IF i < n THEN Q[i] ELSE last
    OBVIOUS
  <2>. HIDE DEF Q, last, shares
  <2>. QED BY <1>1, <2>1
<1>6. SumSeq(Q) = SumUp(D, Q) /\ SumUp(D, Q) \in Int
  <2>1. SumSeq(Q) = SumUp(D, Q)
    <3>1. DOMAIN Q = D
      OBVIOUS
    <3>. HIDE DEF Q, D
    <3>. QED BY <3>1, FoldAllIsSum DEF SumSeq
  <2>2. \A k \in D : Q[k] \in Int
    BY <1>3
  <2>. HIDE DEF Q, D
  <2>. QED BY <1>2, <2>1, <2>2, SumIsInt
<1>7. last \in Int /\ last = rest - SumUp(D, Q)
  BY <1>6
<1>8. /\ shares \in Seq(Int) /\ DOMAIN shares = 1..n /\ Len(shares) = n
      /\ \A i \in 1..n : shares[i] \in Int
  <2>1. \A i \in 1..n : shares[i] \in Int
    BY <1>3, <1>5, <1>7
  <2>2. DOMAIN shares = 1..n /\ shares = [i \in 1..n |-> shares[i]]
    OBVIOUS
  <2>. HIDE DEF shares, n
  <2>3. shares \in [1..n -> Int]
    BY <2>1, <2>2
  <2>4. shares \in Seq(Int)
    <3>1. \A f \in [1..n -> Int] : f \in Seq(Int)
      BY <1>1
    <3>. QED BY <2>3, <3>1
  <2>5. Len(shares) = n
    BY <1>1, <2>2, <2>4
  <2>. QED BY <2>1, <2>2, <2>4, <2>5
<1>. DEFINE sp == SumUp(D, P)
            sq == SumUp(D, Q)
            se == SumUp(D, E)
<1>9. sp \in Int /\ sq \in Int /\ se \in 0..(Whole * (n - 1))
  <2>1. Whole \in Nat
    BY DEF Whole
  <2>2. /\ \A k \in D : P[k] \in Int
        /\ \A k \in D : Q[k] \in Int
        /\ \A k \in D : E[k] \in 0..Whole
    BY <1>3
  <2>. HIDE DEF P, Q, E, D
  <2>. QED BY <1>2, <2>1, <2>2, SumIsInt, SumBounded
<1>10. rest * sp = Whole * sq + se
  <2>1. SumUp(D, R) = rest * sp
    <3>. HIDE DEF P, R, D
    <3>. QED BY <1>2, <1>3, SumScales
  <2>2. SumUp(D, W) = Whole * sq
    <3>1. Whole \in Int
      BY DEF Whole
    <3>. HIDE DEF Q, W, D
    <3>. QED BY <1>2, <1>3, <3>1, SumScales
  <2>3. SumUp(D, R) = SumUp(D, W) + se
    <3>1. \A k \in D : W[k] \in Int /\ E[k] \in Int /\ R[k] = W[k] + E[k]
      BY <1>3
    <3>. HIDE DEF R, W, E, D
    <3>. QED BY <1>2, <3>1, SumOfSums
  <2>. QED BY <2>1, <2>2, <2>3
<1>11. SumSeq(shares) = rest
  <2>1. SumUp(D, shares) = SumUp(D, Q)
    <3>. HIDE DEF Q, D, shares
    <3>. QED BY <1>2, <1>5, SumSame
  <2>. HIDE DEF D, shares, last, n, Q
  <2>2. SumSeq(shares) = SumUp(1..n, shares)
    BY <1>8, SeqIsSummed
  <2>3. SumUp(1..n, shares) = shares[n] + SumUp((1..n) \ {n}, shares)
    <3>1. IsFiniteSet(1..n) /\ n \in 1..n /\ \A i \in 1..n : shares[i] \in Int
      BY <1>2, <1>5, <1>8
    <3>. QED BY <3>1, SumTakes
  <2>4. SumSeq(shares) = last + SumUp(D, Q)
    BY <1>5, <2>1, <2>2, <2>3
  <2>. QED BY <1>6, <1>7, <2>4
<1>12. sp + p[n] \in (Whole - 1)..(Whole + 1)
  <2>1. SumSeq(p) \in (Whole - 1)..(Whole + 1)
    BY DEF ValidPercents
  <2>2. SumUp(D, p) = SumUp(D, P)
    <3>1. \A k \in D : p[k] = P[k]
      OBVIOUS
    <3>. HIDE DEF P, D
    <3>. QED BY <1>2, <3>1, SumSame
  <2>3. SumSeq(p) = SumUp(1..n, p)
    BY SeqIsSummed
  <2>. HIDE DEF P, D, n, sp
  <2>4. SumUp(1..n, p) = p[n] + SumUp((1..n) \ {n}, p)
    BY <1>1, <1>2, <1>5, SumTakes
  <2>5. SumUp((1..n) \ {n}, p) = sp
    BY <1>5, <2>2 DEF sp
  <2>6. p[n] \in Int
    BY <1>1, <1>5
  <2>. QED BY <1>9, <2>1, <2>3, <2>4, <2>5, <2>6
<1>13. spare \in Int /\ dist \in Nat /\ -dist <= rest /\ rest <= dist /\ Whole * (n - 1) <= Whole * n
  BY <1>1 DEF Whole
<1>14. ASSUME NEW i \in D PROVE Whole * shares[i] - rest * p[i] \in -spare..spare
  <2>1. rest * p[i] = Whole * Q[i] + E[i] /\ E[i] \in 0..Whole /\ Q[i] \in Int
    BY <1>3
  <2>2. shares[i] = Q[i] /\ n \in Nat \ {0}
    BY <1>1, <1>5
  <2>. HIDE DEF E, Q, shares, D, dist, n
  <2>3. Whole * shares[i] - rest * p[i] = -E[i]
    <3>1. \A q, e \in Int : Whole * q - (Whole * q + e) = -e
      BY DEF Whole
    <3>2. E[i] \in Int
      <4>1. \A e \in 0..Whole : e \in Int
        BY DEF Whole
      <4>. QED BY <2>1, <4>1
    <3>. QED BY <2>1, <2>2, <3>1, <3>2
  <2>4. \A e \in 0..Whole : -e \in -spare..spare
    BY <1>13, <2>2 DEF Whole
  <2>. HIDE DEF spare
  <2>. QED BY <2>1, <2>3, <2>4
<1>15. Whole * shares[n] - rest * p[n] \in -spare..spare
  <2>. DEFINE d == Whole - (sp + p[n])
  <2>. HIDE DEF E, Q, P, R, W, shares, D, dist, n, sp, sq, se, last
  <2>1. d \in {-1, 0, 1} /\ p[n] = Whole - d - sp /\ p[n] \in Int
    BY <1>1, <1>5, <1>9, <1>12 DEF Whole
  <2>. HIDE DEF d
  <2>2. rest * d \in Int /\ rest * sp \in Int /\ rest * d \in {-rest, 0, rest}
    <3>1. rest * (-1) = -rest /\ rest * 0 = 0 /\ rest * 1 = rest
      OBVIOUS
    <3>. QED BY <1>9, <2>1, <3>1
  <2>3. rest * p[n] = Whole * rest - rest * d - rest * sp
    <3>1. \A x, y \in Int : rest * (Whole - x - y) = Whole * rest - rest * x - rest * y
      BY DEF Whole
    <3>. QED BY <1>9, <2>1, <3>1
  <2>4. shares[n] = rest - sq
    BY <1>5, <1>7 DEF sq
  <2>5. Whole * shares[n] - rest * p[n] = rest * d + se
    <3>1. se \in Int
      BY <1>9 DEF Whole
    <3>2. \A a, b, q, e \in Int :
            a = Whole * q + e => Whole * (rest - q) - (Whole * rest - b - a) = b + e
      BY DEF Whole
    <3>. QED BY <1>9, <1>10, <2>2, <2>3, <2>4, <3>1, <3>2
  <2>6. rest * d + se \in -spare..spare
    <3>. DEFINE b == rest * d
    <3>1. b \in {-rest, 0, rest} /\ -dist <= rest /\ rest <= dist /\ dist \in Nat /\ b \in Int
      BY <1>13, <2>2
    <3>. HIDE DEF b
    <3>2. -dist <= b /\ b <= dist
      BY <3>1
    <3>3. 0 <= se /\ se <= Whole * n /\ se \in Int
      BY <1>1, <1>9 DEF Whole
    <3>4. b + se \in -spare..spare
      BY <1>1, <3>1, <3>2, <3>3 DEF Whole
    <3>. QED BY <3>4 DEF b
  <2>. QED BY <2>5, <2>6
<1>. QED BY <1>4, <1>5, <1>8, <1>11, <1>14, <1>15

\* A definition that Validate lets through and that shares what is left.
LEMMA AllocateFoots ==
  ASSUME NEW x \in Contents, Accepted(x), x.def.percent # << >>, NEW total \in Int
  PROVE  LET rest   == Remainder(x.def, total)
             shares == Shares(x.def.percent, rest)
             spare  == Whole * Len(x.def.percent) + (IF rest < 0 THEN -rest ELSE rest)
         IN /\ SumSeq(Allocate(x.def, total)) = total
            /\ \A i \in DOMAIN shares :
                 Whole * shares[i] - rest * Asked(x.def.percent)[i] \in -spare..spare
<1>. DEFINE def == x.def
            p == def.percent
            rest == Remainder(def, total)
            shares == Shares(p, rest)
            dist == IF rest < 0 THEN -rest ELSE rest
            spare == Whole * Len(p) + dist
<1>1. def.fixed \in Seq(Int) /\ p \in Seq(Int) /\ p # << >> /\ ValidPercents(p)
  BY RulesAssumption DEF Accepted, Validate
<1>. HIDE DEF def
<1>2. SumSeq(def.fixed) \in Int /\ rest \in Int /\ rest = total - SumSeq(def.fixed)
  BY <1>1, SeqIsSummed DEF Remainder
<1>. HIDE DEF p, rest
<1>3. /\ shares \in Seq(Int) /\ SumSeq(shares) = rest
      /\ \A i \in DOMAIN shares : Whole * shares[i] - rest * Asked(p)[i] \in -spare..spare
  <2>1. CASE p = << 0 >>
    <3>. DEFINE lone == Shares(<< 0 >>, rest)
    <3>1. /\ lone \in Seq(Int) /\ SumSeq(lone) = rest /\ DOMAIN lone = {1}
          /\ Whole * lone[1] - rest * Asked(<< 0 >>)[1] = 0
      BY <1>2, LoneShare
    <3>2. 0 \in -spare..spare
      <4>1. Len(p) \in Nat /\ dist \in Nat
        BY <1>1, <1>2
      <4>. HIDE DEF dist
      <4>. QED BY <4>1 DEF Whole
    <3>3. lone = shares
      BY <2>1
    <3>. HIDE DEF lone, spare
    <3>4. \A i \in DOMAIN lone : Whole * lone[i] - rest * Asked(<< 0 >>)[i] \in -spare..spare
      BY <3>1, <3>2
    <3>. QED BY <2>1, <3>1, <3>3, <3>4
  <2>2. CASE p # << 0 >>
    <3>1. /\ shares \in Seq(Int) /\ DOMAIN shares = 1..Len(p) /\ SumSeq(shares) = rest
          /\ \A i \in 1..Len(p) : Whole * shares[i] - rest * p[i] \in -spare..spare
      BY <1>1, <1>2, <2>2, SharesFoot
    <3>2. Asked(p) = p
      BY <2>2 DEF Asked
    <3>. HIDE DEF shares, spare
    <3>. QED BY <3>1, <3>2
  <2>. QED BY <2>1, <2>2
<1>4. SumSeq(Allocate(def, total)) = total
  <2>1. CASE Swallows(def)
    <3>1. Allocate(def, total) = <<total>>
      BY <2>1 DEF Allocate
    <3>2. Shares(<< 0 >>, total) = <<total>>
      BY DEF Shares
    <3>. QED BY <3>1, <3>2, LoneShare
  <2>2. CASE ~Swallows(def)
    <3>1. Allocate(def, total) = def.fixed \o shares
      BY <2>2 DEF Allocate, p, rest
    <3>. HIDE DEF shares
    <3>2. SumSeq(def.fixed \o shares) = SumSeq(def.fixed) + SumSeq(shares)
      BY <1>1, <1>3, SumJoins
    <3>. QED BY <1>2, <1>3, <3>1, <3>2
  <2>. QED BY <2>1, <2>2
<1>. QED BY <1>3, <1>4 DEF def, p, rest

\* What the table keeps is what Create or Update let through.
LetIn == \A r \in Rules :
         rule[r].state = "kept" => rule[r].content \in Contents /\ Accepted(rule[r].content)

LEMMA LetKeeps ==
  ASSUME RulesInv, LetIn, [RulesNext]_ruleVars
  PROVE  LetIn'
<1>1. ASSUME NEW r \in Rules, NEW x \in Contents, CreateRule(r, x) PROVE LetIn'
  <2>. DEFINE last == IF InList = {} THEN 0 ELSE Max({rule[q].order : q \in InList}) + 1
              row == [state |-> "kept", order |-> last, content |-> x]
  <2>1. rule' = [rule EXCEPT ![r] = row] /\ Accepted(x)
    BY <1>1 DEF CreateRule
  <2>2. row.content = x
    OBVIOUS
  <2>. HIDE DEF last, row
  <2>. QED BY <2>1, <2>2 DEF RulesInv, LetIn
<1>2. ASSUME NEW r \in Rules, NEW x \in Contents, UpdateRule(r, x) PROVE LetIn'
  <2>1. /\ rule' = [rule EXCEPT ![r] = [rule[r] EXCEPT !.content = x]] /\ Accepted(x)
        /\ rule[r] \in RuleRow
    BY <1>2 DEF UpdateRule, RulesInv
  <2>2. [rule[r] EXCEPT !.content = x].content = x
    BY <2>1 DEF RuleRow
  <2>. QED BY <2>1, <2>2 DEF RulesInv, LetIn
<1>3. ASSUME NEW r \in Rules, DeleteRule(r) PROVE LetIn'
  <2>1. rule' = [rule EXCEPT ![r] = [NoRow EXCEPT !.state = "gone"]]
    BY <1>3 DEF DeleteRule
  <2>2. [NoRow EXCEPT !.state = "gone"].state = "gone"
    BY DEF NoRow
  <2>. QED BY <2>1, <2>2 DEF RulesInv, LetIn
<1>4. ASSUME NEW d \in Draggers, CommitReorder(d) PROVE LetIn'
  <2>1. \A r \in Rules : rule'[r].state = rule[r].state /\ rule'[r].content = rule[r].content
    <3>1. \A row \in RuleRow : \A n : /\ [row EXCEPT !.order = n].state = row.state
                                     /\ [row EXCEPT !.order = n].content = row.content
      BY DEF RuleRow
    <3>. QED BY <1>4, <3>1 DEF CommitReorder, RulesInv
  <2>. QED BY <2>1 DEF LetIn
<1>5. ASSUME UNCHANGED rule PROVE LetIn'
  BY <1>5 DEF LetIn
<1>. QED BY <1>1, <1>2, <1>3, <1>4, <1>5 DEF RulesNext, OpenList, ReorderRow, GiveUpReorder, ruleVars

LEMMA LetFoots == LetIn => SplitsFoot
<1>. SUFFICES ASSUME LetIn, NEW r \in InList, rule[r].content.def.percent # << >>,
                     NEW total \in Totals
              PROVE  LET def    == rule[r].content.def
                         rest   == Remainder(def, total)
                         shares == Shares(def.percent, rest)
                         spare  == Whole * Len(def.percent) + (IF rest < 0 THEN -rest ELSE rest)
                     IN /\ SumSeq(Allocate(def, total)) = total
                        /\ \A i \in DOMAIN shares :
                             Whole * shares[i] - rest * Asked(def.percent)[i] \in -spare..spare
  BY DEF SplitsFoot
<1>1. rule[r].content \in Contents /\ Accepted(rule[r].content) /\ total \in Int
  BY RulesAssumption DEF InList, LetIn
<1>. QED BY <1>1, AllocateFoots

\* "the split sums to the total and the resulting journal still balances" (Allocate),
\* for every rule that Validate lets into the table, every amount it may be asked to
\* split and any number of lines; and no line but for rounding gets another share than
\* the one it asks for.
THEOREM SplitsAlwaysFoot == RulesSpec => []SplitsFoot
<1>1. RulesInit => LetIn
  BY DEF RulesInit, LetIn, NoRow
<1>2. RulesInv /\ LetIn /\ [RulesNext]_ruleVars => LetIn'
  BY LetKeeps
<1>. QED BY <1>1, <1>2, LetFoots, RulesBegin, RulesKeep, PTL DEF RulesSpec

(***************************************************************************)
(* The parts side by side.  They share no table, so that a step of the     *)
(* office is a step of one of them and none of any other: what each        *)
(* guarantees on its own, it guarantees there.                             *)
(***************************************************************************)
\* A behaviour of the office is one of each of its parts: what is proved of a part holds
\* whichever other parts are at work.
THEOREM OfficeParts ==
  OfficeSpec => /\ ConnSpec /\ SessionsSpec /\ ConversionSpec /\ ImportsSpec /\ PeriodsSpec
                /\ ReportsSpec /\ CashSpec /\ AgedSpec /\ RulesSpec
<1>1. OfficeInit => /\ ConnInit /\ SessionsInit /\ ConversionInit /\ ImportsInit /\ PeriodsInit
                    /\ ReportsInit /\ CashInit /\ AgedInit /\ RulesInit
  BY DEF OfficeInit
<1>2. [OfficeNext]_officeVars =>
        /\ [ConnNext]_connVars /\ [SessionsNext]_sessionVars /\ [ConversionNext]_conversionVars
        /\ [ImportsNext]_importVars /\ [PeriodsNext]_periodVars /\ [ReportsNext]_reportVars
        /\ [CashNext]_cashVars /\ [AgedNext]_agedVars /\ [RulesNext]_ruleVars
  BY DEF OfficeNext, officeVars, bookkeepingVars, paperVars
<1>. QED BY <1>1, <1>2, PTL DEF OfficeSpec, ConnSpec, SessionsSpec, ConversionSpec, ImportsSpec,
       PeriodsSpec, ReportsSpec, CashSpec, AgedSpec, RulesSpec

\* The conversion date is one that was saved.
OrgTyped == org \in [date : BalanceDates \cup {NoDate}, locked : BOOLEAN]

LEMMA OrgTypedStep == ConversionInv /\ OrgTyped /\ [ConversionNext]_conversionVars => OrgTyped'
<1>1. ASSUME ConversionInv, NEW r \in Savers, CommitSave(r) PROVE OrgTyped'
  <2>1. saver[r] \in SaveRow /\ saver[r].date \in BalanceDates
    BY <1>1 DEF ConversionInv, CommitSave, Journalled
  <2>. QED BY <1>1, <2>1 DEF CommitSave, OrgTyped, SaveRow
<1>. QED BY <1>1 DEF ConversionNext, conversionVars, OrgTyped, OpenScreen, UpdateOrganisation,
       DeleteOpening, AbandonSave

LEMMA ConversionTyped == ConversionInv /\ OrgTyped => ConversionTypeOK
<1>1. ASSUME NEW lines \in JournalLines PROVE IsJournal(lines)
  BY DEF JournalLines, IsJournal
<1>. QED BY <1>1 DEF ConversionInv, OrgTyped, ConversionTypeOK, Opening, SaveRow

LEMMA RulesTyped == RulesInv => RulesTypeOK
<1>. SUFFICES ASSUME RulesInv PROVE RulesTypeOK
  OBVIOUS
<1>1. Range(asked) \subseteq Rules
  BY DEF RulesInv, Range
<1>2. ASSUME NEW d \in Draggers
      PROVE  drag[d].at \in {"idle", "page"} /\ drag[d].wrote \subseteq 1..(drag[d].next - 1)
  BY DEF RulesInv, Page, Paged
<1>. QED BY <1>1, <1>2 DEF RulesInv, RuleRow, RulesTypeOK

\* Every row of every table that the parts keep, and whatever a request has read of one,
\* has its type in every reachable state.
THEOREM OfficeTypes == OfficeSpec => []OfficeTypeOK
<1>1. SessionsSpec => []SessionsTypeOK
  <2>1. SessionsInit => SessionsInv /\ SeenInUse
    BY SessionsBegin DEF SessionsInit, SeenInUse, AtRest
  <2>2. SessionsInv /\ SeenInUse /\ [SessionsNext]_sessionVars => (SessionsInv /\ SeenInUse)'
    BY SessionsStep, SeenStaysInUse
  <2>3. SessionsInv => SessionsTypeOK
    BY DEF SessionsInv
  <2>. QED BY <2>1, <2>2, <2>3, PTL DEF SessionsSpec
<1>2. ConversionSpec => []ConversionTypeOK
  <2>1. ConversionInit => OrgTyped
    BY DEF ConversionInit, OrgTyped
  <2>. QED BY <2>1, ConversionBegins, ConversionKeeps, OrgTypedStep, ConversionTyped, PTL
       DEF ConversionSpec
<1>3. ImportsSpec => []ImportsTypeOK
  <2>1. ImportsInv => ImportsTypeOK
    BY DEF ImportsInv
  <2>. QED BY <2>1, ImportsBegin, ImportsKeep, PTL DEF ImportsSpec
<1>4. PeriodsSpec => []PeriodsTypeOK
  <2>1. PeriodsInv => PeriodsTypeOK
    BY DEF PeriodsInv
  <2>. QED BY <2>1, PeriodsBegin, PeriodsStep, PTL DEF PeriodsSpec
<1>5. RulesSpec => []RulesTypeOK
  BY RulesBegin, RulesKeep, RulesTyped, PTL DEF RulesSpec
<1>6. OfficeTypeOK <=> /\ ConnTypeOK /\ SessionsTypeOK /\ ConversionTypeOK /\ ImportsTypeOK
                       /\ PeriodsTypeOK /\ RulesTypeOK
  BY DEF OfficeTypeOK
<1>. QED BY <1>1, <1>2, <1>3, <1>4, <1>5, <1>6, OfficeParts, ConnTypes, PTL
=============================================================================
