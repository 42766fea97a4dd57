------------------------ MODULE FeedConnectionsProofs ------------------------
(***************************************************************************)
(* The properties of FeedConnections, for every number of connections,     *)
(* banks, sessions, consents and requests.                                 *)
(*                                                                         *)
(* First what every action does, without EXCEPT: to the row, the account,  *)
(* the request, the session and the consent it writes.  Then six           *)
(* invariants, each inductive with those before it:                        *)
(*                                                                         *)
(*   ConnFit      types, and requests that fit the rows they name          *)
(*   OpenedOnce   an account without a ledger account never had one        *)
(*   Down         nothing is under way that could revive a revoked consent *)
(*   Consents     who holds a consent and who waits for a session          *)
(*   StoredRight  the row, its requests and its consent name one bank      *)
(*   OneAtBank    who is, or is about to be, live at a bank                *)
(***************************************************************************)
EXTENDS FeedConnections, TLAPS

(***************************************************************************)
(* The inductive invariant                                                 *)
(***************************************************************************)

\* A request names a connection once it has one, and a row that is there.
TasksFit ==
  \A t \in Tasks :
    /\ task[t].at \in {"idle", "insert"} => task[t].conn = NoConn
    /\ task[t].at \in {"idle", "insert", "open"} =>
         task[t].link = NoLink /\ task[t].item = NoItem
    /\ task[t].at \notin {"idle", "insert"} =>
         task[t].conn \in Conns /\ conn[task[t].conn].status # "ABSENT"
    /\ task[t].at \in {"persist", "provision", "store", "mark", "reopen"} =>
         task[t].item \in Items

RowsFit ==
  \A c \in Conns :
    conn[c].status = "ABSENT" => conn[c].link = NoLink /\ conn[c].item = NoItem

ConnFit == ConnTypeOK /\ TasksFit /\ RowsFit

\* What is held for a connection: by its row, or by a request under way on it.
Holds(c, k) == conn[c].item = k \/ \E t \in Tasks : task[t].conn = c /\ task[t].item = k
Waits(c, l) == conn[c].link = l \/ \E t \in Tasks : task[t].conn = c /\ task[t].link = l

\* A session that was opened to give a first consent, and has not.
Unused(l) == link[l].item = NoItem /\ ~link[l].spent

\* A consent is held for one connection, a connection holds one, and both are given.
OneConsent ==
  /\ \A c, d \in Conns : \A k \in Items : Holds(c, k) /\ Holds(d, k) => c = d
  /\ \A c \in Conns : \A j, k \in Items : Holds(c, j) /\ Holds(c, k) => j = k
  /\ \A c \in Conns : \A k \in Items : Holds(c, k) => item[k].state # "none"

\* A connection waits for one first session, and holds nothing until it is exchanged.
OneSession ==
  /\ \A l \in Links : link[l].state = "none" =>
       Unused(l) /\ \A c \in Conns : ~Waits(c, l)
  /\ \A c \in Conns : \A l, m \in Links :
       Waits(c, l) /\ Waits(c, m) /\ link[l].item = NoItem /\ link[m].item = NoItem => l = m
  /\ \A c \in Conns : \A l \in Links : \A k \in Items : Waits(c, l) /\ Unused(l) => ~Holds(c, k)

\* A request that opens the first session is alone, and comes before everything else.
OpeningFirst ==
  \A t \in Tasks : task[t].at = "open" =>
    /\ \A l \in Links : ~Waits(task[t].conn, l)
    /\ \A k \in Items : ~Holds(task[t].conn, k)
    /\ \A u \in Tasks : task[u].at = "open" /\ task[u].conn = task[t].conn => u = t

\* The three support each other: an exchange needs a session waited for.
Consents == OneConsent /\ OneSession /\ OpeningFirst

\* A row and the requests about to write to it agree with the consent they hold, and
\* a row that is synced, or works, holds one.
StoredRight ==
  /\ \A c \in Conns : \A k \in Items : conn[c].item = k => conn[c].bank = item[k].bank
  /\ \A t \in Tasks : task[t].at \in {"persist", "provision", "store", "mark"} =>
       task[t].bank = item[task[t].item].bank
  /\ \A t \in Tasks : task[t].at = "mark" /\ Exists(task[t].conn) =>
       conn[task[t].conn].item = task[t].item
  /\ \A t \in Tasks :
       task[t].at \in {"listed", "bind", "pull", "synced", "broken"} /\ Exists(task[t].conn) =>
         conn[task[t].conn].item # NoItem
  /\ \A c \in Conns : conn[c].status = "LINKED" => conn[c].item # NoItem

\* Until a user unbinds it, an account without a ledger account never had one.
OpenedOnce ==
  \A c \in Conns : c \notin released =>
    /\ account[c].opened <= 1
    /\ conn[c].status # "DELETED" /\ ~account[c].bound => account[c].opened = 0

LiveRow(c) == conn[c].status \in {"PENDING", "LINKED"}
Past(t) == task[t].at \in {"insert", "provision", "store", "mark"}

\* While no two requests have been past the check for one bank, at most one is, and a
\* live connection there is that request's own.
OneAtBank ==
  ~raced /\ revived = {} =>
    \A bank \in Banks :
      /\ \A c, d \in Conns : LiveRow(c) /\ LiveRow(d) /\ conn[c].bank = bank /\ conn[d].bank = bank
        => c = d
      /\ \A t, u \in Tasks : Past(t) /\ Past(u) /\ task[t].bank = bank /\ task[u].bank = bank
        => t = u
      /\ \A t \in Tasks : \A c \in Conns :
           Past(t) /\ task[t].bank = bank /\ LiveRow(c) /\ conn[c].bank = bank => task[t].conn = c

Over(k) == k \in Items /\ item[k].state \in {"revoked", "removed"}

\* A connection told of its revocation is not about to work again: what is under way
\* on it needs a consent that is over, or removes it.
Down ==
  /\ \A k \in Items : "REVOKED" \in item[k].news => Over(k)
  /\ \A c \in told \ crossed :
       /\ conn[c].status \notin {"LINKED", "ABSENT"}
       /\ Exists(c) => Over(conn[c].item)
       /\ \A t \in Tasks : task[t].conn = c =>
            /\ task[t].at \in {"complete", "reopen", "giveUp", "drop"}
            /\ task[t].at \in {"complete", "reopen"} => Over(task[t].item)

(***************************************************************************)
(* What a step does to a row, a request, a session and a consent           *)
(***************************************************************************)
RowSet == [status : Statuses \cup {"ABSENT", "DELETED"}, bank : Banks \cup {NoBank},
           link : Links \cup {NoLink}, item : Items \cup {NoItem}]
TaskSet == [at : Steps, conn : Conns \cup {NoConn}, bank : Banks \cup {NoBank},
            link : Links \cup {NoLink}, item : Items \cup {NoItem}]
LinkSet == [state : {"none", "open", "done"}, bank : Banks \cup {NoBank},
            item : Items \cup {NoItem}, spent : BOOLEAN]
ItemSet == [state : {"none", "live", "broken", "revoked", "removed"},
            bank : Banks \cup {NoBank}, news : SUBSET {"ERROR", "REVOKED"}]
AccountSet == [found : BOOLEAN, bound : BOOLEAN, opened : Nat]

RowBecomes(c, status, bank, l, k) ==
  /\ conn' \in [Conns -> RowSet]
  /\ conn'[c].status = status /\ conn'[c].bank = bank
  /\ conn'[c].link = l /\ conn'[c].item = k
  /\ \A d \in Conns : d # c => conn'[d] = conn[d]

TaskBecomes(t, at, c, bank, l, k) ==
  /\ task' \in [Tasks -> TaskSet]
  /\ task'[t].at = at /\ task'[t].conn = c /\ task'[t].bank = bank
  /\ task'[t].link = l /\ task'[t].item = k
  /\ \A u \in Tasks : u # t => task'[u] = task[u]

LinkBecomes(l, state, bank, k, spent) ==
  /\ link' \in [Links -> LinkSet]
  /\ link'[l].state = state /\ link'[l].bank = bank
  /\ link'[l].item = k /\ link'[l].spent = spent
  /\ \A m \in Links : m # l => link'[m] = link[m]

ItemBecomes(k, state, bank, news) ==
  /\ item' \in [Items -> ItemSet]
  /\ item'[k].state = state /\ item'[k].bank = bank /\ item'[k].news = news
  /\ \A j \in Items : j # k => item'[j] = item[j]

AccountBecomes(c, found, bound, opened) ==
  /\ account' \in [Conns -> AccountSet]
  /\ account'[c].found = found /\ account'[c].bound = bound /\ account'[c].opened = opened
  /\ \A d \in Conns : d # c => account'[d] = account[d]

Typed ==
  /\ conn \in [Conns -> RowSet] /\ account \in [Conns -> AccountSet]
  /\ task \in [Tasks -> TaskSet] /\ link \in [Links -> LinkSet] /\ item \in [Items -> ItemSet]
  /\ raced \in BOOLEAN /\ revived \subseteq Conns /\ released \subseteq Conns
  /\ told \subseteq Conns /\ crossed \subseteq Conns

LEMMA TypeSets == ConnTypeOK <=> Typed
BY DEF ConnTypeOK, Typed, RowSet, TaskSet, LinkSet, ItemSet, AccountSet

LEMMA TaskWritten ==
  ASSUME ConnTypeOK, NEW t \in Tasks, NEW q \in TaskSet, task' = [task EXCEPT ![t] = q]
  PROVE  TaskBecomes(t, q.at, q.conn, q.bank, q.link, q.item)
BY TypeSets DEF Typed, TaskBecomes

LEMMA RowWritten ==
  ASSUME ConnTypeOK, NEW c \in Conns, NEW q \in RowSet, conn' = [conn EXCEPT ![c] = q]
  PROVE  RowBecomes(c, q.status, q.bank, q.link, q.item)
BY TypeSets DEF Typed, RowBecomes

LEMMA LinkWritten ==
  ASSUME ConnTypeOK, NEW l \in Links, NEW q \in LinkSet, link' = [link EXCEPT ![l] = q]
  PROVE  LinkBecomes(l, q.state, q.bank, q.item, q.spent)
BY TypeSets DEF Typed, LinkBecomes

LEMMA ItemWritten ==
  ASSUME ConnTypeOK, NEW k \in Items, NEW q \in ItemSet, item' = [item EXCEPT ![k] = q]
  PROVE  ItemBecomes(k, q.state, q.bank, q.news)
BY TypeSets DEF Typed, ItemBecomes

LEMMA AccountWritten ==
  ASSUME ConnTypeOK, NEW c \in Conns, NEW q \in AccountSet, account' = [account EXCEPT ![c] = q]
  PROVE  AccountBecomes(c, q.found, q.bound, q.opened)
BY TypeSets DEF Typed, AccountBecomes

\* The fields of a row, typed.
LEMMA RowFields ==
  ASSUME ConnTypeOK
  PROVE  /\ \A c \in Conns :
              /\ conn[c] \in RowSet /\ account[c] \in AccountSet
              /\ conn[c].status \in Statuses \cup {"ABSENT", "DELETED"}
              /\ conn[c].bank \in Banks \cup {NoBank}
              /\ conn[c].link \in Links \cup {NoLink} /\ conn[c].item \in Items \cup {NoItem}
         /\ \A t \in Tasks :
              /\ task[t] \in TaskSet /\ task[t].at \in Steps
              /\ task[t].conn \in Conns \cup {NoConn} /\ task[t].bank \in Banks \cup {NoBank}
              /\ task[t].link \in Links \cup {NoLink} /\ task[t].item \in Items \cup {NoItem}
         /\ \A l \in Links :
              /\ link[l] \in LinkSet /\ link[l].state \in {"none", "open", "done"}
              /\ link[l].bank \in Banks \cup {NoBank}
              /\ link[l].item \in Items \cup {NoItem} /\ link[l].spent \in BOOLEAN
         /\ \A k \in Items :
              /\ item[k] \in ItemSet /\ item[k].bank \in Banks \cup {NoBank}
              /\ item[k].state \in {"none", "live", "broken", "revoked", "removed"}
              /\ item[k].news \in SUBSET {"ERROR", "REVOKED"}
         /\ \A c \in Conns :
              /\ account[c].found \in BOOLEAN /\ account[c].bound \in BOOLEAN
              /\ account[c].opened \in Nat
<1>. USE TypeSets DEF Typed
<1>1. \A c \in Conns : conn[c] \in RowSet /\ account[c] \in AccountSet
  OBVIOUS
<1>2. \A t \in Tasks : task[t] \in TaskSet
  OBVIOUS
<1>3. \A l \in Links : link[l] \in LinkSet
  OBVIOUS
<1>4. \A k \in Items : item[k] \in ItemSet
  OBVIOUS
<1>. QED BY <1>1, <1>2, <1>3, <1>4 DEF RowSet, TaskSet, LinkSet, ItemSet, AccountSet

LEMMA Going ==
  ASSUME ConnTypeOK, NEW t \in Tasks, NEW at \in Steps, Go(t, at)
  PROVE  TaskBecomes(t, at, task[t].conn, task[t].bank, task[t].link, task[t].item)
<1>. DEFINE q == [task[t] EXCEPT !.at = at]
<1>0. task[t] \in TaskSet
  BY RowFields
<1>1. /\ q \in TaskSet /\ q.at = at /\ q.conn = task[t].conn /\ q.bank = task[t].bank
      /\ q.link = task[t].link /\ q.item = task[t].item
  BY <1>0 DEF TaskSet
<1>2. task' = [task EXCEPT ![t] = q]
  BY DEF Go
<1>. HIDE DEF q
<1>. QED BY <1>1, <1>2, TaskWritten

LEMMA Finishing ==
  ASSUME ConnTypeOK, NEW t \in Tasks, Finish(t)
  PROVE  TaskBecomes(t, "idle", NoConn, NoBank, NoLink, NoItem)
<1>1. Idle \in TaskSet
  BY DEF Idle, TaskSet, Steps
<1>. QED BY <1>1, TaskWritten DEF Finish, Idle

LEMMA Starting ==
  ASSUME ConnTypeOK, NEW t \in Tasks, NEW at \in Steps, NEW c \in Conns,
           NEW k \in Items \cup {NoItem},
         task' = [task EXCEPT ![t] = [Idle EXCEPT !.at = at, !.conn = c, !.item = k]]
  PROVE  TaskBecomes(t, at, c, NoBank, NoLink, k)
<1>. DEFINE q == [Idle EXCEPT !.at = at, !.conn = c, !.item = k]
<1>1. /\ Idle \in TaskSet /\ Idle.bank = NoBank /\ Idle.link = NoLink
  BY DEF Idle, TaskSet, Steps
<1>2. /\ q \in TaskSet /\ q.at = at /\ q.conn = c /\ q.bank = NoBank
      /\ q.link = NoLink /\ q.item = k
  BY <1>1 DEF TaskSet
<1>3. task' = [task EXCEPT ![t] = q]
  OBVIOUS
<1>. HIDE DEF q
<1>. QED BY <1>2, <1>3, TaskWritten

LEMMA Loading ==
  ASSUME ConnTypeOK, NEW t \in Tasks, NEW c \in Conns, Loaded(t, c)
  PROVE  \E at \in {"bind", "pull"} : TaskBecomes(t, at, c, NoBank, NoLink, conn[c].item)
<1>. DEFINE at == IF account[c].found /\ ~account[c].bound THEN "bind" ELSE "pull"
<1>1. at \in {"bind", "pull"} /\ at \in Steps
  BY DEF Steps
<1>2. task' = [task EXCEPT ![t] = [Idle EXCEPT !.at = at, !.conn = c, !.item = conn[c].item]]
  BY DEF Loaded
<1>. HIDE DEF at
<1>. QED BY <1>1, <1>2, RowFields, Starting

LEMMA CompletingTask ==
  ASSUME ConnTypeOK, NEW t \in Tasks, NEW c \in Conns, Completing(t, c)
  PROVE  TaskBecomes(t, "complete", c, NoBank, conn[c].link, conn[c].item)
<1>. DEFINE q == [at |-> "complete", conn |-> c, bank |-> NoBank,
                  link |-> conn[c].link, item |-> conn[c].item]
<1>1. /\ q \in TaskSet /\ q.at = "complete" /\ q.conn = c /\ q.bank = NoBank
      /\ q.link = conn[c].link /\ q.item = conn[c].item
  BY RowFields DEF TaskSet, Steps
<1>2. task' = [task EXCEPT ![t] = q]
  BY DEF Completing
<1>. HIDE DEF q
<1>. QED BY <1>1, <1>2, TaskWritten

LEMMA CheckingTask ==
  ASSUME ConnTypeOK, NEW t \in Tasks, NEW bank \in Banks \cup {NoBank},
         task' = [task EXCEPT ![t] = [Idle EXCEPT !.at = "insert", !.bank = bank]]
  PROVE  TaskBecomes(t, "insert", NoConn, bank, NoLink, NoItem)
<1>. DEFINE q == [Idle EXCEPT !.at = "insert", !.bank = bank]
<1>1. /\ Idle \in TaskSet /\ Idle.conn = NoConn /\ Idle.link = NoLink /\ Idle.item = NoItem
  BY DEF Idle, TaskSet, Steps
<1>2. /\ q \in TaskSet /\ q.at = "insert" /\ q.conn = NoConn /\ q.bank = bank
      /\ q.link = NoLink /\ q.item = NoItem
  BY <1>1 DEF TaskSet, Steps
<1>. HIDE DEF q
<1>. QED BY <1>2, TaskWritten DEF q

LEMMA InsertingTask ==
  ASSUME ConnTypeOK, NEW t \in Tasks, NEW c \in Conns,
         task' = [task EXCEPT ![t].at = "open", ![t].conn = c]
  PROVE  TaskBecomes(t, "open", c, task[t].bank, task[t].link, task[t].item)
<1>. DEFINE q == [task[t] EXCEPT !.at = "open", !.conn = c]
<1>0. task[t] \in TaskSet
  BY RowFields
<1>1. /\ q \in TaskSet /\ q.at = "open" /\ q.conn = c /\ q.bank = task[t].bank
      /\ q.link = task[t].link /\ q.item = task[t].item
  BY <1>0 DEF TaskSet, Steps
<1>2. task' = [task EXCEPT ![t] = q]
  BY TypeSets DEF Typed
<1>. HIDE DEF q
<1>. QED BY <1>1, <1>2, TaskWritten

LEMMA RepairingTask ==
  ASSUME ConnTypeOK, NEW t \in Tasks, NEW bank \in Banks \cup {NoBank},
         task' = [task EXCEPT ![t].at = "persist", ![t].bank = bank]
  PROVE  TaskBecomes(t, "persist", task[t].conn, bank, task[t].link, task[t].item)
<1>. DEFINE q == [task[t] EXCEPT !.at = "persist", !.bank = bank]
<1>0. task[t] \in TaskSet
  BY RowFields
<1>1. /\ q \in TaskSet /\ q.at = "persist" /\ q.conn = task[t].conn /\ q.bank = bank
      /\ q.link = task[t].link /\ q.item = task[t].item
  BY <1>0 DEF TaskSet, Steps
<1>2. task' = [task EXCEPT ![t] = q]
  BY TypeSets DEF Typed
<1>. HIDE DEF q
<1>. QED BY <1>1, <1>2, TaskWritten

LEMMA ExchangingTask ==
  ASSUME ConnTypeOK, NEW t \in Tasks, NEW k \in Items, NEW bank \in Banks \cup {NoBank},
         task' = [task EXCEPT ![t].at = "persist", ![t].item = k, ![t].bank = bank]
  PROVE  TaskBecomes(t, "persist", task[t].conn, bank, task[t].link, k)
<1>. DEFINE q == [task[t] EXCEPT !.at = "persist", !.item = k, !.bank = bank]
<1>0. task[t] \in TaskSet
  BY RowFields
<1>1. /\ q \in TaskSet /\ q.at = "persist" /\ q.conn = task[t].conn /\ q.bank = bank
      /\ q.link = task[t].link /\ q.item = k
  BY <1>0 DEF TaskSet, Steps
<1>2. task' = [task EXCEPT ![t] = q]
  BY TypeSets DEF Typed
<1>. HIDE DEF q
<1>. QED BY <1>1, <1>2, TaskWritten

LEMMA StatusSet ==
  ASSUME ConnTypeOK, NEW c \in Conns, NEW status \in Statuses,
         conn' = [conn EXCEPT ![c].status = status]
  PROVE  RowBecomes(c, status, conn[c].bank, conn[c].link, conn[c].item)
<1>. DEFINE q == [conn[c] EXCEPT !.status = status]
<1>0. conn[c] \in RowSet
  BY RowFields
<1>1. /\ q \in RowSet /\ q.status = status /\ q.bank = conn[c].bank
      /\ q.link = conn[c].link /\ q.item = conn[c].item
  BY <1>0 DEF RowSet
<1>2. conn' = [conn EXCEPT ![c] = q]
  OBVIOUS
<1>. HIDE DEF q
<1>. QED BY <1>1, <1>2, RowWritten

LEMMA RowKept ==
  ASSUME ConnTypeOK, NEW c \in Conns, conn' = conn
  PROVE  RowBecomes(c, conn[c].status, conn[c].bank, conn[c].link, conn[c].item)
BY TypeSets DEF Typed, RowBecomes

LEMMA StatusSetting ==
  ASSUME ConnTypeOK, NEW c \in Conns, NEW status \in Statuses, SetStatus(c, status)
  PROVE  RowBecomes(c, IF Exists(c) THEN status ELSE conn[c].status,
                    conn[c].bank, conn[c].link, conn[c].item)
BY StatusSet, RowKept DEF SetStatus

LEMMA FailingRow ==
  ASSUME ConnTypeOK, NEW c \in Conns, FailFinalize(c)
  PROVE  RowBecomes(c, IF Exists(c) /\ conn[c].status # "LINKED" THEN "ERROR" ELSE conn[c].status,
                    conn[c].bank, conn[c].link, conn[c].item)
<1>1. "ERROR" \in Statuses
  BY DEF Statuses
<1>. QED BY <1>1, StatusSet, RowKept DEF FailFinalize

LEMMA HoldingRow ==
  ASSUME ConnTypeOK, NEW c \in Conns, NEW l \in Links, HoldLink(c, l)
  PROVE  RowBecomes(c, conn[c].status, conn[c].bank,
                    IF Exists(c) THEN l ELSE conn[c].link, conn[c].item)
<1>. DEFINE q == [conn[c] EXCEPT !.link = l]
<1>0. conn[c] \in RowSet
  BY RowFields
<1>1. /\ q \in RowSet /\ q.status = conn[c].status /\ q.bank = conn[c].bank
      /\ q.link = l /\ q.item = conn[c].item
  BY <1>0 DEF RowSet
<1>2. CASE Exists(c)
  <2>1. conn' = [conn EXCEPT ![c] = q]
    BY <1>2 DEF HoldLink
  <2>. HIDE DEF q
  <2>. QED BY <1>1, <1>2, <2>1, RowWritten
<1>3. CASE ~Exists(c)
  BY <1>3, RowKept DEF HoldLink
<1>. QED BY <1>2, <1>3

LEMMA RefusedRow ==
  ASSUME ConnTypeOK, NEW c \in Conns, NEW t \in Tasks, task[t].conn = c, RefuseDuplicate(t)
  PROVE  RowBecomes(c, IF Exists(c) /\ conn[c].status # "LINKED" THEN "ERROR" ELSE conn[c].status,
                    conn[c].bank, IF Exists(c) THEN NoLink ELSE conn[c].link, conn[c].item)
<1>. DEFINE s == IF conn[c].status = "LINKED" THEN conn[c].status ELSE "ERROR"
            q == [conn[c] EXCEPT !.link = NoLink, !.status = s]
<1>0. conn[c] \in RowSet
  BY RowFields
<1>1. /\ q \in RowSet /\ q.status = s /\ q.bank = conn[c].bank
      /\ q.link = NoLink /\ q.item = conn[c].item
  BY <1>0 DEF RowSet, Statuses
<1>2. CASE Exists(c)
  <2>1. conn' = [conn EXCEPT ![c] = q]
    BY <1>2, TypeSets DEF Typed, RefuseDuplicate, RowSet
  <2>2. conn[c].status # "LINKED" => s = "ERROR"
    OBVIOUS
  <2>3. conn[c].status = "LINKED" => s = conn[c].status
    OBVIOUS
  <2>. HIDE DEF q, s
  <2>. QED BY <1>1, <1>2, <2>1, <2>2, <2>3, RowWritten
<1>3. CASE ~Exists(c)
  BY <1>3, RowKept DEF RefuseDuplicate
<1>. QED BY <1>2, <1>3

LEMMA StoringRow ==
  ASSUME ConnTypeOK, NEW c \in Conns, NEW bank \in Banks \cup {NoBank},
           NEW k \in Items \cup {NoItem},
         conn' = [conn EXCEPT ![c].bank = bank, ![c].item = k, ![c].link = NoLink]
  PROVE  RowBecomes(c, conn[c].status, bank, NoLink, k)
<1>. DEFINE q == [conn[c] EXCEPT !.bank = bank, !.item = k, !.link = NoLink]
<1>0. conn[c] \in RowSet
  BY RowFields
<1>1. /\ q \in RowSet /\ q.status = conn[c].status /\ q.bank = bank
      /\ q.link = NoLink /\ q.item = k
  BY <1>0 DEF RowSet
<1>2. conn' = [conn EXCEPT ![c] = q]
  BY TypeSets DEF Typed
<1>. HIDE DEF q
<1>. QED BY <1>1, <1>2, RowWritten

LEMMA NewRow ==
  ASSUME ConnTypeOK, NEW c \in Conns, NEW status \in {"PENDING", "DELETED"},
         NEW bank \in Banks \cup {NoBank},
         conn' = [conn EXCEPT ![c] = [status |-> status, bank |-> bank,
                                      link |-> NoLink, item |-> NoItem]]
  PROVE  RowBecomes(c, status, bank, NoLink, NoItem)
<1>. DEFINE q == [status |-> status, bank |-> bank, link |-> NoLink, item |-> NoItem]
<1>1. /\ q \in RowSet /\ q.status = status /\ q.bank = bank /\ q.link = NoLink /\ q.item = NoItem
  BY DEF RowSet, Statuses
<1>. HIDE DEF q
<1>. QED BY <1>1, RowWritten DEF q

LEMMA OpenedLink ==
  ASSUME ConnTypeOK, NEW l \in Links, NEW bank \in Banks \cup {NoBank},
         link' = [link EXCEPT ![l] = [@ EXCEPT !.state = "open", !.bank = bank]]
  PROVE  LinkBecomes(l, "open", bank, link[l].item, link[l].spent)
<1>. DEFINE q == [link[l] EXCEPT !.state = "open", !.bank = bank]
<1>0. link[l] \in LinkSet
  BY RowFields
<1>1. /\ q \in LinkSet /\ q.state = "open" /\ q.bank = bank
      /\ q.item = link[l].item /\ q.spent = link[l].spent
  BY <1>0 DEF LinkSet
<1>2. link' = [link EXCEPT ![l] = q]
  OBVIOUS
<1>. HIDE DEF q
<1>. QED BY <1>1, <1>2, LinkWritten

LEMMA ReopenedLink ==
  ASSUME ConnTypeOK, NEW l \in Links, NEW bank \in Banks \cup {NoBank},
           NEW k \in Items \cup {NoItem},
         link' = [link EXCEPT ![l] = [@ EXCEPT !.state = "open", !.item = k, !.bank = bank]]
  PROVE  LinkBecomes(l, "open", bank, k, link[l].spent)
<1>. DEFINE q == [link[l] EXCEPT !.state = "open", !.item = k, !.bank = bank]
<1>0. link[l] \in LinkSet
  BY RowFields
<1>1. /\ q \in LinkSet /\ q.state = "open" /\ q.bank = bank
      /\ q.item = k /\ q.spent = link[l].spent
  BY <1>0 DEF LinkSet
<1>2. link' = [link EXCEPT ![l] = q]
  OBVIOUS
<1>. HIDE DEF q
<1>. QED BY <1>1, <1>2, LinkWritten

LEMMA ApprovedLink ==
  ASSUME ConnTypeOK, NEW l \in Links, NEW bank \in Banks,
         link' = [link EXCEPT ![l].state = "done", ![l].bank = bank]
  PROVE  LinkBecomes(l, "done", bank, link[l].item, link[l].spent)
<1>. DEFINE q == [link[l] EXCEPT !.state = "done", !.bank = bank]
<1>0. link[l] \in LinkSet
  BY RowFields
<1>1. /\ q \in LinkSet /\ q.state = "done" /\ q.bank = bank
      /\ q.item = link[l].item /\ q.spent = link[l].spent
  BY <1>0 DEF LinkSet
<1>2. link' = [link EXCEPT ![l] = q]
  BY TypeSets DEF Typed
<1>. HIDE DEF q
<1>. QED BY <1>1, <1>2, LinkWritten

LEMMA SpentLink ==
  ASSUME ConnTypeOK, NEW l \in Links, link' = [link EXCEPT ![l].spent = TRUE]
  PROVE  LinkBecomes(l, link[l].state, link[l].bank, link[l].item, TRUE)
<1>. DEFINE q == [link[l] EXCEPT !.spent = TRUE]
<1>0. link[l] \in LinkSet
  BY RowFields
<1>1. /\ q \in LinkSet /\ q.state = link[l].state /\ q.bank = link[l].bank
      /\ q.item = link[l].item /\ q.spent = TRUE
  BY <1>0 DEF LinkSet
<1>2. link' = [link EXCEPT ![l] = q]
  OBVIOUS
<1>. HIDE DEF q
<1>. QED BY <1>1, <1>2, LinkWritten

LEMMA ItemState ==
  ASSUME ConnTypeOK, NEW k \in Items,
         NEW state \in {"none", "live", "broken", "revoked", "removed"},
         item' = [item EXCEPT ![k].state = state]
  PROVE  ItemBecomes(k, state, item[k].bank, item[k].news)
<1>. DEFINE q == [item[k] EXCEPT !.state = state]
<1>0. item[k] \in ItemSet
  BY RowFields
<1>1. q \in ItemSet /\ q.state = state /\ q.bank = item[k].bank /\ q.news = item[k].news
  BY <1>0 DEF ItemSet
<1>2. item' = [item EXCEPT ![k] = q]
  OBVIOUS
<1>. HIDE DEF q
<1>. QED BY <1>1, <1>2, ItemWritten

LEMMA NewItem ==
  ASSUME ConnTypeOK, NEW k \in Items, NEW bank \in Banks \cup {NoBank},
         item' = [item EXCEPT ![k].state = "live", ![k].bank = bank]
  PROVE  ItemBecomes(k, "live", bank, item[k].news)
<1>. DEFINE q == [item[k] EXCEPT !.state = "live", !.bank = bank]
<1>0. item[k] \in ItemSet
  BY RowFields
<1>1. q \in ItemSet /\ q.state = "live" /\ q.bank = bank /\ q.news = item[k].news
  BY <1>0 DEF ItemSet
<1>2. item' = [item EXCEPT ![k] = q]
  BY TypeSets DEF Typed
<1>. HIDE DEF q
<1>. QED BY <1>1, <1>2, ItemWritten

LEMMA ItemNews ==
  ASSUME ConnTypeOK, NEW k \in Items, NEW state \in {"broken", "revoked"},
         NEW word \in {"ERROR", "REVOKED"},
         item' = [item EXCEPT ![k].state = state, ![k].news = @ \cup {word}]
  PROVE  ItemBecomes(k, state, item[k].bank, item[k].news \cup {word})
<1>. DEFINE news == item[k].news \cup {word}
            q    == [item[k] EXCEPT !.state = state, !.news = news]
<1>0. item[k] \in ItemSet /\ news \in SUBSET {"ERROR", "REVOKED"}
  BY RowFields
<1>1. q \in ItemSet /\ q.state = state /\ q.bank = item[k].bank /\ q.news = news
  <2>. HIDE DEF news
  <2>. QED BY <1>0 DEF ItemSet
<1>2. item' = [item EXCEPT ![k] = q]
  BY TypeSets DEF Typed, ItemSet
<1>3. ItemBecomes(k, state, item[k].bank, news)
  <2>. HIDE DEF q, news
  <2>. QED BY <1>1, <1>2, ItemWritten
<1>. QED BY <1>3

LEMMA AccountOpened ==
  ASSUME ConnTypeOK, NEW c \in Conns, Provision(c)
  PROVE  \/ account[c].bound /\ account' = account
         \/ ~account[c].bound
            /\ AccountBecomes(c, account[c].found, TRUE, account[c].opened + 1)
<1>. DEFINE n == account[c].opened + 1
            q == [account[c] EXCEPT !.bound = TRUE, !.opened = n]
<1>0. account[c] \in AccountSet /\ n \in Nat
  BY RowFields
<1>1. /\ q \in AccountSet /\ q.found = account[c].found /\ q.bound = TRUE
      /\ q.opened = n
  <2>. HIDE DEF n
  <2>. QED BY <1>0 DEF AccountSet
<1>2. CASE ~account[c].bound
  <2>1. account' = [account EXCEPT ![c] = q]
    BY <1>2, TypeSets DEF Typed, Provision, AccountSet
  <2>. HIDE DEF q
  <2>. QED BY <1>1, <1>2, <2>1, AccountWritten
<1>. QED BY <1>2 DEF Provision

LEMMA AccountFlags ==
  ASSUME ConnTypeOK, NEW c \in Conns, NEW found \in BOOLEAN, NEW bound \in BOOLEAN,
         account' = [account EXCEPT ![c].found = found, ![c].bound = bound]
  PROVE  AccountBecomes(c, found, bound, account[c].opened)
<1>. DEFINE q == [account[c] EXCEPT !.found = found, !.bound = bound]
<1>0. account[c] \in AccountSet
  BY RowFields
<1>1. q \in AccountSet /\ q.found = found /\ q.bound = bound /\ q.opened = account[c].opened
  BY <1>0 DEF AccountSet
<1>2. account' = [account EXCEPT ![c] = q]
  BY TypeSets DEF Typed
<1>. HIDE DEF q
<1>. QED BY <1>1, <1>2, AccountWritten

LEMMA AccountFound ==
  ASSUME ConnTypeOK, NEW c \in Conns, account' = [account EXCEPT ![c].found = TRUE]
  PROVE  AccountBecomes(c, TRUE, account[c].bound, account[c].opened)
<1>. DEFINE q == [account[c] EXCEPT !.found = TRUE]
<1>0. account[c] \in AccountSet
  BY RowFields
<1>1. /\ q \in AccountSet /\ q.found = TRUE /\ q.bound = account[c].bound
      /\ q.opened = account[c].opened
  BY <1>0 DEF AccountSet
<1>2. account' = [account EXCEPT ![c] = q]
  OBVIOUS
<1>. HIDE DEF q
<1>. QED BY <1>1, <1>2, AccountWritten

LEMMA AccountBound ==
  ASSUME ConnTypeOK, NEW c \in Conns, NEW bound \in BOOLEAN,
         account' = [account EXCEPT ![c].bound = bound]
  PROVE  AccountBecomes(c, account[c].found, bound, account[c].opened)
<1>. DEFINE q == [account[c] EXCEPT !.bound = bound]
<1>0. account[c] \in AccountSet
  BY RowFields
<1>1. /\ q \in AccountSet /\ q.found = account[c].found /\ q.bound = bound
      /\ q.opened = account[c].opened
  BY <1>0 DEF AccountSet
<1>2. account' = [account EXCEPT ![c] = q]
  OBVIOUS
<1>. HIDE DEF q
<1>. QED BY <1>1, <1>2, AccountWritten

LEMMA SweepingTask ==
  ASSUME ConnTypeOK, NEW t \in Tasks, NEW c \in Conns,
         task' = [task EXCEPT ![t] = [Idle EXCEPT !.at = "listed", !.conn = c]]
  PROVE  TaskBecomes(t, "listed", c, NoBank, NoLink, NoItem)
<1>. DEFINE q == [Idle EXCEPT !.at = "listed", !.conn = c]
<1>1. /\ Idle \in TaskSet /\ Idle.bank = NoBank /\ Idle.link = NoLink /\ Idle.item = NoItem
  BY DEF Idle, TaskSet, Steps
<1>2. /\ q \in TaskSet /\ q.at = "listed" /\ q.conn = c /\ q.bank = NoBank
      /\ q.link = NoLink /\ q.item = NoItem
  BY <1>1 DEF TaskSet, Steps
<1>. HIDE DEF q
<1>. QED BY <1>2, TaskWritten DEF q

(***************************************************************************)
(* What each action does                                                   *)
(***************************************************************************)
Ends(t)     == TaskBecomes(t, "idle", NoConn, NoBank, NoLink, NoItem)
Goes(t, at) == TaskBecomes(t, at, task[t].conn, task[t].bank, task[t].link, task[t].item)
StatusBecomes(c, status) ==
  RowBecomes(c, status, conn[c].bank, conn[c].link, conn[c].item)

\* What an UPDATE by id writes: nothing, when the row is gone.
IfThere(c, status)   == IF Exists(c) THEN status ELSE conn[c].status
LinkIfThere(c, l)    == IF Exists(c) THEN l ELSE conn[c].link
Failed(c)            == IF Exists(c) /\ conn[c].status # "LINKED" THEN "ERROR" ELSE conn[c].status
LinkHeld(c, l) ==
  RowBecomes(c, conn[c].status, conn[c].bank, LinkIfThere(c, l), conn[c].item)
StateBecomes(k, state) == ItemBecomes(k, state, item[k].bank, item[k].news)
FindsAccount(c) == AccountBecomes(c, TRUE, account[c].bound, account[c].opened)
OpensAccount(c) == AccountBecomes(c, account[c].found, TRUE, account[c].opened + 1)

LEMMA CheckBankDoes ==
  ASSUME ConnFit, NEW t \in Tasks, NEW bank \in Banks \cup {NoBank}, CheckBank(t, bank)
  PROVE  /\ task[t].at = "idle"
         /\ bank # NoBank => LiveAt(bank, NoConn) = {}
         /\ TaskBecomes(t, "insert", NoConn, bank, NoLink, NoItem)
         /\ raced' = (raced \/ (bank # NoBank /\ PastCheck(bank)))
         /\ UNCHANGED <<conn, account, link, item, revived, released, told, crossed>>
BY CheckingTask DEF ConnFit, CheckBank, External, History

LEMMA InsertConnectionDoes ==
  ASSUME ConnFit, NEW t \in Tasks, NEW c \in Conns, InsertConnection(t, c)
  PROVE  /\ task[t].at = "insert"
         /\ conn[c].status = "ABSENT"
         /\ RowBecomes(c, "PENDING", task[t].bank, NoLink, NoItem)
         /\ TaskBecomes(t, "open", c, task[t].bank, task[t].link, task[t].item)
         /\ UNCHANGED <<account, link, item, History>>
BY InsertingTask, NewRow, RowFields DEF ConnFit, InsertConnection, External, History

LEMMA OpenSessionDoes ==
  ASSUME ConnFit, NEW t \in Tasks, NEW l \in Links, OpenSession(t, l)
  PROVE  /\ task[t].conn \in Conns
         /\ task[t].at = "open"
         /\ link[l].state = "none"
         /\ \E bank \in Banks \cup {NoBank} : LinkBecomes(l, "open", bank, link[l].item,
           link[l].spent)
         /\ LinkHeld(task[t].conn, l)
         /\ Ends(t)
         /\ UNCHANGED <<account, item, History>>
<1>1. ConnTypeOK /\ task[t].conn \in Conns /\ task[t].bank \in Banks \cup {NoBank}
  BY RowFields DEF ConnFit, TasksFit, OpenSession
<1>2. \E bank \in Banks \cup {NoBank} :
       link' = [link EXCEPT ![l] = [@ EXCEPT !.state = "open", !.bank = bank]]
  BY <1>1 DEF OpenSession
<1>3. \E bank \in Banks \cup {NoBank} : LinkBecomes(l, "open", bank, link[l].item, link[l].spent)
  BY <1>1, <1>2, OpenedLink
<1>. QED BY <1>1, <1>3, HoldingRow, Finishing
     DEF OpenSession, Ends, LinkHeld, LinkIfThere, External, History

LEMMA SessionRefusedDoes ==
  ASSUME ConnFit, NEW t \in Tasks, SessionRefused(t)
  PROVE  /\ task[t].conn \in Conns
         /\ task[t].at \in {"open", "reopen"}
         /\ StatusBecomes(task[t].conn, IfThere(task[t].conn, "ERROR"))
         /\ Ends(t)
         /\ UNCHANGED <<account, link, item, History>>
BY StatusSetting, Finishing DEF ConnFit, SessionRefused, Ends, StatusBecomes, IfThere, TasksFit,
     External, History, Statuses

LEMMA ReadForFinalizeDoes ==
  ASSUME ConnFit, NEW t \in Tasks, NEW c \in Conns, ReadForFinalize(t, c)
  PROVE  /\ task[t].at = "idle"
         /\ conn[c].status \in Statuses \ {"LINKED"}
         /\ TaskBecomes(t, "complete", c, NoBank, conn[c].link, conn[c].item)
         /\ UNCHANGED <<conn, account, link, item, History>>
BY CompletingTask DEF ConnFit, ReadForFinalize, External, History

LEMMA SessionFinishedDoes ==
  ASSUME ConnFit, NEW t \in Tasks, NEW l \in Links, SessionFinished(t, l)
  PROVE  /\ task[t].at = "idle"
         /\ \E c \in Conns : /\ conn[c].status \in Statuses \ {"LINKED"}
                             /\ TaskBecomes(t, "complete", c, NoBank, conn[c].link, conn[c].item)
         /\ UNCHANGED <<conn, account, link, item, History>>
BY CompletingTask DEF ConnFit, SessionFinished, External, History

LEMMA CompleteRepairDoes ==
  ASSUME ConnFit, NEW t \in Tasks, CompleteRepair(t)
  PROVE  /\ task[t].conn \in Conns
         /\ task[t].at = "complete"
         /\ task[t].item \in Items
         /\ item[task[t].item].state = "live"
         /\ TaskBecomes(t, "persist", task[t].conn, item[task[t].item].bank, task[t].link,
           task[t].item)
         /\ UNCHANGED <<conn, account, link, item, History>>
BY RepairingTask, RowFields DEF ConnFit, CompleteRepair, TasksFit, External, History

LEMMA ExchangeDoes ==
  ASSUME ConnFit, NEW t \in Tasks, NEW k \in Items, Exchange(t, k)
  PROVE  /\ task[t].conn \in Conns
         /\ task[t].at = "complete" /\ task[t].item = NoItem /\ task[t].link \in Links
         /\ link[task[t].link].item = NoItem /\ ~link[task[t].link].spent
         /\ item[k].state = "none"
         /\ LinkBecomes(task[t].link, link[task[t].link].state, link[task[t].link].bank, NoItem,
           TRUE)
         /\ ItemBecomes(k, "live", link[task[t].link].bank, item[k].news)
         /\ TaskBecomes(t, "persist", task[t].conn, link[task[t].link].bank, task[t].link, k)
         /\ UNCHANGED <<conn, account, History>>
<1>1. /\ ConnTypeOK /\ task[t].conn \in Conns /\ task[t].link \in Links
      /\ link[task[t].link].bank \in Banks \cup {NoBank}
  BY RowFields DEF ConnFit, TasksFit, Exchange
<1>2. TaskBecomes(t, "persist", task[t].conn, link[task[t].link].bank, task[t].link, k)
  BY <1>1, ExchangingTask DEF Exchange
<1>3. ItemBecomes(k, "live", link[task[t].link].bank, item[k].news)
  BY <1>1, NewItem DEF Exchange
<1>4. LinkBecomes(task[t].link, link[task[t].link].state, link[task[t].link].bank, NoItem, TRUE)
  BY <1>1, SpentLink DEF Exchange
<1>. QED BY <1>1, <1>2, <1>3, <1>4 DEF Exchange, History

LEMMA NotFinishedDoes ==
  ASSUME ConnFit, NEW t \in Tasks, NotFinished(t)
  PROVE  /\ task[t].at = "complete"
         /\ Ends(t)
         /\ UNCHANGED <<conn, account, link, item, History>>
BY Finishing DEF ConnFit, NotFinished, Ends, External, History

LEMMA CompletionFailsDoes ==
  ASSUME ConnFit, NEW t \in Tasks, CompletionFails(t)
  PROVE  /\ task[t].conn \in Conns
         /\ task[t].at = "complete"
         /\ StatusBecomes(task[t].conn, Failed(task[t].conn))
         /\ Ends(t)
         /\ UNCHANGED <<account, link, item, History>>
BY FailingRow, Finishing DEF ConnFit, CompletionFails, Ends, StatusBecomes, Failed, TasksFit,
     External, History

LEMMA RefuseDuplicateDoes ==
  ASSUME ConnFit, NEW t \in Tasks, RefuseDuplicate(t)
  PROVE  /\ task[t].conn \in Conns
         /\ task[t].at = "persist"
         /\ RowBecomes(task[t].conn, Failed(task[t].conn), conn[task[t].conn].bank,
           LinkIfThere(task[t].conn, NoLink),
                          conn[task[t].conn].item)
         /\ Ends(t)
         /\ UNCHANGED <<account, link, item, History>>
BY RefusedRow, Finishing DEF ConnFit, RefuseDuplicate, Ends, LinkIfThere, Failed, TasksFit,
     External, History

LEMMA KeepAccountDoes ==
  ASSUME ConnFit, NEW t \in Tasks, KeepAccount(t)
  PROVE  /\ task[t].conn \in Conns
         /\ task[t].at = "persist"
         /\ LiveAt(task[t].bank, task[t].conn) = {}
         /\ Exists(task[t].conn)
         /\ FindsAccount(task[t].conn)
         /\ Goes(t, "provision")
         /\ raced' = (raced \/ PastCheck(task[t].bank))
         /\ UNCHANGED <<conn, link, item, revived, released, told, crossed>>
BY AccountFound, Going DEF ConnFit, KeepAccount, Goes, FindsAccount, TasksFit, External, History,
     Steps

LEMMA ProvisionConsentDoes ==
  ASSUME ConnFit, NEW t \in Tasks, ProvisionConsent(t)
  PROVE  /\ task[t].conn \in Conns
         /\ task[t].at = "provision"
         /\ Exists(task[t].conn)
         /\ \/ account[task[t].conn].bound /\ account' = account
            \/ ~account[task[t].conn].bound
               /\ OpensAccount(task[t].conn)
         /\ Goes(t, "store")
         /\ UNCHANGED <<conn, link, item, History>>
BY AccountOpened, Going DEF ConnFit, ProvisionConsent, Goes, OpensAccount, TasksFit, External,
     History, Steps

LEMMA StoreConsentDoes ==
  ASSUME ConnFit, NEW t \in Tasks, StoreConsent(t)
  PROVE  /\ task[t].conn \in Conns
         /\ task[t].at = "store"
         /\ Exists(task[t].conn)
         /\ RowBecomes(task[t].conn, conn[task[t].conn].status, task[t].bank, NoLink,
           task[t].item)
         /\ Goes(t, "mark")
         /\ UNCHANGED <<account, link, item, History>>
BY StoringRow, Going, RowFields DEF ConnFit, StoreConsent, Goes, TasksFit, External, History, Steps

LEMMA MarkLinkedDoes ==
  ASSUME ConnFit, NEW t \in Tasks, MarkLinked(t)
  PROVE  /\ task[t].conn \in Conns
         /\ task[t].at = "mark"
         /\ StatusBecomes(task[t].conn, IfThere(task[t].conn, "LINKED"))
         /\ Ends(t)
         /\ UNCHANGED <<account, link, item, History>>
BY StatusSetting, Finishing DEF ConnFit, MarkLinked, Ends, StatusBecomes, IfThere, TasksFit,
     External, History, Statuses

LEMMA AbandonDoes ==
  ASSUME ConnFit, NEW t \in Tasks, Abandon(t)
  PROVE  /\ task[t].at # "idle"
         /\ Ends(t)
         /\ UNCHANGED <<conn, account, link, item, History>>
BY Finishing DEF ConnFit, Abandon, Ends, External, History

LEMMA ReadForRepairDoes ==
  ASSUME ConnFit, NEW t \in Tasks, NEW c \in Conns, ReadForRepair(t, c)
  PROVE  /\ task[t].at = "idle"
         /\ Exists(c) /\ conn[c].item # NoItem /\ conn[c].status # "REVOKED"
         /\ TaskBecomes(t, "reopen", c, NoBank, NoLink, conn[c].item)
         /\ UNCHANGED <<conn, account, link, item, History>>
BY Starting, RowFields DEF ConnFit, ReadForRepair, External, History, Steps

LEMMA ReopenDoes ==
  ASSUME ConnFit, NEW t \in Tasks, NEW l \in Links, Reopen(t, l)
  PROVE  /\ task[t].conn \in Conns
         /\ task[t].at = "reopen"
         /\ task[t].item \in Items
         /\ item[task[t].item].state \in {"live", "broken"}
         /\ link[l].state = "none"
         /\ LinkBecomes(l, "open", item[task[t].item].bank, task[t].item, link[l].spent)
         /\ LinkHeld(task[t].conn, l)
         /\ Ends(t)
         /\ UNCHANGED <<account, item, History>>
BY ReopenedLink, HoldingRow, Finishing, RowFields DEF ConnFit, Reopen, Ends, LinkHeld, LinkIfThere,
     TasksFit, External, History

LEMMA ReadForSyncDoes ==
  ASSUME ConnFit, NEW t \in Tasks, NEW c \in Conns, ReadForSync(t, c)
  PROVE  /\ task[t].at = "idle"
         /\ conn[c].status = "LINKED"
         /\ \E at \in {"bind", "pull"} : TaskBecomes(t, at, c, NoBank, NoLink, conn[c].item)
         /\ UNCHANGED <<conn, account, link, item, History>>
BY Loading DEF ConnFit, ReadForSync, External, History

LEMMA ListForSweepDoes ==
  ASSUME ConnFit, NEW t \in Tasks, NEW c \in Conns, ListForSweep(t, c)
  PROVE  /\ task[t].at = "idle"
         /\ conn[c].status = "LINKED"
         /\ TaskBecomes(t, "listed", c, NoBank, NoLink, NoItem)
         /\ UNCHANGED <<conn, account, link, item, History>>
BY SweepingTask DEF ConnFit, ListForSweep, External, History, Steps

LEMMA ReadSweptDoes ==
  ASSUME ConnFit, NEW t \in Tasks, ReadSwept(t)
  PROVE  /\ task[t].conn \in Conns
         /\ task[t].at = "listed"
         /\ Exists(task[t].conn)
         /\ \E at \in {"bind", "pull"} : TaskBecomes(t, at, task[t].conn, NoBank, NoLink,
           conn[task[t].conn].item)
         /\ UNCHANGED <<conn, account, link, item, History>>
BY Loading DEF ConnFit, ReadSwept, TasksFit, External, History

LEMMA ProvisionMissingDoes ==
  ASSUME ConnFit, NEW t \in Tasks, ProvisionMissing(t)
  PROVE  /\ task[t].conn \in Conns
         /\ task[t].at = "bind"
         /\ \/ account' = account
            \/ /\ Exists(task[t].conn) /\ ~account[task[t].conn].bound
               /\ OpensAccount(task[t].conn)
         /\ Goes(t, "pull")
         /\ UNCHANGED <<conn, link, item, History>>
BY AccountOpened, Going DEF ConnFit, ProvisionMissing, Goes, OpensAccount, TasksFit, External,
     History, Steps

LEMMA PullDoes ==
  ASSUME ConnFit, NEW t \in Tasks, Pull(t)
  PROVE  /\ task[t].at = "pull"
         /\ \E at \in {"synced", "broken"} : Goes(t, at)
         /\ UNCHANGED <<conn, account, link, item, History>>
BY Going DEF ConnFit, Pull, Goes, External, History, Steps

LEMMA SyncDoneDoes ==
  ASSUME ConnFit, NEW t \in Tasks, SyncDone(t)
  PROVE  /\ task[t].conn \in Conns
         /\ task[t].at = "synced"
         /\ StatusBecomes(task[t].conn, IfThere(task[t].conn, "LINKED"))
         /\ revived' = IF Exists(task[t].conn) /\ conn[task[t].conn].status # "LINKED"
                        THEN revived \cup {task[t].conn} ELSE revived
         /\ Ends(t)
         /\ UNCHANGED <<account, link, item, raced, released, told, crossed>>
BY StatusSetting, Finishing DEF ConnFit, SyncDone, Ends, StatusBecomes, IfThere, TasksFit, External,
     History, Statuses

LEMMA SyncBrokenDoes ==
  ASSUME ConnFit, NEW t \in Tasks, SyncBroken(t)
  PROVE  /\ task[t].conn \in Conns
         /\ task[t].at = "broken"
         /\ StatusBecomes(task[t].conn, IfThere(task[t].conn, "ERROR"))
         /\ Ends(t)
         /\ UNCHANGED <<account, link, item, History>>
BY StatusSetting, Finishing DEF ConnFit, SyncBroken, Ends, StatusBecomes, IfThere, TasksFit,
     External, History, Statuses

LEMMA ReadForDeleteDoes ==
  ASSUME ConnFit, NEW t \in Tasks, NEW c \in Conns, ReadForDelete(t, c)
  PROVE  /\ task[t].at = "idle"
         /\ Exists(c)
         /\ TaskBecomes(t, "giveUp", c, NoBank, NoLink, conn[c].item)
         /\ UNCHANGED <<conn, account, link, item, History>>
BY Starting, RowFields DEF ConnFit, ReadForDelete, External, History, Steps

LEMMA GiveUpDoes ==
  ASSUME ConnFit, NEW t \in Tasks, GiveUp(t)
  PROVE  /\ task[t].at = "giveUp"
         /\ \/ item' = item
            \/ task[t].item \in Items
               /\ StateBecomes(task[t].item, "removed")
         /\ Goes(t, "drop")
         /\ UNCHANGED <<conn, account, link, History>>
BY ItemState, Going, RowFields DEF ConnFit, GiveUp, Goes, StateBecomes, External, History, Steps

LEMMA DropDoes ==
  ASSUME ConnFit, NEW t \in Tasks, Drop(t)
  PROVE  /\ task[t].conn \in Conns
         /\ task[t].at = "drop"
         /\ Exists(task[t].conn)
         /\ RowBecomes(task[t].conn, "DELETED", NoBank, NoLink, NoItem)
         /\ AccountBecomes(task[t].conn, FALSE, FALSE, account[task[t].conn].opened)
         /\ Ends(t)
         /\ UNCHANGED <<link, item, History>>
BY NewRow, AccountFlags, Finishing DEF ConnFit, Drop, Ends, TasksFit, External, History

LEMMA ApproveDoes ==
  ASSUME ConnFit, NEW l \in Links, NEW bank \in Banks, Approve(l, bank)
  PROVE  /\ link[l].state = "open"
         /\ LinkBecomes(l, "done", bank, link[l].item, link[l].spent)
         /\ \/ item' = item
            \/ \E k \in Items : /\ item[k].state \in {"live", "broken"}
                             /\ StateBecomes(k, "live")
         /\ UNCHANGED <<conn, account, task, History>>
BY ApprovedLink, ItemState, RowFields DEF ConnFit, Approve, StateBecomes, External, History

LEMMA BreakDoes ==
  ASSUME ConnFit, NEW k \in Items, Break(k)
  PROVE  /\ item[k].state = "live"
         /\ ItemBecomes(k, "broken", item[k].bank, item[k].news \cup {"ERROR"})
         /\ UNCHANGED <<conn, account, task, link, History>>
BY ItemNews DEF ConnFit, Break, External, History

LEMMA RevokeAtBankDoes ==
  ASSUME ConnFit, NEW k \in Items, RevokeAtBank(k)
  PROVE  /\ item[k].state \in {"live", "broken"}
         /\ ItemBecomes(k, "revoked", item[k].bank, item[k].news \cup {"REVOKED"})
         /\ UNCHANGED <<conn, account, task, link, History>>
BY ItemNews DEF ConnFit, RevokeAtBank, External, History

LEMMA ItemErrorDoes ==
  ASSUME ConnFit, NEW k \in Items, ItemError(k)
  PROVE  /\ "ERROR" \in item[k].news
         /\ \E c \in Conns : /\ conn[c].item = k /\ conn[c].status = "LINKED"
                             /\ StatusBecomes(c, "ERROR")
         /\ UNCHANGED <<account, task, link, item, History>>
BY StatusSetting DEF ConnFit, ItemError, StatusBecomes, External, History, Statuses, Exists

LEMMA ItemRevokedDoes ==
  ASSUME ConnFit, NEW k \in Items, ItemRevoked(k)
  PROVE  /\ "REVOKED" \in item[k].news
         /\ \E c \in Conns : /\ conn[c].item = k
                             /\ StatusBecomes(c, IfThere(c, "REVOKED"))
                             /\ told' = told \cup {c}
                             /\ crossed' = IF Busy(c) THEN crossed \cup {c} ELSE crossed
         /\ UNCHANGED <<account, task, link, item, raced, revived, released>>
BY StatusSetting DEF ConnFit, ItemRevoked, StatusBecomes, IfThere, External, History, Statuses

LEMMA BindAccountDoes ==
  ASSUME ConnFit, NEW c \in Conns, NEW bound \in BOOLEAN, BindAccount(c, bound)
  PROVE  /\ AccountBecomes(c, account[c].found, bound, account[c].opened)
         /\ released' = released \cup {c}
         /\ UNCHANGED <<conn, task, link, item, raced, revived, told, crossed>>
BY AccountBound DEF ConnFit, BindAccount, External, History

(***************************************************************************)
(* Types, and requests that fit their rows                                 *)
(***************************************************************************)
LEMMA FitInit == ConnInit => ConnFit
<1>. SUFFICES ASSUME ConnInit PROVE ConnFit
  OBVIOUS
<1>1. \A c \in Conns : /\ conn[c].status = "ABSENT" /\ conn[c].link = NoLink
                       /\ conn[c].item = NoItem
  BY DEF ConnInit
<1>2. \A t \in Tasks : /\ task[t].at = "idle" /\ task[t].conn = NoConn
                       /\ task[t].link = NoLink /\ task[t].item = NoItem
  BY DEF ConnInit, Idle
<1>3. ConnTypeOK
  <2>1. conn \in [Conns -> RowSet] /\ account \in [Conns -> AccountSet]
    BY DEF ConnInit, RowSet, AccountSet
  <2>2. task \in [Tasks -> TaskSet]
    BY DEF ConnInit, Idle, TaskSet, Steps
  <2>3. link \in [Links -> LinkSet] /\ item \in [Items -> ItemSet]
    BY DEF ConnInit, LinkSet, ItemSet
  <2>. QED BY <2>1, <2>2, <2>3, TypeSets DEF ConnInit, Typed
<1>. QED BY <1>1, <1>2, <1>3 DEF ConnFit, TasksFit, RowsFit

LEMMA TypedStep ==
  ASSUME ConnFit, [ConnNext]_connVars
  PROVE  Typed'
<1>a. Typed
  BY TypeSets DEF ConnFit
<1>. USE DEF PastCheck
<1>1. ASSUME NEW t \in Tasks, KeepAccount(t) PROVE Typed'
  <2>1. /\ task[t].conn \in Conns
        /\ task[t].at = "persist"
        /\ LiveAt(task[t].bank, task[t].conn) = {}
        /\ Exists(task[t].conn)
        /\ FindsAccount(task[t].conn)
        /\ Goes(t, "provision")
        /\ raced' = (raced \/ PastCheck(task[t].bank))
        /\ UNCHANGED <<conn, link, item, revived, released, told, crossed>>
    BY <1>1, KeepAccountDoes DEF History
  <2>. QED BY <2>1, <1>a DEF Goes, TaskBecomes, FindsAccount, AccountBecomes, Typed
<1>2. ASSUME NEW t \in Tasks, ProvisionConsent(t) PROVE Typed'
  <2>1. /\ task[t].conn \in Conns
        /\ task[t].at = "provision"
        /\ Exists(task[t].conn)
        /\ \/ account[task[t].conn].bound /\ account' = account
           \/ ~account[task[t].conn].bound
              /\ OpensAccount(task[t].conn)
        /\ Goes(t, "store")
        /\ UNCHANGED <<conn, link, item, raced, revived, released, told, crossed>>
    BY <1>2, ProvisionConsentDoes DEF History
  <2>. QED BY <2>1, <1>a DEF Goes, TaskBecomes, OpensAccount, AccountBecomes, Typed
<1>3. ASSUME NEW t \in Tasks, ProvisionMissing(t) PROVE Typed'
  <2>1. /\ task[t].conn \in Conns
        /\ task[t].at = "bind"
        /\ \/ account' = account
           \/ /\ Exists(task[t].conn) /\ ~account[task[t].conn].bound
              /\ OpensAccount(task[t].conn)
        /\ Goes(t, "pull")
        /\ UNCHANGED <<conn, link, item, raced, revived, released, told, crossed>>
    BY <1>3, ProvisionMissingDoes DEF History
  <2>. QED BY <2>1, <1>a DEF Goes, TaskBecomes, OpensAccount, AccountBecomes, Typed
<1>4. ASSUME NEW k \in Items, ItemRevoked(k) PROVE Typed'
  <2>1. \E c \in Conns : /\ StatusBecomes(c, IfThere(c, "REVOKED"))
                        /\ told' = told \cup {c}
                        /\ crossed' = IF Busy(c) THEN crossed \cup {c} ELSE crossed
    BY <1>4, ItemRevokedDoes
  <2>2. told' \subseteq Conns /\ crossed' \subseteq Conns /\ conn' \in [Conns -> RowSet]
    BY <1>a, <2>1 DEF StatusBecomes, IfThere, RowBecomes, Typed
  <2>. QED BY <1>a, <1>4, <2>2, ItemRevokedDoes DEF Typed
<1>. USE DEF Typed, AccountBecomes, Ends, Failed, Goes, History, IfThere, ItemBecomes,
           LinkBecomes, LinkHeld, LinkIfThere, RowBecomes, StateBecomes, StatusBecomes,
           TaskBecomes
<1>5. ASSUME NEW t \in Tasks, NEW bank \in Banks \cup {NoBank}, CheckBank(t, bank) PROVE Typed'
  BY <1>5, CheckBankDoes, <1>a
<1>6. ASSUME NEW t \in Tasks, NEW c \in Conns, InsertConnection(t, c) PROVE Typed'
  BY <1>6, InsertConnectionDoes, <1>a
<1>7. ASSUME NEW t \in Tasks, NEW l \in Links, OpenSession(t, l) PROVE Typed'
  BY <1>7, OpenSessionDoes, <1>a
<1>8. ASSUME NEW t \in Tasks, SessionRefused(t) PROVE Typed'
  BY <1>8, SessionRefusedDoes, <1>a
<1>9. ASSUME NEW t \in Tasks, NEW c \in Conns, ReadForFinalize(t, c) PROVE Typed'
  BY <1>9, ReadForFinalizeDoes, <1>a
<1>10. ASSUME NEW t \in Tasks, NEW l \in Links, SessionFinished(t, l) PROVE Typed'
  BY <1>10, SessionFinishedDoes, <1>a
<1>11. ASSUME NEW t \in Tasks, CompleteRepair(t) PROVE Typed'
  BY <1>11, CompleteRepairDoes, <1>a
<1>12. ASSUME NEW t \in Tasks, NEW k \in Items, Exchange(t, k) PROVE Typed'
  BY <1>12, ExchangeDoes, <1>a
<1>13. ASSUME NEW t \in Tasks, NotFinished(t) PROVE Typed'
  BY <1>13, NotFinishedDoes, <1>a
<1>14. ASSUME NEW t \in Tasks, CompletionFails(t) PROVE Typed'
  BY <1>14, CompletionFailsDoes, <1>a
<1>15. ASSUME NEW t \in Tasks, RefuseDuplicate(t) PROVE Typed'
  BY <1>15, RefuseDuplicateDoes, <1>a
<1>16. ASSUME NEW t \in Tasks, StoreConsent(t) PROVE Typed'
  BY <1>16, StoreConsentDoes, <1>a
<1>17. ASSUME NEW t \in Tasks, MarkLinked(t) PROVE Typed'
  BY <1>17, MarkLinkedDoes, <1>a
<1>18. ASSUME NEW t \in Tasks, Abandon(t) PROVE Typed'
  BY <1>18, AbandonDoes, <1>a
<1>19. ASSUME NEW t \in Tasks, NEW c \in Conns, ReadForRepair(t, c) PROVE Typed'
  BY <1>19, ReadForRepairDoes, <1>a
<1>20. ASSUME NEW t \in Tasks, NEW l \in Links, Reopen(t, l) PROVE Typed'
  BY <1>20, ReopenDoes, <1>a
<1>21. ASSUME NEW t \in Tasks, NEW c \in Conns, ReadForSync(t, c) PROVE Typed'
  BY <1>21, ReadForSyncDoes, <1>a
<1>22. ASSUME NEW t \in Tasks, NEW c \in Conns, ListForSweep(t, c) PROVE Typed'
  BY <1>22, ListForSweepDoes, <1>a
<1>23. ASSUME NEW t \in Tasks, ReadSwept(t) PROVE Typed'
  BY <1>23, ReadSweptDoes, <1>a
<1>24. ASSUME NEW t \in Tasks, Pull(t) PROVE Typed'
  BY <1>24, PullDoes, <1>a
<1>25. ASSUME NEW t \in Tasks, SyncDone(t) PROVE Typed'
  BY <1>25, SyncDoneDoes, <1>a
<1>26. ASSUME NEW t \in Tasks, SyncBroken(t) PROVE Typed'
  BY <1>26, SyncBrokenDoes, <1>a
<1>27. ASSUME NEW t \in Tasks, NEW c \in Conns, ReadForDelete(t, c) PROVE Typed'
  BY <1>27, ReadForDeleteDoes, <1>a
<1>28. ASSUME NEW t \in Tasks, GiveUp(t) PROVE Typed'
  BY <1>28, GiveUpDoes, <1>a
<1>29. ASSUME NEW t \in Tasks, Drop(t) PROVE Typed'
  BY <1>29, DropDoes, <1>a
<1>30. ASSUME NEW l \in Links, NEW bank \in Banks, Approve(l, bank) PROVE Typed'
  BY <1>30, ApproveDoes, <1>a
<1>31. ASSUME NEW k \in Items, Break(k) PROVE Typed'
  BY <1>31, BreakDoes, <1>a
<1>32. ASSUME NEW k \in Items, RevokeAtBank(k) PROVE Typed'
  BY <1>32, RevokeAtBankDoes, <1>a
<1>33. ASSUME NEW k \in Items, ItemError(k) PROVE Typed'
  BY <1>33, ItemErrorDoes, <1>a
<1>34. ASSUME NEW c \in Conns, NEW bound \in BOOLEAN, BindAccount(c, bound) PROVE Typed'
  BY <1>34, BindAccountDoes, <1>a
<1>35. ASSUME UNCHANGED connVars PROVE Typed'
  BY <1>35, <1>a DEF connVars
<1>. QED
  BY <1>1, <1>2, <1>3, <1>4, <1>5, <1>6, <1>7, <1>8, <1>9, <1>10, <1>11, <1>12, <1>13,
     <1>14, <1>15, <1>16, <1>17, <1>18, <1>19, <1>20, <1>21, <1>22, <1>23, <1>24, <1>25, <1>26,
     <1>27, <1>28, <1>29, <1>30, <1>31, <1>32, <1>33, <1>34, <1>35
  DEF ConnNext, TaskNext, WorldNext

LEMMA TasksStep ==
  ASSUME ConnFit, [ConnNext]_connVars
  PROVE  (TasksFit /\ RowsFit)'
<1>1. ASSUME NEW t \in Tasks, NEW k \in Items, Exchange(t, k) PROVE (TasksFit /\ RowsFit)'
  <2>1. /\ task[t].conn \in Conns
        /\ task[t].at = "complete" /\ task[t].item = NoItem /\ task[t].link \in Links
        /\ link[task[t].link].item = NoItem /\ ~link[task[t].link].spent
        /\ item[k].state = "none"
        /\ TaskBecomes(t, "persist", task[t].conn, link[task[t].link].bank, task[t].link, k)
        /\ UNCHANGED conn
    BY <1>1, ExchangeDoes DEF History
  <2>. QED BY <2>1 DEF TaskBecomes, ConnFit, TasksFit, RowsFit, Exists, Statuses
<1>2. ASSUME NEW t \in Tasks, KeepAccount(t) PROVE (TasksFit /\ RowsFit)'
  <2>1. /\ task[t].conn \in Conns
        /\ task[t].at = "persist"
        /\ Exists(task[t].conn)
        /\ Goes(t, "provision")
        /\ UNCHANGED conn
    BY <1>2, KeepAccountDoes DEF History
  <2>. QED BY <2>1 DEF Goes, TaskBecomes, ConnFit, TasksFit, RowsFit, Exists, Statuses
<1>3. ASSUME NEW t \in Tasks, ProvisionConsent(t) PROVE (TasksFit /\ RowsFit)'
  <2>1. /\ task[t].conn \in Conns
        /\ task[t].at = "provision"
        /\ Exists(task[t].conn)
        /\ Goes(t, "store")
        /\ UNCHANGED conn
    BY <1>3, ProvisionConsentDoes DEF History
  <2>. QED BY <2>1 DEF Goes, TaskBecomes, ConnFit, TasksFit, RowsFit, Exists, Statuses
<1>4. ASSUME NEW t \in Tasks, ProvisionMissing(t) PROVE (TasksFit /\ RowsFit)'
  <2>1. /\ task[t].conn \in Conns
        /\ task[t].at = "bind"
        /\ Goes(t, "pull")
        /\ UNCHANGED conn
    BY <1>4, ProvisionMissingDoes DEF History
  <2>. QED BY <2>1 DEF Goes, TaskBecomes, ConnFit, TasksFit, RowsFit, Exists, Statuses
<1>5. ASSUME NEW t \in Tasks, Drop(t) PROVE (TasksFit /\ RowsFit)'
  <2>1. /\ task[t].conn \in Conns
        /\ task[t].at = "drop"
        /\ Exists(task[t].conn)
        /\ RowBecomes(task[t].conn, "DELETED", NoBank, NoLink, NoItem)
        /\ Ends(t)
    BY <1>5, DropDoes DEF History
  <2>. QED BY <2>1 DEF Ends, TaskBecomes, RowBecomes, ConnFit, TasksFit, RowsFit, Exists, Statuses
<1>. USE DEF ConnFit, TasksFit, RowsFit, Exists, Statuses, AccountBecomes, Ends, Failed, Goes,
           History, IfThere, ItemBecomes, LinkBecomes, LinkHeld, LinkIfThere, RowBecomes,
           StateBecomes, StatusBecomes, TaskBecomes
<1>6. ASSUME NEW t \in Tasks, NEW bank \in Banks \cup {NoBank}, CheckBank(t, bank)
      PROVE  (TasksFit /\ RowsFit)'
  BY <1>6, CheckBankDoes
<1>7. ASSUME NEW t \in Tasks, NEW c \in Conns, InsertConnection(t, c) PROVE (TasksFit /\ RowsFit)'
  BY <1>7, InsertConnectionDoes
<1>8. ASSUME NEW t \in Tasks, NEW l \in Links, OpenSession(t, l) PROVE (TasksFit /\ RowsFit)'
  BY <1>8, OpenSessionDoes
<1>9. ASSUME NEW t \in Tasks, SessionRefused(t) PROVE (TasksFit /\ RowsFit)'
  BY <1>9, SessionRefusedDoes
<1>10. ASSUME NEW t \in Tasks, NEW c \in Conns, ReadForFinalize(t, c) PROVE (TasksFit /\ RowsFit)'
  BY <1>10, ReadForFinalizeDoes
<1>11. ASSUME NEW t \in Tasks, NEW l \in Links, SessionFinished(t, l) PROVE (TasksFit /\ RowsFit)'
  BY <1>11, SessionFinishedDoes
<1>12. ASSUME NEW t \in Tasks, CompleteRepair(t) PROVE (TasksFit /\ RowsFit)'
  BY <1>12, CompleteRepairDoes
<1>13. ASSUME NEW t \in Tasks, NotFinished(t) PROVE (TasksFit /\ RowsFit)'
  BY <1>13, NotFinishedDoes
<1>14. ASSUME NEW t \in Tasks, CompletionFails(t) PROVE (TasksFit /\ RowsFit)'
  BY <1>14, CompletionFailsDoes
<1>15. ASSUME NEW t \in Tasks, RefuseDuplicate(t) PROVE (TasksFit /\ RowsFit)'
  BY <1>15, RefuseDuplicateDoes
<1>16. ASSUME NEW t \in Tasks, StoreConsent(t) PROVE (TasksFit /\ RowsFit)'
  BY <1>16, StoreConsentDoes
<1>17. ASSUME NEW t \in Tasks, MarkLinked(t) PROVE (TasksFit /\ RowsFit)'
  BY <1>17, MarkLinkedDoes
<1>18. ASSUME NEW t \in Tasks, Abandon(t) PROVE (TasksFit /\ RowsFit)'
  BY <1>18, AbandonDoes
<1>19. ASSUME NEW t \in Tasks, NEW c \in Conns, ReadForRepair(t, c) PROVE (TasksFit /\ RowsFit)'
  BY <1>19, ReadForRepairDoes, RowFields
<1>20. ASSUME NEW t \in Tasks, NEW l \in Links, Reopen(t, l) PROVE (TasksFit /\ RowsFit)'
  BY <1>20, ReopenDoes
<1>21. ASSUME NEW t \in Tasks, NEW c \in Conns, ReadForSync(t, c) PROVE (TasksFit /\ RowsFit)'
  BY <1>21, ReadForSyncDoes
<1>22. ASSUME NEW t \in Tasks, NEW c \in Conns, ListForSweep(t, c) PROVE (TasksFit /\ RowsFit)'
  BY <1>22, ListForSweepDoes
<1>23. ASSUME NEW t \in Tasks, ReadSwept(t) PROVE (TasksFit /\ RowsFit)'
  BY <1>23, ReadSweptDoes
<1>24. ASSUME NEW t \in Tasks, Pull(t) PROVE (TasksFit /\ RowsFit)'
  BY <1>24, PullDoes
<1>25. ASSUME NEW t \in Tasks, SyncDone(t) PROVE (TasksFit /\ RowsFit)'
  BY <1>25, SyncDoneDoes
<1>26. ASSUME NEW t \in Tasks, SyncBroken(t) PROVE (TasksFit /\ RowsFit)'
  BY <1>26, SyncBrokenDoes
<1>27. ASSUME NEW t \in Tasks, NEW c \in Conns, ReadForDelete(t, c) PROVE (TasksFit /\ RowsFit)'
  BY <1>27, ReadForDeleteDoes
<1>28. ASSUME NEW t \in Tasks, GiveUp(t) PROVE (TasksFit /\ RowsFit)'
  BY <1>28, GiveUpDoes
<1>29. ASSUME NEW l \in Links, NEW bank \in Banks, Approve(l, bank) PROVE (TasksFit /\ RowsFit)'
  BY <1>29, ApproveDoes
<1>30. ASSUME NEW k \in Items, Break(k) PROVE (TasksFit /\ RowsFit)'
  BY <1>30, BreakDoes
<1>31. ASSUME NEW k \in Items, RevokeAtBank(k) PROVE (TasksFit /\ RowsFit)'
  BY <1>31, RevokeAtBankDoes
<1>32. ASSUME NEW k \in Items, ItemError(k) PROVE (TasksFit /\ RowsFit)'
  BY <1>32, ItemErrorDoes
<1>33. ASSUME NEW k \in Items, ItemRevoked(k) PROVE (TasksFit /\ RowsFit)'
  BY <1>33, ItemRevokedDoes
<1>34. ASSUME NEW c \in Conns, NEW bound \in BOOLEAN, BindAccount(c, bound)
      PROVE  (TasksFit /\ RowsFit)'
  BY <1>34, BindAccountDoes
<1>35. ASSUME UNCHANGED connVars PROVE (TasksFit /\ RowsFit)'
  BY <1>35 DEF connVars
<1>. QED
  BY <1>1, <1>2, <1>3, <1>4, <1>5, <1>6, <1>7, <1>8, <1>9, <1>10, <1>11, <1>12, <1>13,
     <1>14, <1>15, <1>16, <1>17, <1>18, <1>19, <1>20, <1>21, <1>22, <1>23, <1>24, <1>25, <1>26,
     <1>27, <1>28, <1>29, <1>30, <1>31, <1>32, <1>33, <1>34, <1>35
  DEF ConnNext, TaskNext, WorldNext

LEMMA FitStep == ASSUME ConnFit, [ConnNext]_connVars PROVE ConnFit'
<1>1. ConnTypeOK'
  BY TypedStep, TypeSets, PTL
<1>. QED BY <1>1, TasksStep DEF ConnFit


(***************************************************************************)
(* One ledger account                                                      *)
(***************************************************************************)

LEMMA OpenedStep ==
  ASSUME ConnFit, OpenedOnce, [ConnNext]_connVars
  PROVE  OpenedOnce'
<1>a. ConnTypeOK
  BY DEF ConnFit
<1>1. ASSUME NEW t \in Tasks, CompleteRepair(t) PROVE OpenedOnce'
  <2>1. /\ task[t].conn \in Conns
        /\ task[t].item \in Items
        /\ item[task[t].item].state = "live"
        /\ UNCHANGED <<conn, account, released>>
    BY <1>1, CompleteRepairDoes DEF History
  <2>. QED BY <2>1, RowFields, <1>a DEF OpenedOnce, Exists, Statuses
<1>2. ASSUME NEW t \in Tasks, NEW k \in Items, Exchange(t, k) PROVE OpenedOnce'
  <2>1. /\ task[t].conn \in Conns
        /\ link[task[t].link].item = NoItem /\ ~link[task[t].link].spent
        /\ item[k].state = "none"
        /\ UNCHANGED <<conn, account, released>>
    BY <1>2, ExchangeDoes DEF History
  <2>. QED BY <2>1, RowFields, <1>a DEF OpenedOnce, Exists, Statuses
<1>3. ASSUME NEW t \in Tasks, KeepAccount(t) PROVE OpenedOnce'
  <2>1. /\ task[t].conn \in Conns
        /\ Exists(task[t].conn)
        /\ FindsAccount(task[t].conn)
        /\ UNCHANGED <<conn, released>>
    BY <1>3, KeepAccountDoes DEF History
  <2>. QED BY <2>1, RowFields, <1>a DEF FindsAccount, AccountBecomes, OpenedOnce, Exists, Statuses
<1>4. ASSUME NEW t \in Tasks, ProvisionConsent(t) PROVE OpenedOnce'
  <2>1. /\ task[t].conn \in Conns
        /\ Exists(task[t].conn)
        /\ \/ account[task[t].conn].bound /\ account' = account
           \/ ~account[task[t].conn].bound
              /\ OpensAccount(task[t].conn)
        /\ UNCHANGED <<conn, released>>
    BY <1>4, ProvisionConsentDoes DEF History
  <2>. QED BY <2>1, RowFields, <1>a DEF OpensAccount, AccountBecomes, OpenedOnce, Exists, Statuses
<1>5. ASSUME NEW t \in Tasks, ProvisionMissing(t) PROVE OpenedOnce'
  <2>1. /\ task[t].conn \in Conns
        /\ \/ account' = account
           \/ /\ Exists(task[t].conn) /\ ~account[task[t].conn].bound
              /\ OpensAccount(task[t].conn)
        /\ UNCHANGED <<conn, released>>
    BY <1>5, ProvisionMissingDoes DEF History
  <2>. QED BY <2>1, RowFields, <1>a DEF OpensAccount, AccountBecomes, OpenedOnce, Exists, Statuses
<1>6. ASSUME NEW t \in Tasks, Drop(t) PROVE OpenedOnce'
  <2>1. /\ task[t].conn \in Conns
        /\ Exists(task[t].conn)
        /\ RowBecomes(task[t].conn, "DELETED", NoBank, NoLink, NoItem)
        /\ AccountBecomes(task[t].conn, FALSE, FALSE, account[task[t].conn].opened)
        /\ UNCHANGED released
    BY <1>6, DropDoes DEF History
  <2>. QED BY <2>1, RowFields, <1>a DEF RowBecomes, AccountBecomes, OpenedOnce, Exists, Statuses
<1>7. ASSUME NEW k \in Items, ItemRevoked(k) PROVE OpenedOnce'
  <2>1. /\ \E c \in Conns : StatusBecomes(c, IfThere(c, "REVOKED"))
        /\ UNCHANGED <<account, released>>
    BY <1>7, ItemRevokedDoes
  <2>. QED BY <2>1, RowFields, <1>a DEF StatusBecomes, IfThere, RowBecomes, OpenedOnce, Exists,
         Statuses
<1>. USE DEF OpenedOnce, Exists, Statuses, AccountBecomes, Ends, Failed, Goes, History, IfThere,
           ItemBecomes, LinkBecomes, LinkHeld, LinkIfThere, RowBecomes, StateBecomes,
           StatusBecomes, TaskBecomes
<1>8. ASSUME NEW t \in Tasks, NEW bank \in Banks \cup {NoBank}, CheckBank(t, bank)
      PROVE  OpenedOnce'
  BY <1>8, CheckBankDoes, RowFields, <1>a
<1>9. ASSUME NEW t \in Tasks, NEW c \in Conns, InsertConnection(t, c) PROVE OpenedOnce'
  BY <1>9, InsertConnectionDoes, RowFields, <1>a
<1>10. ASSUME NEW t \in Tasks, NEW l \in Links, OpenSession(t, l) PROVE OpenedOnce'
  BY <1>10, OpenSessionDoes, RowFields, <1>a
<1>11. ASSUME NEW t \in Tasks, SessionRefused(t) PROVE OpenedOnce'
  BY <1>11, SessionRefusedDoes, RowFields, <1>a
<1>12. ASSUME NEW t \in Tasks, NEW c \in Conns, ReadForFinalize(t, c) PROVE OpenedOnce'
  BY <1>12, ReadForFinalizeDoes, RowFields, <1>a
<1>13. ASSUME NEW t \in Tasks, NEW l \in Links, SessionFinished(t, l) PROVE OpenedOnce'
  BY <1>13, SessionFinishedDoes, RowFields, <1>a
<1>14. ASSUME NEW t \in Tasks, NotFinished(t) PROVE OpenedOnce'
  BY <1>14, NotFinishedDoes, RowFields, <1>a
<1>15. ASSUME NEW t \in Tasks, CompletionFails(t) PROVE OpenedOnce'
  BY <1>15, CompletionFailsDoes, RowFields, <1>a
<1>16. ASSUME NEW t \in Tasks, RefuseDuplicate(t) PROVE OpenedOnce'
  BY <1>16, RefuseDuplicateDoes, RowFields, <1>a
<1>17. ASSUME NEW t \in Tasks, StoreConsent(t) PROVE OpenedOnce'
  BY <1>17, StoreConsentDoes, RowFields, <1>a
<1>18. ASSUME NEW t \in Tasks, MarkLinked(t) PROVE OpenedOnce'
  BY <1>18, MarkLinkedDoes, RowFields, <1>a
<1>19. ASSUME NEW t \in Tasks, Abandon(t) PROVE OpenedOnce'
  BY <1>19, AbandonDoes, RowFields, <1>a
<1>20. ASSUME NEW t \in Tasks, NEW c \in Conns, ReadForRepair(t, c) PROVE OpenedOnce'
  BY <1>20, ReadForRepairDoes, RowFields, <1>a
<1>21. ASSUME NEW t \in Tasks, NEW l \in Links, Reopen(t, l) PROVE OpenedOnce'
  BY <1>21, ReopenDoes, RowFields, <1>a
<1>22. ASSUME NEW t \in Tasks, NEW c \in Conns, ReadForSync(t, c) PROVE OpenedOnce'
  BY <1>22, ReadForSyncDoes, RowFields, <1>a
<1>23. ASSUME NEW t \in Tasks, NEW c \in Conns, ListForSweep(t, c) PROVE OpenedOnce'
  BY <1>23, ListForSweepDoes, RowFields, <1>a
<1>24. ASSUME NEW t \in Tasks, ReadSwept(t) PROVE OpenedOnce'
  BY <1>24, ReadSweptDoes, RowFields, <1>a
<1>25. ASSUME NEW t \in Tasks, Pull(t) PROVE OpenedOnce'
  BY <1>25, PullDoes, RowFields, <1>a
<1>26. ASSUME NEW t \in Tasks, SyncDone(t) PROVE OpenedOnce'
  BY <1>26, SyncDoneDoes, RowFields, <1>a
<1>27. ASSUME NEW t \in Tasks, SyncBroken(t) PROVE OpenedOnce'
  BY <1>27, SyncBrokenDoes, RowFields, <1>a
<1>28. ASSUME NEW t \in Tasks, NEW c \in Conns, ReadForDelete(t, c) PROVE OpenedOnce'
  BY <1>28, ReadForDeleteDoes, RowFields, <1>a
<1>29. ASSUME NEW t \in Tasks, GiveUp(t) PROVE OpenedOnce'
  BY <1>29, GiveUpDoes, RowFields, <1>a
<1>30. ASSUME NEW l \in Links, NEW bank \in Banks, Approve(l, bank) PROVE OpenedOnce'
  BY <1>30, ApproveDoes, RowFields, <1>a
<1>31. ASSUME NEW k \in Items, Break(k) PROVE OpenedOnce'
  BY <1>31, BreakDoes, RowFields, <1>a
<1>32. ASSUME NEW k \in Items, RevokeAtBank(k) PROVE OpenedOnce'
  BY <1>32, RevokeAtBankDoes, RowFields, <1>a
<1>33. ASSUME NEW k \in Items, ItemError(k) PROVE OpenedOnce'
  BY <1>33, ItemErrorDoes, RowFields, <1>a
<1>34. ASSUME NEW c \in Conns, NEW bound \in BOOLEAN, BindAccount(c, bound) PROVE OpenedOnce'
  BY <1>34, BindAccountDoes, RowFields, <1>a
<1>35. ASSUME UNCHANGED connVars PROVE OpenedOnce'
  BY <1>35, RowFields, <1>a DEF connVars
<1>. QED
  BY <1>1, <1>2, <1>3, <1>4, <1>5, <1>6, <1>7, <1>8, <1>9, <1>10, <1>11, <1>12, <1>13,
     <1>14, <1>15, <1>16, <1>17, <1>18, <1>19, <1>20, <1>21, <1>22, <1>23, <1>24, <1>25, <1>26,
     <1>27, <1>28, <1>29, <1>30, <1>31, <1>32, <1>33, <1>34, <1>35
  DEF ConnNext, TaskNext, WorldNext

\* However the two completions of a session, a repair and the syncs interleave, one
\* ledger account is opened for what was connected (ProvisionLedgerAccount).
THEOREM OneAccount == ConnSpec => []OneAccountOpened
<1>1. ConnInit => OpenedOnce
  BY DEF ConnInit, OpenedOnce
<1>2. ConnFit /\ OpenedOnce /\ [ConnNext]_connVars => ConnFit' /\ OpenedOnce'
  BY FitStep, OpenedStep
<1>3. OpenedOnce => OneAccountOpened
  BY DEF OpenedOnce, OneAccountOpened
<1>. QED BY <1>1, <1>2, <1>3, FitInit, PTL DEF ConnSpec

(***************************************************************************)
(* A revoked consent                                                       *)
(***************************************************************************)

LEMMA DownStep ==
  ASSUME ConnFit, Down, [ConnNext]_connVars
  PROVE  Down'
<1>a. /\ TasksFit /\ RowsFit /\ told \subseteq Conns
      /\ NoConn \notin Conns /\ NoItem \notin Items
  BY FeedConnectionsAssumption DEF ConnFit, ConnTypeOK
<1>b. \A c \in Conns : conn[c].status \in Statuses \cup {"ABSENT", "DELETED"}
  BY RowFields DEF ConnFit
<1>1. ASSUME NEW t \in Tasks, NEW c \in Conns, InsertConnection(t, c) PROVE Down'
  <2>1. /\ task[t].at = "insert"
        /\ conn[c].status = "ABSENT"
        /\ RowBecomes(c, "PENDING", task[t].bank, NoLink, NoItem)
        /\ TaskBecomes(t, "open", c, task[t].bank, task[t].link, task[t].item)
        /\ UNCHANGED <<item, told, crossed>>
    BY <1>1, InsertConnectionDoes DEF History
  <2>. QED BY <2>1, <1>a DEF TaskBecomes, RowBecomes, Down, Over, Exists, Statuses, TasksFit,
         RowsFit
<1>2. ASSUME NEW t \in Tasks, NEW k \in Items, Exchange(t, k) PROVE Down'
  <2>1. /\ task[t].conn \in Conns
        /\ task[t].at = "complete" /\ task[t].item = NoItem /\ task[t].link \in Links
        /\ link[task[t].link].item = NoItem /\ ~link[task[t].link].spent
        /\ item[k].state = "none"
        /\ ItemBecomes(k, "live", link[task[t].link].bank, item[k].news)
        /\ TaskBecomes(t, "persist", task[t].conn, link[task[t].link].bank, task[t].link, k)
        /\ UNCHANGED <<conn, told, crossed>>
    BY <1>2, ExchangeDoes DEF History
  <2>. QED BY <2>1, <1>a DEF TaskBecomes, ItemBecomes, Down, Over, Exists, Statuses, TasksFit,
         RowsFit
<1>3. ASSUME NEW t \in Tasks, KeepAccount(t) PROVE Down'
  <2>1. /\ task[t].conn \in Conns
        /\ task[t].at = "persist"
        /\ LiveAt(task[t].bank, task[t].conn) = {}
        /\ Exists(task[t].conn)
        /\ Goes(t, "provision")
        /\ UNCHANGED <<conn, item, told, crossed>>
    BY <1>3, KeepAccountDoes DEF History
  <2>. QED BY <2>1, <1>a DEF Goes, TaskBecomes, Down, Over, Exists, Statuses, TasksFit, RowsFit
<1>4. ASSUME NEW t \in Tasks, ProvisionConsent(t) PROVE Down'
  <2>1. /\ task[t].conn \in Conns
        /\ task[t].at = "provision"
        /\ Exists(task[t].conn)
        /\ Goes(t, "store")
        /\ UNCHANGED <<conn, item, told, crossed>>
    BY <1>4, ProvisionConsentDoes DEF History
  <2>. QED BY <2>1, <1>a DEF Goes, TaskBecomes, Down, Over, Exists, Statuses, TasksFit, RowsFit
<1>5. ASSUME NEW t \in Tasks, StoreConsent(t) PROVE Down'
  <2>1. /\ task[t].conn \in Conns
        /\ task[t].at = "store"
        /\ Exists(task[t].conn)
        /\ RowBecomes(task[t].conn, conn[task[t].conn].status, task[t].bank, NoLink, task[t].item)
        /\ Goes(t, "mark")
        /\ UNCHANGED <<item, told, crossed>>
    BY <1>5, StoreConsentDoes DEF History
  <2>. QED BY <2>1, <1>a DEF Goes, TaskBecomes, RowBecomes, Down, Over, Exists, Statuses,
         TasksFit, RowsFit
<1>6. ASSUME NEW t \in Tasks, MarkLinked(t) PROVE Down'
  <2>1. /\ task[t].conn \in Conns
        /\ task[t].at = "mark"
        /\ StatusBecomes(task[t].conn, IfThere(task[t].conn, "LINKED"))
        /\ Ends(t)
        /\ UNCHANGED <<item, told, crossed>>
    BY <1>6, MarkLinkedDoes DEF History
  <2>. QED BY <2>1, <1>a DEF Ends, StatusBecomes, TaskBecomes, IfThere, RowBecomes, Down, Over,
         Exists, Statuses, TasksFit, RowsFit
<1>7. ASSUME NEW t \in Tasks, ProvisionMissing(t) PROVE Down'
  <2>1. /\ task[t].conn \in Conns
        /\ task[t].at = "bind"
        /\ Goes(t, "pull")
        /\ UNCHANGED <<conn, item, told, crossed>>
    BY <1>7, ProvisionMissingDoes DEF History
  <2>. QED BY <2>1, <1>a DEF Goes, TaskBecomes, Down, Over, Exists, Statuses
<1>8. ASSUME NEW t \in Tasks, SyncDone(t) PROVE Down'
  <2>1. /\ task[t].conn \in Conns
        /\ task[t].at = "synced"
        /\ StatusBecomes(task[t].conn, IfThere(task[t].conn, "LINKED"))
        /\ Ends(t)
        /\ UNCHANGED <<item, told, crossed>>
    BY <1>8, SyncDoneDoes DEF History
  <2>. QED BY <2>1, <1>a DEF Ends, StatusBecomes, TaskBecomes, IfThere, RowBecomes, Down, Over,
         Exists, Statuses, TasksFit, RowsFit
<1>9. ASSUME NEW t \in Tasks, Drop(t) PROVE Down'
  <2>1. /\ task[t].conn \in Conns
        /\ task[t].at = "drop"
        /\ Exists(task[t].conn)
        /\ RowBecomes(task[t].conn, "DELETED", NoBank, NoLink, NoItem)
        /\ Ends(t)
        /\ UNCHANGED <<item, told, crossed>>
    BY <1>9, DropDoes DEF History
  <2>. QED BY <2>1, <1>a DEF Ends, TaskBecomes, RowBecomes, Down, Over, Exists, Statuses,
         TasksFit, RowsFit
<1>10. ASSUME NEW k \in Items, ItemRevoked(k) PROVE Down'
  <2>1. PICK c \in Conns : /\ conn[c].item = k
                         /\ StatusBecomes(c, IfThere(c, "REVOKED"))
                         /\ told' = told \cup {c}
                         /\ crossed' = IF Busy(c) THEN crossed \cup {c} ELSE crossed
    BY <1>10, ItemRevokedDoes
  <2>2. /\ "REVOKED" \in item[k].news
        /\ UNCHANGED <<task, item>>
    BY <1>10, ItemRevokedDoes
  <2>3. Over(k) /\ conn[c].status # "ABSENT"
    BY <1>a, <2>1, <2>2 DEF Down, RowsFit
  <2>4. /\ \A d \in Conns : d # c => conn'[d] = conn[d]
        /\ conn'[c].item = k /\ conn'[c].status \in {"REVOKED", "DELETED"}
    BY <2>1, <2>3, <1>b DEF StatusBecomes, IfThere, RowBecomes, Exists
  <2>5. c \in told' \ crossed' => \A u \in Tasks : task[u].conn # c
    BY <1>a, <2>1 DEF Busy, TasksFit
  <2>6. \A d \in told' \ crossed' : d # c => d \in told \ crossed
    BY <2>1
  <2>. QED BY <1>a, <2>1, <2>2, <2>3, <2>4, <2>5, <2>6 DEF Down, Over, Exists, Statuses
<1>. USE DEF Down, Over, Exists, Statuses, AccountBecomes, Ends, Failed, Goes, History, IfThere,
           ItemBecomes, LinkBecomes, LinkHeld, LinkIfThere, RowBecomes, StateBecomes,
           StatusBecomes, TaskBecomes
<1>11. ASSUME NEW t \in Tasks, NEW bank \in Banks \cup {NoBank}, CheckBank(t, bank) PROVE Down'
  BY <1>11, CheckBankDoes, <1>a
<1>12. ASSUME NEW t \in Tasks, NEW l \in Links, OpenSession(t, l) PROVE Down'
  BY <1>12, OpenSessionDoes, <1>a
<1>13. ASSUME NEW t \in Tasks, SessionRefused(t) PROVE Down'
  BY <1>13, SessionRefusedDoes, <1>a
<1>14. ASSUME NEW t \in Tasks, NEW c \in Conns, ReadForFinalize(t, c) PROVE Down'
  BY <1>14, ReadForFinalizeDoes, <1>a
<1>15. ASSUME NEW t \in Tasks, NEW l \in Links, SessionFinished(t, l) PROVE Down'
  BY <1>15, SessionFinishedDoes, <1>a
<1>16. ASSUME NEW t \in Tasks, CompleteRepair(t) PROVE Down'
  BY <1>16, CompleteRepairDoes, <1>a
<1>17. ASSUME NEW t \in Tasks, NotFinished(t) PROVE Down'
  BY <1>17, NotFinishedDoes, <1>a
<1>18. ASSUME NEW t \in Tasks, CompletionFails(t) PROVE Down'
  BY <1>18, CompletionFailsDoes, <1>a
<1>19. ASSUME NEW t \in Tasks, RefuseDuplicate(t) PROVE Down'
  BY <1>19, RefuseDuplicateDoes, <1>a
<1>20. ASSUME NEW t \in Tasks, Abandon(t) PROVE Down'
  BY <1>20, AbandonDoes, <1>a
<1>21. ASSUME NEW t \in Tasks, NEW c \in Conns, ReadForRepair(t, c) PROVE Down'
  BY <1>21, ReadForRepairDoes, <1>a
<1>22. ASSUME NEW t \in Tasks, NEW l \in Links, Reopen(t, l) PROVE Down'
  BY <1>22, ReopenDoes, <1>a
<1>23. ASSUME NEW t \in Tasks, NEW c \in Conns, ReadForSync(t, c) PROVE Down'
  BY <1>23, ReadForSyncDoes, <1>a
<1>24. ASSUME NEW t \in Tasks, NEW c \in Conns, ListForSweep(t, c) PROVE Down'
  BY <1>24, ListForSweepDoes, <1>a
<1>25. ASSUME NEW t \in Tasks, ReadSwept(t) PROVE Down'
  BY <1>25, ReadSweptDoes, <1>a
<1>26. ASSUME NEW t \in Tasks, Pull(t) PROVE Down'
  BY <1>26, PullDoes, <1>a
<1>27. ASSUME NEW t \in Tasks, SyncBroken(t) PROVE Down'
  BY <1>27, SyncBrokenDoes, <1>a
<1>28. ASSUME NEW t \in Tasks, NEW c \in Conns, ReadForDelete(t, c) PROVE Down'
  BY <1>28, ReadForDeleteDoes, <1>a
<1>29. ASSUME NEW t \in Tasks, GiveUp(t) PROVE Down'
  BY <1>29, GiveUpDoes, <1>a
<1>30. ASSUME NEW l \in Links, NEW bank \in Banks, Approve(l, bank) PROVE Down'
  BY <1>30, ApproveDoes, <1>a
<1>31. ASSUME NEW k \in Items, Break(k) PROVE Down'
  BY <1>31, BreakDoes, <1>a
<1>32. ASSUME NEW k \in Items, RevokeAtBank(k) PROVE Down'
  BY <1>32, RevokeAtBankDoes, <1>a
<1>33. ASSUME NEW k \in Items, ItemError(k) PROVE Down'
  BY <1>33, ItemErrorDoes, <1>a
<1>34. ASSUME NEW c \in Conns, NEW bound \in BOOLEAN, BindAccount(c, bound) PROVE Down'
  BY <1>34, BindAccountDoes, <1>a
<1>35. ASSUME UNCHANGED connVars PROVE Down'
  BY <1>35, <1>a DEF connVars
<1>. QED
  BY <1>1, <1>2, <1>3, <1>4, <1>5, <1>6, <1>7, <1>8, <1>9, <1>10, <1>11, <1>12, <1>13,
     <1>14, <1>15, <1>16, <1>17, <1>18, <1>19, <1>20, <1>21, <1>22, <1>23, <1>24, <1>25, <1>26,
     <1>27, <1>28, <1>29, <1>30, <1>31, <1>32, <1>33, <1>34, <1>35
  DEF ConnNext, TaskNext, WorldNext

\* After onItemEvent has recorded a revocation with nothing under way, no completion,
\* repair or sync makes the connection LINKED again.
THEOREM Revocation == ConnSpec => []RevokedStaysDown
<1>1. ConnInit => Down
  BY DEF ConnInit, Down
<1>2. ConnFit /\ Down /\ [ConnNext]_connVars => ConnFit' /\ Down'
  BY FitStep, DownStep
<1>3. Down => RevokedStaysDown
  BY DEF Down, RevokedStaysDown
<1>. QED BY <1>1, <1>2, <1>3, FitInit, PTL DEF ConnSpec


(***************************************************************************)
(* Who holds which consent, and waits for which session                    *)
(***************************************************************************)

\* A step after which nothing is held or waited for that was not before.
Recedes ==
  /\ \A c \in Conns : \A k \in Items : Holds(c, k)' => Holds(c, k)
  /\ \A c \in Conns : \A l \in Links : Waits(c, l)' => Waits(c, l)
  /\ \A l \in Links : /\ link'[l].state = "none" => link[l].state = "none" /\ link'[l] = link[l]
                      /\ link'[l].item = NoItem => link[l].item = NoItem
                      /\ link[l].spent => link'[l].spent
  /\ \A k \in Items : item[k].state # "none" => item'[k].state # "none"
  /\ \A t \in Tasks : task'[t].at = "open" => task[t].at = "open" /\ task'[t].conn = task[t].conn

LEMMA Receding == ASSUME ConnFit, Consents, Recedes PROVE Consents'
<1>0. \A c \in Conns : \A k \in Items : Holds(c, k)' => Holds(c, k)
  BY DEF Recedes
<1>1. \A c \in Conns : \A l \in Links : Waits(c, l)' => Waits(c, l)
  BY DEF Recedes
<1>2. OneConsent'
  BY <1>0 DEF Consents, OneConsent, Recedes
<1>3. \A l \in Links : Unused(l)' => Unused(l)
  BY DEF Recedes, Unused
<1>4. OneSession'
  <2>1. \A l \in Links : link'[l].state = "none" => Unused(l)' /\ \A c \in Conns : ~Waits(c, l)'
    BY <1>1 DEF Consents, OneSession, Recedes, Unused
  <2>2. \A c \in Conns : \A l, m \in Links :
          Waits(c, l)' /\ Waits(c,
            m)' /\ link'[l].item = NoItem /\ link'[m].item = NoItem => l = m
    BY <1>1 DEF Consents, OneSession, Recedes
  <2>3. \A c \in Conns : \A l \in Links : \A k \in Items :
          Waits(c, l)' /\ Unused(l)' => ~Holds(c, k)'
    BY <1>0, <1>1, <1>3 DEF Consents, OneSession
  <2>. QED BY <2>1, <2>2, <2>3 DEF OneSession
<1>5. OpeningFirst'
  <2>. SUFFICES ASSUME NEW t \in Tasks, task'[t].at = "open"
                PROVE  /\ \A l \in Links : ~Waits(task[t].conn, l)'
                       /\ \A k \in Items : ~Holds(task[t].conn, k)'
                       /\ \A u \in Tasks : task'[u].at = "open" /\ task'[u].conn = task'[t].conn
                                             => u = t
    BY DEF OpeningFirst, Recedes, Waits, Holds
  <2>. QED BY <1>0, <1>1 DEF Consents, OpeningFirst, Recedes, ConnFit, TasksFit
<1>. QED BY <1>2, <1>4, <1>5 DEF Consents

LEMMA ConsentsStep ==
  ASSUME ConnFit, Consents, [ConnNext]_connVars
  PROVE  Consents'
<1>a. /\ TasksFit /\ RowsFit
      /\ NoConn \notin Conns /\ NoItem \notin Items /\ NoLink \notin Links
  BY FeedConnectionsAssumption DEF ConnFit
<1>b. /\ \A c \in Conns : conn[c].item \in Items \cup {NoItem} /\ conn[c].link \in Links \cup {NoLink}
      /\ ConnTypeOK
  BY RowFields DEF ConnFit
<1>1. ASSUME NEW t \in Tasks, NEW c \in Conns, InsertConnection(t, c) PROVE Consents'
  <2>1. /\ task[t].at = "insert" /\ conn[c].status = "ABSENT"
        /\ RowBecomes(c, "PENDING", task[t].bank, NoLink, NoItem)
        /\ TaskBecomes(t, "open", c, task[t].bank, task[t].link, task[t].item)
        /\ UNCHANGED <<link, item>>
    BY <1>1, InsertConnectionDoes DEF History
  <2>2. /\ task[t].link = NoLink /\ task[t].item = NoItem /\ task[t].conn = NoConn
        /\ \A u \in Tasks : task[u].conn # c
    BY <1>a, <2>1 DEF TasksFit
  <2>3. \A d \in Conns : \A k \in Items : Holds(d, k)' => d # c /\ Holds(d, k)
    BY <1>a, <2>1, <2>2 DEF RowBecomes, TaskBecomes, Holds
  <2>4. \A d \in Conns : \A l \in Links : Waits(d, l)' => d # c /\ Waits(d, l)
    BY <1>a, <2>1, <2>2 DEF RowBecomes, TaskBecomes, Waits
  <2>5. OneConsent'
    BY <2>1, <2>3 DEF Consents, OneConsent
  <2>6. OneSession'
    BY <2>1, <2>3, <2>4 DEF Consents, OneSession, Unused
  <2>7. OpeningFirst'
    <3>1. ASSUME NEW u \in Tasks, task'[u].at = "open"
          PROVE  \/ u = t /\ task'[u].conn = c
                 \/ u # t /\ task[u].at = "open" /\ task'[u] = task[u]
                    /\ task[u].conn # c /\ task[u].conn \in Conns
      BY <1>a, <2>1, <2>2, <3>1 DEF TaskBecomes, TasksFit
    <3>2. ASSUME NEW u \in Tasks, task'[u].at = "open", NEW d \in Conns, task'[u].conn = d
          PROVE  /\ \A l \in Links : ~Waits(d, l)'
                 /\ \A k \in Items : ~Holds(d, k)'
      BY <2>3, <2>4, <3>1, <3>2 DEF Consents, OpeningFirst
    <3>3. ASSUME NEW u \in Tasks, NEW v \in Tasks, task'[u].at = "open", task'[v].at = "open",
                 task'[u].conn = task'[v].conn
          PROVE  u = v
      BY <3>1, <3>3 DEF Consents, OpeningFirst
    <3>. QED BY <3>1, <3>2, <3>3 DEF OpeningFirst
  <2>. QED BY <2>5, <2>6, <2>7 DEF Consents
<1>2. ASSUME NEW t \in Tasks, NEW l \in Links, OpenSession(t, l) PROVE Consents'
  <2>. DEFINE c == task[t].conn
  <2>1. /\ c \in Conns /\ task[t].at = "open" /\ link[l].state = "none"
        /\ \E bank \in Banks \cup {NoBank} : LinkBecomes(l, "open", bank, link[l].item,
          link[l].spent)
        /\ LinkHeld(c, l)
        /\ Ends(t) /\ UNCHANGED item
    BY <1>2, OpenSessionDoes
  <2>2. /\ \A m \in Links : ~Waits(c, m)
        /\ \A k \in Items : ~Holds(c, k)
        /\ \A u \in Tasks : task[u].at = "open" /\ task[u].conn = c => u = t
    BY <2>1 DEF Consents, OpeningFirst
  <2>. HIDE DEF c
  <2>3. \A d \in Conns : \A k \in Items : Holds(d, k)' => d # c /\ Holds(d, k)
    BY <1>a, <2>1, <2>2 DEF LinkHeld, RowBecomes, Ends, TaskBecomes, Holds
  <2>4. \A d \in Conns : \A m \in Links : Waits(d, m)' => (d = c /\ m = l) \/ (d # c /\ Waits(d,
          m))
    BY <1>a, <2>1, <2>2 DEF LinkHeld, LinkIfThere, RowBecomes, Ends, TaskBecomes, Waits
  <2>5. OneConsent'
    BY <2>1, <2>3 DEF Consents, OneConsent
  <2>6. OneSession'
    <3>1. \A m \in Links : link'[m].state = "none" => m # l /\ link'[m] = link[m]
      BY <2>1 DEF LinkBecomes
    <3>2. \A m \in Links : /\ link'[m].item = link[m].item
                           /\ link'[m].spent = link[m].spent
      BY <2>1 DEF LinkBecomes
    <3>. QED BY <2>3, <2>4, <3>1, <3>2 DEF Consents, OneSession, Unused
  <2>7. OpeningFirst'
    <3>1. ASSUME NEW u \in Tasks, task'[u].at = "open"
          PROVE  /\ u # t /\ task[u].at = "open" /\ task'[u] = task[u]
                 /\ task[u].conn # c /\ task[u].conn \in Conns
      BY <1>a, <2>1, <2>2, <3>1 DEF Ends, TaskBecomes, TasksFit
    <3>2. ASSUME NEW u \in Tasks, task'[u].at = "open", NEW d \in Conns, task'[u].conn = d
          PROVE  /\ \A m \in Links : ~Waits(d, m)'
                 /\ \A k \in Items : ~Holds(d, k)'
      BY <2>3, <2>4, <3>1, <3>2 DEF Consents, OpeningFirst
    <3>3. ASSUME NEW u \in Tasks, NEW v \in Tasks, task'[u].at = "open", task'[v].at = "open",
                 task'[u].conn = task'[v].conn
          PROVE  u = v
      BY <3>1, <3>3 DEF Consents, OpeningFirst
    <3>. QED BY <3>1, <3>2, <3>3 DEF OpeningFirst
  <2>. QED BY <2>5, <2>6, <2>7 DEF Consents
<1>3. ASSUME NEW t \in Tasks, NEW k \in Items, Exchange(t, k) PROVE Consents'
  <2>. DEFINE c == task[t].conn
              l == task[t].link
  <2>1. /\ c \in Conns /\ l \in Links /\ task[t].at = "complete" /\ task[t].item = NoItem
        /\ link[l].item = NoItem /\ ~link[l].spent /\ item[k].state = "none"
        /\ LinkBecomes(l, link[l].state, link[l].bank, NoItem, TRUE)
        /\ ItemBecomes(k, "live", link[l].bank, item[k].news)
        /\ TaskBecomes(t, "persist", c, link[l].bank, l, k)
        /\ UNCHANGED conn
    BY <1>3, ExchangeDoes
  <2>2. Waits(c, l) /\ Unused(l)
    BY <2>1 DEF Waits, Unused
  <2>. HIDE DEF c, l
  <2>3. \A j \in Items : ~Holds(c, j)
    BY <2>1, <2>2 DEF Consents, OneSession
  <2>4. \A d \in Conns : ~Holds(d, k)
    BY <2>1 DEF Consents, OneConsent
  <2>5. \A d \in Conns : \A j \in Items : Holds(d, j)' => (d = c /\ j = k) \/ Holds(d, j)
    BY <1>a, <2>1 DEF TaskBecomes, Holds
  <2>6. \A d \in Conns : \A m \in Links : Waits(d, m)' => Waits(d, m)
    BY <1>a, <2>1, <2>2 DEF TaskBecomes, Waits
  <2>7. OneConsent'
    <3>1. \A j \in Items : item[j].state # "none" \/ j = k => item'[j].state # "none"
      BY <2>1 DEF ItemBecomes
    <3>. QED BY <2>1, <2>3, <2>4, <2>5, <3>1 DEF Consents, OneConsent
  <2>8. OneSession'
    <3>1. /\ \A m \in Links : m # l => link'[m] = link[m]
          /\ link'[l].state = link[l].state /\ link'[l].item = NoItem /\ link'[l].spent = TRUE
      BY <2>1 DEF LinkBecomes
    <3>2. \A m \in Links : Waits(c, m) /\ Unused(m) => m = l
      BY <2>1, <2>2 DEF Consents, OneSession, Unused
    <3>3. \A m \in Links : link'[m].state = "none" => Unused(m)' /\ \A d \in Conns : ~Waits(d, m)'
      BY <2>1, <2>2, <2>6, <3>1 DEF Consents, OneSession, Unused
    <3>4. \A d \in Conns : \A m, n \in Links :
            Waits(d, m)' /\ Waits(d,
              n)' /\ link'[m].item = NoItem /\ link'[n].item = NoItem => m = n
      BY <2>1, <2>6, <3>1 DEF Consents, OneSession
    <3>5. \A d \in Conns : \A m \in Links : \A j \in Items :
            Waits(d, m)' /\ Unused(m)' => ~Holds(d, j)'
      BY <2>1, <2>5, <2>6, <3>1, <3>2 DEF Consents, OneSession, Unused
    <3>. QED BY <3>3, <3>4, <3>5 DEF OneSession
  <2>9. OpeningFirst'
    <3>1. ASSUME NEW u \in Tasks, task'[u].at = "open"
          PROVE  /\ u # t /\ task[u].at = "open" /\ task'[u] = task[u]
                 /\ task[u].conn # c /\ task[u].conn \in Conns
      BY <1>a, <2>1, <2>2, <3>1 DEF TaskBecomes, TasksFit, Consents, OpeningFirst
    <3>2. ASSUME NEW u \in Tasks, task'[u].at = "open", NEW d \in Conns, task'[u].conn = d
          PROVE  /\ \A m \in Links : ~Waits(d, m)'
                 /\ \A j \in Items : ~Holds(d, j)'
      BY <2>5, <2>6, <3>1, <3>2 DEF Consents, OpeningFirst
    <3>3. ASSUME NEW u \in Tasks, NEW v \in Tasks, task'[u].at = "open", task'[v].at = "open",
                 task'[u].conn = task'[v].conn
          PROVE  u = v
      BY <3>1, <3>3 DEF Consents, OpeningFirst
    <3>. QED BY <3>1, <3>2, <3>3 DEF OpeningFirst
  <2>. QED BY <2>7, <2>8, <2>9 DEF Consents
<1>4. ASSUME NEW t \in Tasks, KeepAccount(t) PROVE Recedes
  <2>1. /\ task[t].conn \in Conns
        /\ task[t].at = "persist"
        /\ LiveAt(task[t].bank, task[t].conn) = {}
        /\ Exists(task[t].conn)
        /\ Goes(t, "provision")
        /\ UNCHANGED <<conn, link, item>>
    BY <1>4, KeepAccountDoes DEF History
  <2>. QED BY <2>1, <1>a, <1>b DEF Goes, TaskBecomes, Recedes, Holds, Waits
<1>5. ASSUME NEW t \in Tasks, ProvisionConsent(t) PROVE Recedes
  <2>1. /\ task[t].conn \in Conns
        /\ task[t].at = "provision"
        /\ Exists(task[t].conn)
        /\ Goes(t, "store")
        /\ UNCHANGED <<conn, link, item>>
    BY <1>5, ProvisionConsentDoes DEF History
  <2>. QED BY <2>1, <1>a, <1>b DEF Goes, TaskBecomes, Recedes, Holds, Waits
<1>6. ASSUME NEW t \in Tasks, NEW l \in Links, Reopen(t, l) PROVE Consents'
  <2>. DEFINE c == task[t].conn
              k == task[t].item
  <2>1. /\ c \in Conns /\ k \in Items /\ task[t].at = "reopen" /\ link[l].state = "none"
        /\ LinkBecomes(l, "open", item[k].bank, k, link[l].spent)
        /\ LinkHeld(c, l)
        /\ Ends(t) /\ UNCHANGED item
    BY <1>6, ReopenDoes
  <2>2. Holds(c, k)
    BY <2>1 DEF Holds
  <2>. HIDE DEF c, k
  <2>3. \A d \in Conns : \A j \in Items : Holds(d, j)' => Holds(d, j)
    BY <1>a, <2>1 DEF LinkHeld, RowBecomes, Ends, TaskBecomes, Holds
  <2>4. \A d \in Conns : \A m \in Links : Waits(d, m)' => (d = c /\ m = l) \/ Waits(d, m)
    BY <1>a, <2>1 DEF LinkHeld, LinkIfThere, RowBecomes, Ends, TaskBecomes, Waits
  <2>5. OneConsent'
    BY <2>1, <2>3 DEF Consents, OneConsent
  <2>6. OneSession'
    <3>1. \A m \in Links : m # l => link'[m] = link[m]
      BY <2>1 DEF LinkBecomes
    <3>2. link'[l].state = "open" /\ link'[l].item # NoItem
      BY <1>a, <2>1 DEF LinkBecomes
    <3>. QED BY <2>3, <2>4, <3>1, <3>2 DEF Consents, OneSession, Unused
  <2>7. OpeningFirst'
    <3>1. ASSUME NEW u \in Tasks, task'[u].at = "open"
          PROVE  /\ u # t /\ task[u].at = "open" /\ task'[u] = task[u]
                 /\ task[u].conn # c /\ task[u].conn \in Conns
      BY <1>a, <2>1, <2>2, <3>1 DEF Ends, TaskBecomes, TasksFit, Consents, OpeningFirst
    <3>2. ASSUME NEW u \in Tasks, task'[u].at = "open", NEW d \in Conns, task'[u].conn = d
          PROVE  /\ \A m \in Links : ~Waits(d, m)'
                 /\ \A j \in Items : ~Holds(d, j)'
      BY <2>3, <2>4, <3>1, <3>2 DEF Consents, OpeningFirst
    <3>3. ASSUME NEW u \in Tasks, NEW v \in Tasks, task'[u].at = "open", task'[v].at = "open",
                 task'[u].conn = task'[v].conn
          PROVE  u = v
      BY <3>1, <3>3 DEF Consents, OpeningFirst
    <3>. QED BY <3>1, <3>2, <3>3 DEF OpeningFirst
  <2>. QED BY <2>5, <2>6, <2>7 DEF Consents
<1>7. ASSUME NEW t \in Tasks, ProvisionMissing(t) PROVE Recedes
  <2>1. /\ task[t].conn \in Conns
        /\ task[t].at = "bind"
        /\ Goes(t, "pull")
        /\ UNCHANGED <<conn, link, item>>
    BY <1>7, ProvisionMissingDoes DEF History
  <2>. QED BY <2>1, <1>a, <1>b DEF Goes, TaskBecomes, Recedes, Holds, Waits
<1>8. ASSUME NEW t \in Tasks, Drop(t) PROVE Recedes
  <2>1. /\ task[t].conn \in Conns
        /\ task[t].at = "drop"
        /\ Exists(task[t].conn)
        /\ RowBecomes(task[t].conn, "DELETED", NoBank, NoLink, NoItem)
        /\ Ends(t)
        /\ UNCHANGED <<link, item>>
    BY <1>8, DropDoes DEF History
  <2>. QED BY <2>1, <1>a, <1>b DEF Ends, TaskBecomes, RowBecomes, Recedes, Holds, Waits
<1>9. ASSUME NEW k \in Items, ItemRevoked(k) PROVE Consents'
  <2>1. /\ \E c \in Conns : StatusBecomes(c, IfThere(c, "REVOKED"))
        /\ UNCHANGED <<task, link, item>>
    BY <1>9, ItemRevokedDoes
  <2>2. Recedes
    BY <2>1, <1>a, <1>b DEF StatusBecomes, IfThere, RowBecomes, Recedes, Holds, Waits
  <2>. QED BY <2>2, Receding
<1>. USE DEF Recedes, Holds, Waits, AccountBecomes, Ends, Failed, Goes, History, IfThere,
           ItemBecomes, LinkBecomes, LinkIfThere, RowBecomes, StateBecomes, StatusBecomes,
           TaskBecomes
<1>10. ASSUME NEW t \in Tasks, NEW bank \in Banks \cup {NoBank}, CheckBank(t, bank) PROVE Recedes
  BY <1>10, CheckBankDoes, <1>a, <1>b
<1>11. ASSUME NEW t \in Tasks, SessionRefused(t) PROVE Recedes
  BY <1>11, SessionRefusedDoes, <1>a, <1>b
<1>12. ASSUME NEW t \in Tasks, NEW c \in Conns, ReadForFinalize(t, c) PROVE Recedes
  BY <1>12, ReadForFinalizeDoes, <1>a, <1>b
<1>13. ASSUME NEW t \in Tasks, NEW l \in Links, SessionFinished(t, l) PROVE Recedes
  BY <1>13, SessionFinishedDoes, <1>a, <1>b
<1>14. ASSUME NEW t \in Tasks, CompleteRepair(t) PROVE Recedes
  BY <1>14, CompleteRepairDoes, <1>a, <1>b
<1>15. ASSUME NEW t \in Tasks, NotFinished(t) PROVE Recedes
  BY <1>15, NotFinishedDoes, <1>a, <1>b
<1>16. ASSUME NEW t \in Tasks, CompletionFails(t) PROVE Recedes
  BY <1>16, CompletionFailsDoes, <1>a, <1>b
<1>17. ASSUME NEW t \in Tasks, RefuseDuplicate(t) PROVE Recedes
  BY <1>17, RefuseDuplicateDoes, <1>a, <1>b
<1>18. ASSUME NEW t \in Tasks, StoreConsent(t) PROVE Recedes
  BY <1>18, StoreConsentDoes, <1>a, <1>b
<1>19. ASSUME NEW t \in Tasks, MarkLinked(t) PROVE Recedes
  BY <1>19, MarkLinkedDoes, <1>a, <1>b
<1>20. ASSUME NEW t \in Tasks, Abandon(t) PROVE Recedes
  BY <1>20, AbandonDoes, <1>a, <1>b
<1>21. ASSUME NEW t \in Tasks, NEW c \in Conns, ReadForRepair(t, c) PROVE Recedes
  BY <1>21, ReadForRepairDoes, <1>a, <1>b
<1>22. ASSUME NEW t \in Tasks, NEW c \in Conns, ReadForSync(t, c) PROVE Recedes
  BY <1>22, ReadForSyncDoes, <1>a, <1>b
<1>23. ASSUME NEW t \in Tasks, NEW c \in Conns, ListForSweep(t, c) PROVE Recedes
  BY <1>23, ListForSweepDoes, <1>a, <1>b
<1>24. ASSUME NEW t \in Tasks, ReadSwept(t) PROVE Recedes
  BY <1>24, ReadSweptDoes, <1>a, <1>b
<1>25. ASSUME NEW t \in Tasks, Pull(t) PROVE Recedes
  BY <1>25, PullDoes, <1>a, <1>b
<1>26. ASSUME NEW t \in Tasks, SyncDone(t) PROVE Recedes
  BY <1>26, SyncDoneDoes, <1>a, <1>b
<1>27. ASSUME NEW t \in Tasks, SyncBroken(t) PROVE Recedes
  BY <1>27, SyncBrokenDoes, <1>a, <1>b
<1>28. ASSUME NEW t \in Tasks, NEW c \in Conns, ReadForDelete(t, c) PROVE Recedes
  BY <1>28, ReadForDeleteDoes, <1>a, <1>b
<1>29. ASSUME NEW t \in Tasks, GiveUp(t) PROVE Recedes
  BY <1>29, GiveUpDoes, <1>a, <1>b
<1>30. ASSUME NEW l \in Links, NEW bank \in Banks, Approve(l, bank) PROVE Recedes
  BY <1>30, ApproveDoes, <1>a, <1>b
<1>31. ASSUME NEW k \in Items, Break(k) PROVE Recedes
  BY <1>31, BreakDoes, <1>a, <1>b
<1>32. ASSUME NEW k \in Items, RevokeAtBank(k) PROVE Recedes
  BY <1>32, RevokeAtBankDoes, <1>a, <1>b
<1>33. ASSUME NEW k \in Items, ItemError(k) PROVE Recedes
  BY <1>33, ItemErrorDoes, <1>a, <1>b
<1>34. ASSUME NEW c \in Conns, NEW bound \in BOOLEAN, BindAccount(c, bound) PROVE Recedes
  BY <1>34, BindAccountDoes, <1>a, <1>b
<1>35. ASSUME UNCHANGED connVars PROVE Recedes
  BY <1>35, <1>a, <1>b DEF connVars
<1>. QED
  BY <1>1, <1>2, <1>3, <1>4, <1>5, <1>6, <1>7, <1>8, <1>9, <1>10, <1>11, <1>12, <1>13,
     <1>14, <1>15, <1>16, <1>17, <1>18, <1>19, <1>20, <1>21, <1>22, <1>23, <1>24, <1>25, <1>26,
     <1>27, <1>28, <1>29, <1>30, <1>31, <1>32, <1>33, <1>34, <1>35, Receding
  DEF ConnNext, TaskNext, WorldNext


(***************************************************************************)
(* A working connection has its consent                                    *)
(***************************************************************************)

LEMMA StoredStep ==
  ASSUME ConnFit, Consents, StoredRight, [ConnNext]_connVars
  PROVE  StoredRight'
<1>a. /\ TasksFit /\ RowsFit
      /\ NoConn \notin Conns /\ NoItem \notin Items
  BY FeedConnectionsAssumption DEF ConnFit
<1>1. ASSUME NEW t \in Tasks, NEW k \in Items, Exchange(t, k) PROVE StoredRight'
  <2>1. /\ task[t].conn \in Conns /\ item[k].state = "none"
        /\ ItemBecomes(k, "live", link[task[t].link].bank, item[k].news)
        /\ TaskBecomes(t, "persist", task[t].conn, link[task[t].link].bank, task[t].link, k)
        /\ UNCHANGED conn
    BY <1>1, ExchangeDoes
  <2>2. /\ \A c \in Conns : conn[c].item # k
        /\ \A u \in Tasks : task[u].at \in {"persist", "provision", "store",
          "mark"} => task[u].item # k
    BY <1>a, <2>1 DEF Consents, OneConsent, Holds, TasksFit
  <2>. QED BY <1>a, <2>1, <2>2 DEF TaskBecomes, ItemBecomes, StoredRight, TasksFit, Exists, Statuses
<1>2. ASSUME NEW t \in Tasks, KeepAccount(t) PROVE StoredRight'
  <2>1. /\ task[t].conn \in Conns
        /\ task[t].at = "persist"
        /\ LiveAt(task[t].bank, task[t].conn) = {}
        /\ Exists(task[t].conn)
        /\ Goes(t, "provision")
        /\ UNCHANGED <<conn, item>>
    BY <1>2, KeepAccountDoes DEF History
  <2>. QED BY <2>1, <1>a DEF Goes, TaskBecomes, StoredRight, TasksFit, RowsFit, Exists, Statuses
<1>3. ASSUME NEW t \in Tasks, ProvisionConsent(t) PROVE StoredRight'
  <2>1. /\ task[t].conn \in Conns
        /\ task[t].at = "provision"
        /\ Exists(task[t].conn)
        /\ Goes(t, "store")
        /\ UNCHANGED <<conn, item>>
    BY <1>3, ProvisionConsentDoes DEF History
  <2>. QED BY <2>1, <1>a DEF Goes, TaskBecomes, StoredRight, TasksFit, RowsFit, Exists, Statuses
<1>4. ASSUME NEW t \in Tasks, StoreConsent(t) PROVE StoredRight'
  <2>. DEFINE c == task[t].conn
              k == task[t].item
  <2>1. /\ c \in Conns /\ k \in Items /\ task[t].at = "store" /\ Exists(c)
        /\ RowBecomes(c, conn[c].status, task[t].bank, NoLink, k)
        /\ TaskBecomes(t, "mark", c, task[t].bank, task[t].link, k) /\ UNCHANGED item
    BY <1>4, <1>a, StoreConsentDoes DEF TasksFit, Goes
  <2>2. task[t].bank = item[k].bank
    BY <2>1 DEF StoredRight
  <2>3. \A u \in Tasks : task[u].at = "mark" /\ task[u].conn = c => task[u].item = k
    BY <1>a, <2>1 DEF Consents, OneConsent, Holds, TasksFit
  <2>. HIDE DEF c, k
  <2>. QED BY <1>a, <2>1, <2>2, <2>3 DEF TaskBecomes, RowBecomes, StoredRight, TasksFit, Exists,
         Statuses
<1>5. ASSUME NEW t \in Tasks, ProvisionMissing(t) PROVE StoredRight'
  <2>1. /\ task[t].conn \in Conns
        /\ task[t].at = "bind"
        /\ Goes(t, "pull")
        /\ UNCHANGED <<conn, item>>
    BY <1>5, ProvisionMissingDoes DEF History
  <2>. QED BY <2>1, <1>a DEF Goes, TaskBecomes, StoredRight, TasksFit, RowsFit, Exists, Statuses
<1>6. ASSUME NEW t \in Tasks, Drop(t) PROVE StoredRight'
  <2>1. /\ task[t].conn \in Conns
        /\ task[t].at = "drop"
        /\ Exists(task[t].conn)
        /\ RowBecomes(task[t].conn, "DELETED", NoBank, NoLink, NoItem)
        /\ Ends(t)
        /\ UNCHANGED item
    BY <1>6, DropDoes DEF History
  <2>. QED BY <2>1, <1>a DEF Ends, TaskBecomes, RowBecomes, StoredRight, TasksFit, RowsFit, Exists,
         Statuses
<1>7. ASSUME NEW k \in Items, ItemRevoked(k) PROVE StoredRight'
  <2>1. /\ \E c \in Conns : StatusBecomes(c, IfThere(c, "REVOKED"))
        /\ UNCHANGED <<task, item>>
    BY <1>7, ItemRevokedDoes
  <2>. QED BY <2>1, <1>a DEF StatusBecomes, IfThere, RowBecomes, StoredRight, TasksFit, Exists,
         Statuses
<1>. USE DEF StoredRight, TasksFit, RowsFit, Exists, Statuses, AccountBecomes, Ends, Failed, Goes,
           History, IfThere, ItemBecomes, LinkBecomes, LinkHeld, LinkIfThere, RowBecomes,
           StateBecomes, StatusBecomes, TaskBecomes
<1>8. ASSUME NEW t \in Tasks, NEW bank \in Banks \cup {NoBank}, CheckBank(t, bank) PROVE StoredRight'
  BY <1>8, CheckBankDoes, <1>a
<1>9. ASSUME NEW t \in Tasks, NEW c \in Conns, InsertConnection(t, c) PROVE StoredRight'
  BY <1>9, InsertConnectionDoes, <1>a
<1>10. ASSUME NEW t \in Tasks, NEW l \in Links, OpenSession(t, l) PROVE StoredRight'
  BY <1>10, OpenSessionDoes, <1>a
<1>11. ASSUME NEW t \in Tasks, SessionRefused(t) PROVE StoredRight'
  BY <1>11, SessionRefusedDoes, <1>a
<1>12. ASSUME NEW t \in Tasks, NEW c \in Conns, ReadForFinalize(t, c) PROVE StoredRight'
  BY <1>12, ReadForFinalizeDoes, <1>a
<1>13. ASSUME NEW t \in Tasks, NEW l \in Links, SessionFinished(t, l) PROVE StoredRight'
  BY <1>13, SessionFinishedDoes, <1>a
<1>14. ASSUME NEW t \in Tasks, CompleteRepair(t) PROVE StoredRight'
  BY <1>14, CompleteRepairDoes, <1>a
<1>15. ASSUME NEW t \in Tasks, NotFinished(t) PROVE StoredRight'
  BY <1>15, NotFinishedDoes, <1>a
<1>16. ASSUME NEW t \in Tasks, CompletionFails(t) PROVE StoredRight'
  BY <1>16, CompletionFailsDoes, <1>a
<1>17. ASSUME NEW t \in Tasks, RefuseDuplicate(t) PROVE StoredRight'
  BY <1>17, RefuseDuplicateDoes, <1>a
<1>18. ASSUME NEW t \in Tasks, MarkLinked(t) PROVE StoredRight'
  BY <1>18, MarkLinkedDoes, <1>a
<1>19. ASSUME NEW t \in Tasks, Abandon(t) PROVE StoredRight'
  BY <1>19, AbandonDoes, <1>a
<1>20. ASSUME NEW t \in Tasks, NEW c \in Conns, ReadForRepair(t, c) PROVE StoredRight'
  BY <1>20, ReadForRepairDoes, <1>a
<1>21. ASSUME NEW t \in Tasks, NEW l \in Links, Reopen(t, l) PROVE StoredRight'
  BY <1>21, ReopenDoes, <1>a
<1>22. ASSUME NEW t \in Tasks, NEW c \in Conns, ReadForSync(t, c) PROVE StoredRight'
  BY <1>22, ReadForSyncDoes, <1>a
<1>23. ASSUME NEW t \in Tasks, NEW c \in Conns, ListForSweep(t, c) PROVE StoredRight'
  BY <1>23, ListForSweepDoes, <1>a
<1>24. ASSUME NEW t \in Tasks, ReadSwept(t) PROVE StoredRight'
  BY <1>24, ReadSweptDoes, <1>a
<1>25. ASSUME NEW t \in Tasks, Pull(t) PROVE StoredRight'
  BY <1>25, PullDoes, <1>a
<1>26. ASSUME NEW t \in Tasks, SyncDone(t) PROVE StoredRight'
  BY <1>26, SyncDoneDoes, <1>a
<1>27. ASSUME NEW t \in Tasks, SyncBroken(t) PROVE StoredRight'
  BY <1>27, SyncBrokenDoes, <1>a
<1>28. ASSUME NEW t \in Tasks, NEW c \in Conns, ReadForDelete(t, c) PROVE StoredRight'
  BY <1>28, ReadForDeleteDoes, <1>a
<1>29. ASSUME NEW t \in Tasks, GiveUp(t) PROVE StoredRight'
  BY <1>29, GiveUpDoes, <1>a
<1>30. ASSUME NEW l \in Links, NEW bank \in Banks, Approve(l, bank) PROVE StoredRight'
  BY <1>30, ApproveDoes, <1>a
<1>31. ASSUME NEW k \in Items, Break(k) PROVE StoredRight'
  BY <1>31, BreakDoes, <1>a
<1>32. ASSUME NEW k \in Items, RevokeAtBank(k) PROVE StoredRight'
  BY <1>32, RevokeAtBankDoes, <1>a
<1>33. ASSUME NEW k \in Items, ItemError(k) PROVE StoredRight'
  BY <1>33, ItemErrorDoes, <1>a
<1>34. ASSUME NEW c \in Conns, NEW bound \in BOOLEAN, BindAccount(c, bound) PROVE StoredRight'
  BY <1>34, BindAccountDoes, <1>a
<1>35. ASSUME UNCHANGED connVars PROVE StoredRight'
  BY <1>35, <1>a DEF connVars
<1>. QED
  BY <1>1, <1>2, <1>3, <1>4, <1>5, <1>6, <1>7, <1>8, <1>9, <1>10, <1>11, <1>12, <1>13,
     <1>14, <1>15, <1>16, <1>17, <1>18, <1>19, <1>20, <1>21, <1>22, <1>23, <1>24, <1>25, <1>26,
     <1>27, <1>28, <1>29, <1>30, <1>31, <1>32, <1>33, <1>34, <1>35
  DEF ConnNext, TaskNext, WorldNext


(***************************************************************************)
(* One live connection per bank                                            *)
(***************************************************************************)

LEMMA OneAtBankStep ==
  ASSUME ConnFit, StoredRight, OneAtBank, [ConnNext]_connVars
  PROVE  OneAtBank'
<1>a. /\ TasksFit
      /\ NoConn \notin Conns /\ NoBank \notin Banks
  BY FeedConnectionsAssumption DEF ConnFit
<1>1. ASSUME NEW t \in Tasks, NEW bank \in Banks \cup {NoBank}, CheckBank(t,
               bank) PROVE OneAtBank'
  <2>1. /\ bank # NoBank => LiveAt(bank, NoConn) = {}
        /\ TaskBecomes(t, "insert", NoConn, bank, NoLink, NoItem)
        /\ raced' = (raced \/ (bank # NoBank /\ PastCheck(bank)))
        /\ UNCHANGED <<conn, revived>>
    BY <1>1, CheckBankDoes
  <2>. SUFFICES ASSUME ~raced', revived' = {}
                PROVE  OneAtBank'
    BY DEF OneAtBank
  <2>2. bank # NoBank =>
          /\ \A c \in Conns : ~(LiveRow(c) /\ conn[c].bank = bank)
          /\ \A u \in Tasks : ~(Past(u) /\ task[u].bank = bank)
    BY <1>a, <2>1 DEF LiveAt, PastCheck, LiveRow, Past
  <2>3. ~raced /\ revived = {}
    BY <2>1 DEF PastCheck
  <2>4. /\ \A u \in Tasks : u # t => task'[u] = task[u]
        /\ task'[t].at = "insert" /\ task'[t].bank = bank /\ task'[t].conn = NoConn
    BY <2>1 DEF TaskBecomes
  <2>. SUFFICES ASSUME NEW b \in Banks
                PROVE  /\ \A c, d \in Conns : LiveRow(c)' /\ LiveRow(d)' /\ conn'[c].bank = b /\ conn'[d].bank = b
                                                => c = d
                       /\ \A u, v \in Tasks : Past(u)' /\ Past(v)' /\ task'[u].bank = b /\ task'[v].bank = b
                                                => u = v
                       /\ \A u \in Tasks : \A c \in Conns :
                            Past(u)' /\ task'[u].bank = b /\ LiveRow(c)' /\ conn'[c].bank = b
                              => task'[u].conn = c
    BY DEF OneAtBank
  <2>5. \A c, d \in Conns : LiveRow(c)' /\ LiveRow(d)' /\ conn'[c].bank = b /\ conn'[d].bank = b
          => c = d
    BY <2>1, <2>3 DEF OneAtBank, LiveRow
  <2>6. \A u, v \in Tasks : Past(u)' /\ Past(v)' /\ task'[u].bank = b /\ task'[v].bank = b
          => u = v
    BY <1>a, <2>2, <2>3, <2>4 DEF OneAtBank, Past
  <2>7. \A u \in Tasks : \A c \in Conns :
          Past(u)' /\ task'[u].bank = b /\ LiveRow(c)' /\ conn'[c].bank = b => task'[u].conn = c
    BY <1>a, <2>1, <2>2, <2>3, <2>4 DEF OneAtBank, Past, LiveRow
  <2>. QED BY <2>5, <2>6, <2>7
<1>2. ASSUME NEW t \in Tasks, NEW k \in Items, Exchange(t, k) PROVE OneAtBank'
  <2>1. /\ task[t].conn \in Conns
        /\ task[t].at = "complete" /\ task[t].item = NoItem /\ task[t].link \in Links
        /\ link[task[t].link].item = NoItem /\ ~link[task[t].link].spent
        /\ item[k].state = "none"
        /\ TaskBecomes(t, "persist", task[t].conn, link[task[t].link].bank, task[t].link, k)
        /\ UNCHANGED <<conn, raced, revived>>
    BY <1>2, ExchangeDoes DEF History
  <2>. QED BY <2>1, <1>a DEF TaskBecomes, OneAtBank, LiveRow, Past, TasksFit, Exists, Statuses
<1>3. ASSUME NEW t \in Tasks, KeepAccount(t) PROVE OneAtBank'
  <2>1. /\ task[t].conn \in Conns /\ task[t].at = "persist"
        /\ LiveAt(task[t].bank, task[t].conn) = {}
        /\ Goes(t, "provision")
        /\ raced' = (raced \/ PastCheck(task[t].bank))
        /\ UNCHANGED <<conn, revived>>
    BY <1>3, KeepAccountDoes
  <2>. SUFFICES ASSUME ~raced', revived' = {}
                PROVE  OneAtBank'
    BY DEF OneAtBank
  <2>2. /\ \A c \in Conns : LiveRow(c) /\ conn[c].bank = task[t].bank => c = task[t].conn
        /\ \A u \in Tasks : ~(Past(u) /\ task[u].bank = task[t].bank)
    BY <1>a, <2>1 DEF LiveAt, PastCheck, LiveRow, Past
  <2>3. ~raced /\ revived = {}
    BY <2>1 DEF PastCheck
  <2>4. /\ \A u \in Tasks : u # t => task'[u] = task[u]
        /\ task'[t].at = "provision" /\ task'[t].bank = task[t].bank /\ task'[t].conn = task[t].conn
    BY <2>1 DEF Goes, TaskBecomes
  <2>. SUFFICES ASSUME NEW b \in Banks
                PROVE  /\ \A c, d \in Conns : LiveRow(c)' /\ LiveRow(d)' /\ conn'[c].bank = b /\ conn'[d].bank = b
                                                => c = d
                       /\ \A u, v \in Tasks : Past(u)' /\ Past(v)' /\ task'[u].bank = b /\ task'[v].bank = b
                                                => u = v
                       /\ \A u \in Tasks : \A c \in Conns :
                            Past(u)' /\ task'[u].bank = b /\ LiveRow(c)' /\ conn'[c].bank = b
                              => task'[u].conn = c
    BY DEF OneAtBank
  <2>5. \A c, d \in Conns : LiveRow(c)' /\ LiveRow(d)' /\ conn'[c].bank = b /\ conn'[d].bank = b
          => c = d
    BY <2>1, <2>3 DEF OneAtBank, LiveRow
  <2>6. \A u, v \in Tasks : Past(u)' /\ Past(v)' /\ task'[u].bank = b /\ task'[v].bank = b
          => u = v
    BY <1>a, <2>2, <2>3, <2>4 DEF OneAtBank, Past
  <2>7. \A u \in Tasks : \A c \in Conns :
          Past(u)' /\ task'[u].bank = b /\ LiveRow(c)' /\ conn'[c].bank = b => task'[u].conn = c
    BY <1>a, <2>1, <2>2, <2>3, <2>4 DEF OneAtBank, Past, LiveRow
  <2>. QED BY <2>5, <2>6, <2>7
<1>4. ASSUME NEW t \in Tasks, ProvisionConsent(t) PROVE OneAtBank'
  <2>1. /\ task[t].conn \in Conns
        /\ task[t].at = "provision"
        /\ Exists(task[t].conn)
        /\ Goes(t, "store")
        /\ UNCHANGED <<conn, raced, revived>>
    BY <1>4, ProvisionConsentDoes DEF History
  <2>. QED BY <2>1, <1>a DEF Goes, TaskBecomes, OneAtBank, LiveRow, Past, TasksFit, Exists, Statuses
<1>5. ASSUME NEW t \in Tasks, MarkLinked(t) PROVE OneAtBank'
  <2>. DEFINE c == task[t].conn
  <2>1. /\ c \in Conns /\ task[t].at = "mark" /\ UNCHANGED <<raced, revived>>
        /\ StatusBecomes(c, IfThere(c, "LINKED"))
        /\ Ends(t)
    BY <1>5, MarkLinkedDoes DEF History
  <2>2. Exists(c) => task[t].bank = conn[c].bank
    BY <1>a, <2>1 DEF StoredRight, TasksFit
  <2>3. task[t].conn = c
    OBVIOUS
  <2>. HIDE DEF c
  <2>. QED BY <1>a, <2>1, <2>2, <2>3
           DEF Ends, StatusBecomes, IfThere, TaskBecomes, RowBecomes, OneAtBank, LiveRow, Past,
             TasksFit,
               Exists, Statuses
<1>6. ASSUME NEW t \in Tasks, ProvisionMissing(t) PROVE OneAtBank'
  <2>1. /\ task[t].conn \in Conns
        /\ task[t].at = "bind"
        /\ Goes(t, "pull")
        /\ UNCHANGED <<conn, raced, revived>>
    BY <1>6, ProvisionMissingDoes DEF History
  <2>. QED BY <2>1, <1>a DEF Goes, TaskBecomes, OneAtBank, LiveRow, Past, TasksFit, Exists, Statuses
<1>7. ASSUME NEW t \in Tasks, SyncDone(t) PROVE OneAtBank'
  <2>. DEFINE c == task[t].conn
  <2>1. /\ c \in Conns /\ task[t].at = "synced" /\ raced' = raced
        /\ StatusBecomes(c, IfThere(c, "LINKED"))
        /\ revived' = IF Exists(c) /\ conn[c].status # "LINKED" THEN revived \cup {c} ELSE revived
        /\ Ends(t)
    BY <1>7, SyncDoneDoes
  <2>. HIDE DEF c
  <2>. SUFFICES ASSUME ~raced', revived' = {}
                PROVE  OneAtBank'
    BY DEF OneAtBank
  <2>2. /\ ~raced /\ revived = {}
        /\ \A d \in Conns : conn'[d].status = conn[d].status /\ conn'[d].bank = conn[d].bank
    BY <2>1 DEF StatusBecomes, IfThere, RowBecomes
  <2>. QED BY <1>a, <2>1, <2>2 DEF Ends, TaskBecomes, OneAtBank, LiveRow, Past
<1>8. ASSUME NEW t \in Tasks, Drop(t) PROVE OneAtBank'
  <2>1. /\ task[t].conn \in Conns
        /\ task[t].at = "drop"
        /\ Exists(task[t].conn)
        /\ RowBecomes(task[t].conn, "DELETED", NoBank, NoLink, NoItem)
        /\ Ends(t)
        /\ UNCHANGED <<raced, revived>>
    BY <1>8, DropDoes DEF History
  <2>. QED BY <2>1, <1>a DEF Ends, TaskBecomes, RowBecomes, OneAtBank, LiveRow, Past, TasksFit,
         Exists, Statuses
<1>9. ASSUME NEW k \in Items, ItemRevoked(k) PROVE OneAtBank'
  <2>1. /\ \E c \in Conns : StatusBecomes(c, IfThere(c, "REVOKED"))
        /\ UNCHANGED <<task, raced, revived>>
    BY <1>9, ItemRevokedDoes
  <2>. QED BY <2>1, <1>a DEF StatusBecomes, IfThere, RowBecomes, OneAtBank, LiveRow, Past, Exists,
         Statuses
<1>. USE DEF OneAtBank, LiveRow, Past, TasksFit, Exists, Statuses, AccountBecomes, Ends, Failed,
           Goes, History, IfThere, ItemBecomes, LinkBecomes, LinkHeld, LinkIfThere, RowBecomes,
           StateBecomes, StatusBecomes, TaskBecomes
<1>10. ASSUME NEW t \in Tasks, NEW c \in Conns, InsertConnection(t, c) PROVE OneAtBank'
  BY <1>10, InsertConnectionDoes, <1>a
<1>11. ASSUME NEW t \in Tasks, NEW l \in Links, OpenSession(t, l) PROVE OneAtBank'
  BY <1>11, OpenSessionDoes, <1>a
<1>12. ASSUME NEW t \in Tasks, SessionRefused(t) PROVE OneAtBank'
  BY <1>12, SessionRefusedDoes, <1>a
<1>13. ASSUME NEW t \in Tasks, NEW c \in Conns, ReadForFinalize(t, c) PROVE OneAtBank'
  BY <1>13, ReadForFinalizeDoes, <1>a
<1>14. ASSUME NEW t \in Tasks, NEW l \in Links, SessionFinished(t, l) PROVE OneAtBank'
  BY <1>14, SessionFinishedDoes, <1>a
<1>15. ASSUME NEW t \in Tasks, CompleteRepair(t) PROVE OneAtBank'
  BY <1>15, CompleteRepairDoes, <1>a
<1>16. ASSUME NEW t \in Tasks, NotFinished(t) PROVE OneAtBank'
  BY <1>16, NotFinishedDoes, <1>a
<1>17. ASSUME NEW t \in Tasks, CompletionFails(t) PROVE OneAtBank'
  BY <1>17, CompletionFailsDoes, <1>a
<1>18. ASSUME NEW t \in Tasks, RefuseDuplicate(t) PROVE OneAtBank'
  BY <1>18, RefuseDuplicateDoes, <1>a
<1>19. ASSUME NEW t \in Tasks, StoreConsent(t) PROVE OneAtBank'
  BY <1>19, StoreConsentDoes, <1>a
<1>20. ASSUME NEW t \in Tasks, Abandon(t) PROVE OneAtBank'
  BY <1>20, AbandonDoes, <1>a
<1>21. ASSUME NEW t \in Tasks, NEW c \in Conns, ReadForRepair(t, c) PROVE OneAtBank'
  BY <1>21, ReadForRepairDoes, <1>a
<1>22. ASSUME NEW t \in Tasks, NEW l \in Links, Reopen(t, l) PROVE OneAtBank'
  BY <1>22, ReopenDoes, <1>a
<1>23. ASSUME NEW t \in Tasks, NEW c \in Conns, ReadForSync(t, c) PROVE OneAtBank'
  BY <1>23, ReadForSyncDoes, <1>a
<1>24. ASSUME NEW t \in Tasks, NEW c \in Conns, ListForSweep(t, c) PROVE OneAtBank'
  BY <1>24, ListForSweepDoes, <1>a
<1>25. ASSUME NEW t \in Tasks, ReadSwept(t) PROVE OneAtBank'
  BY <1>25, ReadSweptDoes, <1>a
<1>26. ASSUME NEW t \in Tasks, Pull(t) PROVE OneAtBank'
  BY <1>26, PullDoes, <1>a
<1>27. ASSUME NEW t \in Tasks, SyncBroken(t) PROVE OneAtBank'
  BY <1>27, SyncBrokenDoes, <1>a
<1>28. ASSUME NEW t \in Tasks, NEW c \in Conns, ReadForDelete(t, c) PROVE OneAtBank'
  BY <1>28, ReadForDeleteDoes, <1>a
<1>29. ASSUME NEW t \in Tasks, GiveUp(t) PROVE OneAtBank'
  BY <1>29, GiveUpDoes, <1>a
<1>30. ASSUME NEW l \in Links, NEW bank \in Banks, Approve(l, bank) PROVE OneAtBank'
  BY <1>30, ApproveDoes, <1>a
<1>31. ASSUME NEW k \in Items, Break(k) PROVE OneAtBank'
  BY <1>31, BreakDoes, <1>a
<1>32. ASSUME NEW k \in Items, RevokeAtBank(k) PROVE OneAtBank'
  BY <1>32, RevokeAtBankDoes, <1>a
<1>33. ASSUME NEW k \in Items, ItemError(k) PROVE OneAtBank'
  BY <1>33, ItemErrorDoes, <1>a
<1>34. ASSUME NEW c \in Conns, NEW bound \in BOOLEAN, BindAccount(c, bound) PROVE OneAtBank'
  BY <1>34, BindAccountDoes, <1>a
<1>35. ASSUME UNCHANGED connVars PROVE OneAtBank'
  BY <1>35, <1>a DEF connVars
<1>. QED
  BY <1>1, <1>2, <1>3, <1>4, <1>5, <1>6, <1>7, <1>8, <1>9, <1>10, <1>11, <1>12, <1>13,
     <1>14, <1>15, <1>16, <1>17, <1>18, <1>19, <1>20, <1>21, <1>22, <1>23, <1>24, <1>25, <1>26,
     <1>27, <1>28, <1>29, <1>30, <1>31, <1>32, <1>33, <1>34, <1>35
  DEF ConnNext, TaskNext, WorldNext

(***************************************************************************)
(* A completion that fails                                                 *)
(***************************************************************************)
BreaksByNews ==
  \A c \in Conns :
    conn[c].status = "LINKED" /\ conn'[c].status = "ERROR" =>
      \/ "ERROR" \in item[conn[c].item].news
      \/ \E t \in Tasks : task[t].conn = c /\ task[t].at \in {"broken", "reopen"}

LEMMA BreaksStep ==
  ASSUME ConnFit, Consents, StoredRight, [ConnNext]_connVars
  PROVE  BreaksByNews
<1>b. \A c \in Conns : conn[c].item \in Items \cup {NoItem}
  BY RowFields DEF ConnFit
<1>1. ASSUME NEW t \in Tasks, SessionRefused(t) PROVE BreaksByNews
  <2>1. /\ task[t].conn \in Conns /\ task[t].at \in {"open", "reopen"}
        /\ StatusBecomes(task[t].conn, IfThere(task[t].conn, "ERROR"))
    BY <1>1, SessionRefusedDoes
  <2>2. task[t].at = "open" => conn[task[t].conn].status # "LINKED"
    BY <1>b, <2>1 DEF Consents, OpeningFirst, Holds, StoredRight
  <2>. QED BY <2>1, <2>2 DEF StatusBecomes, IfThere, RowBecomes, BreaksByNews
<1>2. ASSUME NEW k \in Items, ItemRevoked(k) PROVE BreaksByNews
  <2>1. \E c \in Conns : StatusBecomes(c, IfThere(c, "REVOKED"))
    BY <1>2, ItemRevokedDoes
  <2>. QED BY <2>1 DEF StatusBecomes, IfThere, RowBecomes, BreaksByNews
<1>. USE DEF BreaksByNews, AccountBecomes, Ends, Failed, FindsAccount, Goes, History, IfThere,
           ItemBecomes, LinkBecomes, LinkHeld, LinkIfThere, OpensAccount, RowBecomes,
           StateBecomes, StatusBecomes, TaskBecomes
<1>3. ASSUME NEW t \in Tasks, NEW bank \in Banks \cup {NoBank}, CheckBank(t, bank)
      PROVE  BreaksByNews
  BY <1>3, CheckBankDoes
<1>4. ASSUME NEW t \in Tasks, NEW c \in Conns, InsertConnection(t, c) PROVE BreaksByNews
  BY <1>4, InsertConnectionDoes
<1>5. ASSUME NEW t \in Tasks, NEW l \in Links, OpenSession(t, l) PROVE BreaksByNews
  BY <1>5, OpenSessionDoes
<1>6. ASSUME NEW t \in Tasks, NEW c \in Conns, ReadForFinalize(t, c) PROVE BreaksByNews
  BY <1>6, ReadForFinalizeDoes
<1>7. ASSUME NEW t \in Tasks, NEW l \in Links, SessionFinished(t, l) PROVE BreaksByNews
  BY <1>7, SessionFinishedDoes
<1>8. ASSUME NEW t \in Tasks, CompleteRepair(t) PROVE BreaksByNews
  BY <1>8, CompleteRepairDoes
<1>9. ASSUME NEW t \in Tasks, NEW k \in Items, Exchange(t, k) PROVE BreaksByNews
  BY <1>9, ExchangeDoes
<1>10. ASSUME NEW t \in Tasks, NotFinished(t) PROVE BreaksByNews
  BY <1>10, NotFinishedDoes
<1>11. ASSUME NEW t \in Tasks, CompletionFails(t) PROVE BreaksByNews
  BY <1>11, CompletionFailsDoes
<1>12. ASSUME NEW t \in Tasks, RefuseDuplicate(t) PROVE BreaksByNews
  BY <1>12, RefuseDuplicateDoes
<1>13. ASSUME NEW t \in Tasks, KeepAccount(t) PROVE BreaksByNews
  BY <1>13, KeepAccountDoes
<1>14. ASSUME NEW t \in Tasks, ProvisionConsent(t) PROVE BreaksByNews
  BY <1>14, ProvisionConsentDoes
<1>15. ASSUME NEW t \in Tasks, StoreConsent(t) PROVE BreaksByNews
  BY <1>15, StoreConsentDoes
<1>16. ASSUME NEW t \in Tasks, MarkLinked(t) PROVE BreaksByNews
  BY <1>16, MarkLinkedDoes
<1>17. ASSUME NEW t \in Tasks, Abandon(t) PROVE BreaksByNews
  BY <1>17, AbandonDoes
<1>18. ASSUME NEW t \in Tasks, NEW c \in Conns, ReadForRepair(t, c) PROVE BreaksByNews
  BY <1>18, ReadForRepairDoes
<1>19. ASSUME NEW t \in Tasks, NEW l \in Links, Reopen(t, l) PROVE BreaksByNews
  BY <1>19, ReopenDoes
<1>20. ASSUME NEW t \in Tasks, NEW c \in Conns, ReadForSync(t, c) PROVE BreaksByNews
  BY <1>20, ReadForSyncDoes
<1>21. ASSUME NEW t \in Tasks, NEW c \in Conns, ListForSweep(t, c) PROVE BreaksByNews
  BY <1>21, ListForSweepDoes
<1>22. ASSUME NEW t \in Tasks, ReadSwept(t) PROVE BreaksByNews
  BY <1>22, ReadSweptDoes
<1>23. ASSUME NEW t \in Tasks, ProvisionMissing(t) PROVE BreaksByNews
  BY <1>23, ProvisionMissingDoes
<1>24. ASSUME NEW t \in Tasks, Pull(t) PROVE BreaksByNews
  BY <1>24, PullDoes
<1>25. ASSUME NEW t \in Tasks, SyncDone(t) PROVE BreaksByNews
  BY <1>25, SyncDoneDoes
<1>26. ASSUME NEW t \in Tasks, SyncBroken(t) PROVE BreaksByNews
  BY <1>26, SyncBrokenDoes
<1>27. ASSUME NEW t \in Tasks, NEW c \in Conns, ReadForDelete(t, c) PROVE BreaksByNews
  BY <1>27, ReadForDeleteDoes
<1>28. ASSUME NEW t \in Tasks, GiveUp(t) PROVE BreaksByNews
  BY <1>28, GiveUpDoes
<1>29. ASSUME NEW t \in Tasks, Drop(t) PROVE BreaksByNews
  BY <1>29, DropDoes
<1>30. ASSUME NEW l \in Links, NEW bank \in Banks, Approve(l, bank) PROVE BreaksByNews
  BY <1>30, ApproveDoes
<1>31. ASSUME NEW k \in Items, Break(k) PROVE BreaksByNews
  BY <1>31, BreakDoes
<1>32. ASSUME NEW k \in Items, RevokeAtBank(k) PROVE BreaksByNews
  BY <1>32, RevokeAtBankDoes
<1>33. ASSUME NEW k \in Items, ItemError(k) PROVE BreaksByNews
  BY <1>33, ItemErrorDoes
<1>34. ASSUME NEW c \in Conns, NEW bound \in BOOLEAN, BindAccount(c, bound) PROVE BreaksByNews
  BY <1>34, BindAccountDoes
<1>35. ASSUME UNCHANGED connVars PROVE BreaksByNews
  BY <1>35 DEF connVars
<1>. QED
  BY <1>1, <1>2, <1>3, <1>4, <1>5, <1>6, <1>7, <1>8, <1>9, <1>10, <1>11, <1>12, <1>13,
     <1>14, <1>15, <1>16, <1>17, <1>18, <1>19, <1>20, <1>21, <1>22, <1>23, <1>24, <1>25, <1>26,
     <1>27, <1>28, <1>29, <1>30, <1>31, <1>32, <1>33, <1>34, <1>35
  DEF ConnNext, TaskNext, WorldNext

(***************************************************************************)
(* The theorems                                                            *)
(***************************************************************************)
ConnInv == ConnFit /\ Consents /\ StoredRight /\ OneAtBank

LEMMA Inductive == ConnSpec => []ConnInv
<1>1. ConnInit => Consents /\ StoredRight /\ OneAtBank
  <2>. SUFFICES ASSUME ConnInit PROVE Consents /\ StoredRight /\ OneAtBank
    OBVIOUS
  <2>1. \A c \in Conns : /\ conn[c].status = "ABSENT" /\ conn[c].link = NoLink
                         /\ conn[c].item = NoItem
    BY DEF ConnInit
  <2>2. \A t \in Tasks : /\ task[t].at = "idle" /\ task[t].conn = NoConn
    BY DEF ConnInit, Idle
  <2>3. \A l \in Links : Unused(l)
    BY DEF ConnInit, Unused
  <2>4. /\ \A c \in Conns : \A k \in Items : ~Holds(c, k)
        /\ \A c \in Conns : \A l \in Links : ~Waits(c, l)
    BY <2>1, <2>2, FeedConnectionsAssumption DEF Holds, Waits
  <2>5. Consents
    BY <2>2, <2>3, <2>4 DEF Consents, OneConsent, OneSession, OpeningFirst
  <2>. QED BY <2>1, <2>2, <2>5, FeedConnectionsAssumption DEF StoredRight, OneAtBank, LiveRow, Past
<1>2. ConnInv /\ [ConnNext]_connVars => ConnInv'
  BY FitStep, ConsentsStep, StoredStep, OneAtBankStep DEF ConnInv
<1>. QED BY <1>1, <1>2, FitInit, PTL DEF ConnSpec, ConnInv

\* Every row, request, session and consent has its type in every reachable state.
THEOREM ConnTypes == ConnSpec => []ConnTypeOK
<1>1. ConnInv => ConnTypeOK
  BY DEF ConnInv, ConnFit
<1>. QED BY <1>1, Inductive, PTL

\* A LINKED connection holds the consent it syncs with, and no two hold the same,
\* whichever of FinalizeConnection and onSessionFinished comes first.
THEOREM Consent == ConnSpec => []LinkedHasConsent
<1>1. ConnInv => LinkedHasConsent
  <2>. SUFFICES ASSUME ConnInv PROVE LinkedHasConsent
    OBVIOUS
  <2>1. \A c \in Conns : conn[c].item \in Items \cup {NoItem}
    BY RowFields DEF ConnInv, ConnFit
  <2>2. \A c \in Conns : \A k \in Items : conn[c].item = k => Holds(c, k)
    BY DEF Holds
  <2>. QED BY <2>1, <2>2 DEF ConnInv, StoredRight, Consents, OneConsent, LinkedHasConsent
<1>. QED BY <1>1, Inductive, PTL

\* Two live connections at one bank come only of two requests past the check at once,
\* or of a sync that wrote LINKED over another status (LiveConnectionAtInstitution).
THEOREM OnePerBank == ConnSpec => []OneLivePerBank
<1>1. ConnInv => OneLivePerBank
  <2>1. ConnInv => \A c \in Conns : conn[c].bank \in Banks \cup {NoBank}
    BY RowFields DEF ConnInv, ConnFit
  <2>. QED BY <2>1 DEF ConnInv, OneAtBank, OneLivePerBank, LiveRow
<1>. QED BY <1>1, Inductive, PTL


\* FailFinalize and the refusal of a duplicate leave a connection that works alone.
THEOREM Loser == ConnSpec => LoserLeavesLinked
<1>1. ConnInv /\ [ConnNext]_connVars => BreaksByNews
  BY BreaksStep DEF ConnInv
<1>. QED BY <1>1, Inductive, PTL DEF ConnSpec, LoserLeavesLinked, BreaksByNews
==============================================================================
