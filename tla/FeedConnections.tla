-------------------------- MODULE FeedConnections ---------------------------
(***************************************************************************)
(* The life of a bank feed connection: the consent flow a user finishes at *)
(* the bank, its completion by the browser's return and by the provider's  *)
(* webhook, repair, sync, disconnection, and the ledger account opened for *)
(* what was connected.  internal/handlers/bank_feed.go,                    *)
(* bank_feed_webhook.go and internal/repository/bank_feed.go, with the     *)
(* provider of internal/bankfeed/plaid.go.                                 *)
(*                                                                         *)
(* No handler holds a transaction over more than one statement, except     *)
(* ProvisionLedgerAccount: a request is a sequence of steps, each one      *)
(* statement or one call to the provider, and requests interleave at every *)
(* one of them.  A request may also die between two of them.               *)
(***************************************************************************)
EXTENDS Integers

CONSTANTS
  Conns,        \* row ids of connections
  Banks,        \* institutions
  Links,        \* the provider's consent sessions (Plaid link tokens)
  Items,        \* the provider's durable consents (Plaid item ids)
  Tasks,        \* requests, webhook deliveries and the background sweep
  NoConn, NoBank, NoLink, NoItem

ASSUME FeedConnectionsAssumption ==
  /\ NoConn \notin Conns
  /\ NoBank \notin Banks
  /\ NoLink \notin Links
  /\ NoItem \notin Items

VARIABLES
  conn,         \* connection rows
  account,      \* account[c]: the account found under c, and its ledger account
  task,         \* what each request holds, and its next step
  link,         \* the provider's sessions
  item,         \* the provider's consents
  raced,        \* history: a bank was checked while another task was past the check
  revived,      \* history: connections a sync has put back to LINKED
  released,     \* history: connections whose account a user has unbound
  told,         \* history: connections whose consent we were told is revoked
  crossed       \* history: those with a task under way when we were told

connVars == <<conn, account, task, link, item, raced, revived, released, told, crossed>>

Statuses == {"PENDING", "LINKED", "ERROR", "REVOKED"}
Exists(c) == conn[c].status \in Statuses

\* faulty: a connection that is still waiting for its consent does not count
LiveAtLinked(bank, except) ==
  {c \in Conns \ {except} : conn[c].status = "LINKED" /\ conn[c].bank = bank}

\* LiveConnectionAtInstitution
LiveAt(bank, except) ==
  {c \in Conns \ {except} : conn[c].status \in {"PENDING", "LINKED"} /\ conn[c].bank = bank}

Idle == [at |-> "idle", conn |-> NoConn, bank |-> NoBank, link |-> NoLink, item |-> NoItem]

Go(t, at)   == task' = [task EXCEPT ![t].at = at]
Finish(t)   == task' = [task EXCEPT ![t] = Idle]

SetStatusUpsert(c, status) ==     \* faulty: a row that is gone comes back
  conn' = [conn EXCEPT ![c].status = status]

\* An UPDATE by id finds nothing once the row is gone.
SetStatus(c, status) ==
  conn' = IF Exists(c) THEN [conn EXCEPT ![c].status = status] ELSE conn

FailFinalizeAlways(c) ==          \* faulty: whatever has become of the connection
  conn' = IF Exists(c) THEN [conn EXCEPT ![c].status = "ERROR"] ELSE conn

FailFinalize(c) ==
  conn' = IF Exists(c) /\ conn[c].status # "LINKED"
          THEN [conn EXCEPT ![c].status = "ERROR"] ELSE conn

ConnInit ==
  /\ conn    = [c \in Conns |-> [status |-> "ABSENT", bank |-> NoBank,
                                 link |-> NoLink, item |-> NoItem]]
  /\ account = [c \in Conns |-> [found |-> FALSE, bound |-> FALSE, opened |-> 0]]
  /\ task    = [t \in Tasks |-> Idle]
  /\ link    = [l \in Links |-> [state |-> "none", bank |-> NoBank, item |-> NoItem,
                                 spent |-> FALSE]]
  /\ item    = [k \in Items |-> [state |-> "none", bank |-> NoBank, news |-> {}]]
  /\ raced = FALSE /\ revived = {} /\ released = {} /\ told = {} /\ crossed = {}

External == <<link, item>>
History  == <<raced, revived, released, told, crossed>>

(***************************************************************************)
(* CreateConnection: check the bank, insert, open a session                *)
(***************************************************************************)

\* A task that has passed the check for this bank and has not finished.
PastCheck(bank) ==
  \E t \in Tasks : task[t].bank = bank
                   /\ task[t].at \in {"insert", "provision", "store", "mark"}

CheckBank(t, bank) ==
  /\ task[t].at = "idle"
  /\ bank # NoBank => LiveAt(bank, NoConn) = {}
  /\ task' = [task EXCEPT ![t] = [Idle EXCEPT !.at = "insert", !.bank = bank]]
  /\ raced' = (raced \/ (bank # NoBank /\ PastCheck(bank)))
  /\ UNCHANGED <<conn, account, External, revived, released, told, crossed>>

InsertConnection(t, c) ==
  /\ task[t].at = "insert"
  /\ conn[c].status = "ABSENT"
  /\ conn' = [conn EXCEPT ![c] = [status |-> "PENDING", bank |-> task[t].bank,
                                  link |-> NoLink, item |-> NoItem]]
  /\ task' = [task EXCEPT ![t].at = "open", ![t].conn = c]
  /\ UNCHANGED <<account, External, History>>

\* SetConnectionSession, with the session the provider has opened.
HoldLink(c, l) ==
  conn' = IF Exists(c) THEN [conn EXCEPT ![c].link = l] ELSE conn

\* The provider may refuse to pin the bank; the user then picks one there.
OpenSession(t, l) ==
  /\ task[t].at = "open"
  /\ link[l].state = "none"
  /\ \E bank \in {task[t].bank, NoBank} :
       link' = [link EXCEPT ![l] = [@ EXCEPT !.state = "open", !.bank = bank]]
  /\ HoldLink(task[t].conn, l)
  /\ Finish(t)
  /\ UNCHANGED <<account, item, History>>

\* Also the failure of a repair's session: the status is written whatever it was.
SessionRefused(t) ==
  /\ task[t].at \in {"open", "reopen"}
  /\ SetStatus(task[t].conn, "ERROR")
  /\ Finish(t)
  /\ UNCHANGED <<account, External, History>>

(***************************************************************************)
(* The user at the bank, and the bank itself                               *)
(***************************************************************************)
Approve(l, bank) ==
  /\ link[l].state = "open"
  /\ link[l].bank \in {bank, NoBank}
  /\ link' = [link EXCEPT ![l].state = "done", ![l].bank = bank]
  /\ LET k == link[l].item
     IN IF k = NoItem THEN UNCHANGED item
        ELSE /\ item[k].state \in {"live", "broken"}
             /\ item[k].bank = bank
             /\ item' = [item EXCEPT ![k].state = "live"]
  /\ UNCHANGED <<conn, account, task, History>>

\* The bank stops accepting a consent; the user revokes one.
Break(k) ==
  /\ item[k].state = "live"
  /\ item' = [item EXCEPT ![k].state = "broken", ![k].news = @ \cup {"ERROR"}]
  /\ UNCHANGED <<conn, account, task, link, History>>

RevokeAtBank(k) ==
  /\ item[k].state \in {"live", "broken"}
  /\ item' = [item EXCEPT ![k].state = "revoked", ![k].news = @ \cup {"REVOKED"}]
  /\ UNCHANGED <<conn, account, task, link, History>>

(***************************************************************************)
(* Completing a consent: FinalizeConnection and onSessionFinished          *)
(***************************************************************************)
Completing(t, c) ==
  task' = [task EXCEPT ![t] = [at |-> "complete", conn |-> c, bank |-> NoBank,
                               link |-> conn[c].link, item |-> conn[c].item]]

ReadForFinalize(t, c) ==
  /\ task[t].at = "idle"
  /\ conn[c].status \in Statuses \ {"LINKED"}
  /\ Completing(t, c)
  /\ UNCHANGED <<conn, account, External, History>>

\* ConnectionBySessionRef finds the row that waits on this session.  Deliveries
\* are repeated.
SessionFinished(t, l) ==
  /\ task[t].at = "idle"
  /\ link[l].state = "done"
  /\ \E c \in Conns : /\ conn[c].link = l
                      /\ conn[c].status \in Statuses \ {"LINKED"}
                      /\ Completing(t, c)
  /\ UNCHANGED <<conn, account, External, History>>

CompleteRepairUnread(t) ==        \* faulty: the accounts are not read again
  LET k == task[t].item
  IN /\ task[t].at = "complete"
     /\ k # NoItem
     /\ task' = [task EXCEPT ![t].at = "persist", ![t].bank = item[k].bank]
     /\ UNCHANGED <<conn, account, External, History>>

\* A repair exchanges nothing: the accounts are read again.
CompleteRepair(t) ==
  LET k == task[t].item
  IN /\ task[t].at = "complete"
     /\ k # NoItem
     /\ item[k].state = "live"
     /\ task' = [task EXCEPT ![t].at = "persist", ![t].bank = item[k].bank]
     /\ UNCHANGED <<conn, account, External, History>>

\* The public token of a session becomes an item once.
Exchange(t, k) ==
  LET l == task[t].link
  IN /\ task[t].at = "complete"
     /\ task[t].item = NoItem
     /\ l # NoLink
     /\ link[l].state = "done" /\ link[l].item = NoItem /\ ~link[l].spent
     /\ item[k].state = "none"
     /\ link' = [link EXCEPT ![l].spent = TRUE]
     /\ item' = [item EXCEPT ![k].state = "live", ![k].bank = link[l].bank]
     /\ task' = [task EXCEPT ![t].at = "persist", ![t].item = k, ![t].bank = link[l].bank]
     /\ UNCHANGED <<conn, account, History>>

\* ErrConsentNotFinished leaves the row as it is.
NotFinished(t) ==
  /\ task[t].at = "complete"
  /\ task[t].item = NoItem
  /\ task[t].link # NoLink
  /\ link[task[t].link].state = "open"
  /\ Finish(t)
  /\ UNCHANGED <<conn, account, External, History>>

\* Any other answer: a spent token, a consent that is over, an outage.
CompletionFails(t) ==
  /\ task[t].at = "complete"
  /\ FailFinalize(task[t].conn)
  /\ Finish(t)
  /\ UNCHANGED <<account, External, History>>

(***************************************************************************)
(* persistConsent                                                          *)
(***************************************************************************)
RefuseDuplicate(t) ==
  LET c == task[t].conn
  IN /\ task[t].at = "persist"
     /\ LiveAt(task[t].bank, c) # {}
     /\ conn' = IF ~Exists(c) THEN conn
                ELSE [conn EXCEPT ![c].link = NoLink,
                        ![c].status = IF @ = "LINKED" THEN @ ELSE "ERROR"]
     /\ Finish(t)
     /\ UNCHANGED <<account, External, History>>

\* The check again, then UpsertAccount, which keeps the binding.
KeepAccount(t) ==
  LET c == task[t].conn
  IN /\ task[t].at = "persist"
     /\ LiveAt(task[t].bank, c) = {}
     /\ Exists(c)
     /\ account' = [account EXCEPT ![c].found = TRUE]
     /\ Go(t, "provision")
     /\ raced' = (raced \/ PastCheck(task[t].bank))
     /\ UNCHANGED <<conn, External, revived, released, told, crossed>>

ProvisionAgain(c) ==              \* faulty: the binding is not read under the lock
  account' = [account EXCEPT ![c].bound = TRUE, ![c].opened = @ + 1]

\* ProvisionLedgerAccount, for a consent and for a sync alike: an account that is
\* bound already keeps its ledger account.
Provision(c) ==
  account' = IF account[c].bound THEN account
             ELSE [account EXCEPT ![c].bound = TRUE, ![c].opened = @ + 1]

ProvisionConsent(t) ==
  /\ task[t].at = "provision"
  /\ Exists(task[t].conn)
  /\ Provision(task[t].conn)
  /\ Go(t, "store")
  /\ UNCHANGED <<conn, External, History>>

\* SetConnectionInstitution and SetConnectionConsent, which ends the session.
StoreConsent(t) ==
  LET c == task[t].conn
  IN /\ task[t].at = "store"
     /\ Exists(c)
     /\ conn' = [conn EXCEPT ![c].bank = task[t].bank, ![c].item = task[t].item,
                             ![c].link = NoLink]
     /\ Go(t, "mark")
     /\ UNCHANGED <<account, External, History>>

MarkLinked(t) ==
  /\ task[t].at = "mark"
  /\ SetStatus(task[t].conn, "LINKED")
  /\ Finish(t)
  /\ UNCHANGED <<account, External, History>>

\* A statement that needs the row fails when it is gone; a process dies.
Abandon(t) ==
  /\ task[t].at # "idle"
  /\ Finish(t)
  /\ UNCHANGED <<conn, account, External, History>>

(***************************************************************************)
(* ReconnectConnection                                                     *)
(***************************************************************************)
ReadForRepair(t, c) ==
  /\ task[t].at = "idle"
  /\ Exists(c) /\ conn[c].item # NoItem /\ conn[c].status # "REVOKED"
  /\ task' = [task EXCEPT ![t] = [Idle EXCEPT !.at = "reopen", !.conn = c,
                                              !.item = conn[c].item]]
  /\ UNCHANGED <<conn, account, External, History>>

Reopen(t, l) ==
  LET k == task[t].item
  IN /\ task[t].at = "reopen"
     /\ link[l].state = "none"
     /\ item[k].state \in {"live", "broken"}
     /\ link' = [link EXCEPT ![l] = [@ EXCEPT !.state = "open", !.item = k,
                                              !.bank = item[k].bank]]
     /\ HoldLink(task[t].conn, l)
     /\ Finish(t)
     /\ UNCHANGED <<account, item, History>>

(***************************************************************************)
(* Syncs: the Sync button and the background sweep                         *)
(***************************************************************************)
Loaded(t, c) ==
  task' = [task EXCEPT ![t] =
       [Idle EXCEPT !.at = IF account[c].found /\ ~account[c].bound THEN "bind" ELSE "pull",
                    !.conn = c, !.item = conn[c].item]]

ReadForSync(t, c) ==
  /\ task[t].at = "idle"
  /\ conn[c].status = "LINKED"
  /\ Loaded(t, c)
  /\ UNCHANGED <<conn, account, External, History>>

\* The sweep lists the LINKED connections first, and loads each when its turn comes,
\* whatever its status is by then.
ListForSweep(t, c) ==
  /\ task[t].at = "idle"
  /\ conn[c].status = "LINKED"
  /\ task' = [task EXCEPT ![t] = [Idle EXCEPT !.at = "listed", !.conn = c]]
  /\ UNCHANGED <<conn, account, External, History>>

ReadSwept(t) ==
  /\ task[t].at = "listed"
  /\ Exists(task[t].conn)
  /\ Loaded(t, task[t].conn)
  /\ UNCHANGED <<conn, account, External, History>>

\* A failure to open the account is logged, and the sync goes on.
ProvisionMissing(t) ==
  /\ task[t].at = "bind"
  /\ IF Exists(task[t].conn) THEN Provision(task[t].conn) ELSE UNCHANGED account
  /\ Go(t, "pull")
  /\ UNCHANGED <<conn, External, History>>

\* What the provider answers decides what the sync will write; a failure that is
\* not about the consent changes nothing but a message (Abandon).
Pull(t) ==
  /\ task[t].at = "pull"
  /\ Go(t, IF item[task[t].item].state = "live" THEN "synced" ELSE "broken")
  /\ UNCHANGED <<conn, account, External, History>>

\* The status is written whatever it has become meanwhile.
SyncDone(t) ==
  LET c == task[t].conn
  IN /\ task[t].at = "synced"
     /\ SetStatus(c, "LINKED")
     /\ revived' = IF Exists(c) /\ conn[c].status # "LINKED" THEN revived \cup {c} ELSE revived
     /\ Finish(t)
     /\ UNCHANGED <<account, External, raced, released, told, crossed>>

SyncBroken(t) ==
  /\ task[t].at = "broken"
  /\ SetStatus(task[t].conn, "ERROR")
  /\ Finish(t)
  /\ UNCHANGED <<account, External, History>>

(***************************************************************************)
(* DeleteConnection: read, give the consent up, delete                     *)
(***************************************************************************)
ReadForDelete(t, c) ==
  /\ task[t].at = "idle"
  /\ Exists(c)
  /\ task' = [task EXCEPT ![t] = [Idle EXCEPT !.at = "giveUp", !.conn = c,
                                              !.item = conn[c].item]]
  /\ UNCHANGED <<conn, account, External, History>>

\* Best effort: the provider may refuse.
GiveUp(t) ==
  LET k == task[t].item
  IN /\ task[t].at = "giveUp"
     /\ \/ UNCHANGED item
        \/ /\ k # NoItem
           /\ item' = [item EXCEPT ![k].state = "removed"]
     /\ Go(t, "drop")
     /\ UNCHANGED <<conn, account, link, History>>

\* The account goes with the row; its ledger account stays in the chart.
Drop(t) ==
  LET c == task[t].conn
  IN /\ task[t].at = "drop"
     /\ Exists(c)
     /\ conn' = [conn EXCEPT ![c] = [status |-> "DELETED", bank |-> NoBank,
                                     link |-> NoLink, item |-> NoItem]]
     /\ account' = [account EXCEPT ![c].found = FALSE, ![c].bound = FALSE]
     /\ Finish(t)
     /\ UNCHANGED <<External, History>>

\* BindFeedAccount, to an account of the chart or to none.
BindAccount(c, bound) ==
  /\ account[c].found
  /\ account[c].bound # bound
  /\ account' = [account EXCEPT ![c].bound = bound]
  /\ released' = released \cup {c}
  /\ UNCHANGED <<conn, task, External, raced, revived, told, crossed>>

(***************************************************************************)
(* onItemEvent: news of an item, found by its reference, late and repeated *)
(***************************************************************************)
ItemError(k) ==
  /\ "ERROR" \in item[k].news
  /\ \E c \in Conns : /\ conn[c].item = k
                      /\ conn[c].status = "LINKED"
                      /\ SetStatus(c, "ERROR")
  /\ UNCHANGED <<account, task, External, History>>

Busy(c) == \E t \in Tasks : task[t].at # "idle" /\ task[t].conn = c

ItemRevoked(k) ==
  /\ "REVOKED" \in item[k].news
  /\ \E c \in Conns : /\ conn[c].item = k
                      /\ SetStatus(c, "REVOKED")
                      /\ told' = told \cup {c}
                      /\ crossed' = IF Busy(c) THEN crossed \cup {c} ELSE crossed
  /\ UNCHANGED <<account, task, External, raced, revived, released>>

(***************************************************************************)
(* The specification                                                       *)
(***************************************************************************)
TaskNext(t) ==
  \/ \E bank \in Banks \cup {NoBank} : CheckBank(t, bank)
  \/ \E c \in Conns : \/ InsertConnection(t, c)
                      \/ ReadForFinalize(t, c)
                      \/ ReadForRepair(t, c)
                      \/ ReadForSync(t, c) \/ ListForSweep(t, c)
                      \/ ReadForDelete(t, c)
  \/ \E l \in Links : OpenSession(t, l) \/ SessionFinished(t, l) \/ Reopen(t, l)
  \/ \E k \in Items : Exchange(t, k)
  \/ SessionRefused(t) \/ NotFinished(t) \/ CompleteRepair(t) \/ CompletionFails(t)
  \/ RefuseDuplicate(t) \/ KeepAccount(t) \/ ProvisionConsent(t)
  \/ StoreConsent(t) \/ MarkLinked(t) \/ Abandon(t)
  \/ ReadSwept(t) \/ ProvisionMissing(t) \/ Pull(t) \/ SyncDone(t) \/ SyncBroken(t)
  \/ GiveUp(t) \/ Drop(t)

WorldNext ==
  \/ \E l \in Links, bank \in Banks : Approve(l, bank)
  \/ \E k \in Items : Break(k) \/ RevokeAtBank(k) \/ ItemError(k) \/ ItemRevoked(k)
  \/ \E c \in Conns, bound \in BOOLEAN : BindAccount(c, bound)

ConnNext == (\E t \in Tasks : TaskNext(t)) \/ WorldNext

ConnSpec == ConnInit /\ [][ConnNext]_connVars

(***************************************************************************)
(* Properties                                                              *)
(***************************************************************************)
Steps == {"idle", "insert", "open", "complete", "persist", "provision", "store", "mark",
          "reopen", "listed", "bind", "pull", "synced", "broken", "giveUp", "drop"}

ConnTypeOK ==
  /\ conn \in [Conns -> [status : Statuses \cup {"ABSENT", "DELETED"},
                         bank : Banks \cup {NoBank}, link : Links \cup {NoLink},
                         item : Items \cup {NoItem}]]
  /\ account \in [Conns -> [found : BOOLEAN, bound : BOOLEAN, opened : Nat]]
  /\ task \in [Tasks -> [at : Steps, conn : Conns \cup {NoConn}, bank : Banks \cup {NoBank},
                         link : Links \cup {NoLink}, item : Items \cup {NoItem}]]
  /\ link \in [Links -> [state : {"none", "open", "done"}, bank : Banks \cup {NoBank},
                         item : Items \cup {NoItem}, spent : BOOLEAN]]
  /\ item \in [Items -> [state : {"none", "live", "broken", "revoked", "removed"},
                         bank : Banks \cup {NoBank}, news : SUBSET {"ERROR", "REVOKED"}]]
  /\ raced \in BOOLEAN
  /\ revived \subseteq Conns /\ released \subseteq Conns
  /\ told \subseteq Conns /\ crossed \subseteq Conns

\* A connection that is LINKED holds a consent to sync with, and a consent is held
\* by one connection, whichever of the two completions of a session came first.
LinkedHasConsent ==
  /\ \A c \in Conns : conn[c].status = "LINKED" => conn[c].item # NoItem
  /\ \A c, d \in Conns : c # d /\ conn[c].item = conn[d].item => conn[c].item = NoItem

\* Two completions of one session, a repair and a sync: whoever comes first opens
\* the one ledger account of what was connected, unless a user unbinds it.
OneAccountOpened ==
  \A c \in Conns : c \notin released => account[c].opened <= 1

\* One live connection per bank, unless two tasks were past the check for it at
\* the same time, or a sync under way wrote LINKED over a status that said otherwise.
OneLivePerBank ==
  ~raced /\ revived = {} =>
    \A c, d \in {e \in Conns : conn[e].status \in {"PENDING", "LINKED"}} :
      c # d /\ conn[c].bank = conn[d].bank => conn[c].bank = NoBank

\* A connection we were told is revoked never works again, unless something was
\* under way on it just then.
RevokedStaysDown ==
  \A c \in told \ crossed : conn[c].status # "LINKED"

\* A completion that fails does not undo the one that succeeded: a working
\* connection breaks only by news of its consent, by a sync that found it broken, or
\* by a repair that could not be started.
LoserLeavesLinked ==
  [][\A c \in Conns :
       conn[c].status = "LINKED" /\ conn'[c].status = "ERROR" =>
         \/ "ERROR" \in item[conn[c].item].news
         \/ \E t \in Tasks : task[t].conn = c /\ task[t].at \in {"broken", "reopen"}]_connVars
=============================================================================
