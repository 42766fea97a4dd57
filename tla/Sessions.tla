------------------------------ MODULE Sessions ------------------------------
(***************************************************************************)
(* The refresh tokens of one user: internal/repository/refresh_token.go    *)
(* and the sign-in handlers of internal/handlers/auth.go.                  *)
(*                                                                         *)
(* A refresh reads its token in one statement and rotates it in a          *)
(* transaction: the UPDATE that revokes the old token locks its row until  *)
(* the replacement commits.  RevokeAllForUser is one statement, but it     *)
(* sees the tokens that are live when it starts and then waits for the     *)
(* locked ones, so it is two steps here.                                   *)
(***************************************************************************)
EXTENDS Naturals

CONSTANTS
  Tokens,       \* row ids
  Requests,     \* requests that refresh or sign out
  NoToken

ASSUME SessionsAssumption == NoToken \notin Tokens

VARIABLES
  token,        \* token rows: live or revoked, what replaced them, their sign-in
  refresh       \* what each request holds, and its next step

sessionVars == <<token, refresh>>

AtRest == [at |-> "idle", token |-> NoToken, seen |-> {}]

SessionsInit ==
  /\ token   = [k \in Tokens |-> [state |-> "none", expired |-> FALSE,
                                  next |-> NoToken, first |-> NoToken]]
  /\ refresh = [r \in Requests |-> AtRest]

Live(k) == token[k].state = "live"

\* A rotation under way holds the row lock of the token it replaces.
RowLocked(k) == \E r \in Requests : refresh[r].at = "rotating" /\ refresh[r].token = k

Rest(r)   == refresh' = [refresh EXCEPT ![r] = AtRest]
Turn(r, at) == refresh' = [refresh EXCEPT ![r].at = at]

\* issueSession: Login and Register.
SignIn(k) ==
  /\ token[k].state = "none"
  /\ token' = [token EXCEPT ![k].state = "live", ![k].first = k]
  /\ UNCHANGED refresh

Expire(k) ==
  /\ token[k].state # "none" /\ ~token[k].expired
  /\ token' = [token EXCEPT ![k].expired = TRUE]
  /\ UNCHANGED refresh

\* GetByHash and its two tests: a revoked token ends every session of the user, an
\* expired one is turned away (and nothing changes).
Present(r, k) ==
  /\ refresh[r].at = "idle"
  /\ token[k].state # "none"
  /\ Live(k) => ~token[k].expired
  /\ refresh' = [refresh EXCEPT ![r] = [at |-> IF Live(k) THEN "rotate" ELSE "wipe",
                                         token |-> k, seen |-> {}]]
  /\ UNCHANGED token

StillLiveAlways(k) == TRUE      \* faulty: the UPDATE does not test revoked_at

\* The test of the UPDATE that revokes the old token.
StillLive(k) == Live(k)

\* The race was lost: as if a revoked token had been presented.
LoseRace(r) ==
  /\ refresh[r].at = "rotate"
  /\ ~RowLocked(refresh[r].token)
  /\ ~StillLive(refresh[r].token)
  /\ Turn(r, "wipe")
  /\ UNCHANGED token

BeginRotate(r) ==
  /\ refresh[r].at = "rotate"
  /\ ~RowLocked(refresh[r].token)
  /\ StillLive(refresh[r].token)
  /\ Turn(r, "rotating")
  /\ UNCHANGED token

CommitRotate(r, new) ==
  LET old == refresh[r].token
  IN /\ refresh[r].at = "rotating"
     /\ token[new].state = "none"
     /\ token' = [token EXCEPT ![old].state = "revoked", ![old].next = new,
                               ![new].state = "live", ![new].first = token[old].first]
     /\ Rest(r)

\* A statement fails or the process dies: a transaction leaves no trace.
GiveUpRequest(r) ==
  /\ refresh[r].at # "idle"
  /\ Rest(r)
  /\ UNCHANGED token

\* Logout with ?everywhere=true.
SignOutEverywhere(r) ==
  /\ refresh[r].at = "idle"
  /\ Turn(r, "wipe")
  /\ UNCHANGED token

BeginWipe(r) ==
  /\ refresh[r].at = "wipe"
  /\ refresh' = [refresh EXCEPT ![r].at = "wiping", ![r].seen = {k \in Tokens : Live(k)}]
  /\ UNCHANGED token

EndWipe(r) ==
  /\ refresh[r].at = "wiping"
  /\ \A k \in refresh[r].seen : ~RowLocked(k)
  /\ token' = [k \in Tokens |->
                 IF k \in refresh[r].seen THEN [token[k] EXCEPT !.state = "revoked"] ELSE token[k]]
  /\ Rest(r)

\* Logout of one device: RevokeByID.
SignOut(k) ==
  /\ Live(k)
  /\ ~RowLocked(k)
  /\ token' = [token EXCEPT ![k].state = "revoked"]
  /\ UNCHANGED refresh

SessionsNext ==
  \/ \E k \in Tokens : SignIn(k) \/ Expire(k) \/ SignOut(k)
  \/ \E r \in Requests :
       \/ \E k \in Tokens : Present(r, k) \/ CommitRotate(r, k)
       \/ LoseRace(r) \/ BeginRotate(r) \/ GiveUpRequest(r)
       \/ SignOutEverywhere(r) \/ BeginWipe(r) \/ EndWipe(r)

SessionsSpec == SessionsInit /\ [][SessionsNext]_sessionVars

(***************************************************************************)
(* Properties                                                              *)
(***************************************************************************)
SessionsTypeOK ==
  /\ token \in [Tokens -> [state : {"none", "live", "revoked"}, expired : BOOLEAN,
                           next : Tokens \cup {NoToken}, first : Tokens \cup {NoToken}]]
  /\ refresh \in [Requests -> [at : {"idle", "rotate", "rotating", "wipe", "wiping"},
                               token : Tokens \cup {NoToken}, seen : SUBSET Tokens]]

\* The tokens of a sign-in that work.
Working(s) == {k \in Tokens : Live(k) /\ token[k].first = s}

SignIns == INSTANCE SignInBook WITH
             Names <- Tokens, working <- [s \in Tokens |-> Working(s)],
             used <- {k \in Tokens : token[k].state # "none"}

\* However many refreshes race with each other, with a sign-out and with its late half,
\* a sign-in never has two tokens that work, none takes over from one that does not, and
\* a sign-in that has ended never comes back.  (Rotate, RevokeAllForUser)
KeepsSignInBook == SignIns!Spec
=============================================================================
