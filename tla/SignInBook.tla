----------------------------- MODULE SignInBook -----------------------------
(***************************************************************************)
(* What refresh tokens promise: a sign-in has one token that works, or     *)
(* none.  A new token takes over from the one that works, and is used for  *)
(* nothing else, before or after; a sign-in that has ended has no token    *)
(* ever again.                                                             *)
(***************************************************************************)
CONSTANT Names      \* tokens; a sign-in is named after its first

VARIABLES
  working,      \* the tokens of each sign-in that work
  used          \* the tokens that were ever issued

signIns == <<working, used>>

Init ==
  /\ working = [s \in Names |-> {}]
  /\ used = {}

Open(k) ==
  /\ k \notin used
  /\ working' = [working EXCEPT ![k] = {k}]
  /\ used' = used \cup {k}

Replace(s, k) ==
  /\ working[s] # {}
  /\ k \notin used
  /\ working' = [working EXCEPT ![s] = {k}]
  /\ used' = used \cup {k}

\* Some sign-ins end together.
End(S) ==
  /\ working' = [s \in Names |-> IF s \in S THEN {} ELSE working[s]]
  /\ UNCHANGED used

Next ==
  \/ \E k \in Names : Open(k)
  \/ \E s, k \in Names : Replace(s, k)
  \/ \E S \in SUBSET Names : End(S)

Spec == Init /\ [][Next]_signIns
=============================================================================
