------------------------------ MODULE LineBook ------------------------------
(***************************************************************************)
(* What the inbox promises about a statement line, whoever acts on it and  *)
(* in whatever order: a line reaches the books only from a claim, and once *)
(* there it neither comes back to the inbox nor goes away, unless the file *)
(* it came in is undone; a line that is gone does not come back.           *)
(***************************************************************************)
CONSTANTS
  Lines,
  FeedLines

VARIABLE
  place         \* where each line is

Places == {"nowhere", "inbox", "claimed", "booked", "gone"}

Init == place = [l \in Lines |-> "nowhere"]

Move(l, from, to) ==
  /\ place[l] \in from
  /\ place' = [place EXCEPT ![l] = to]

Claim(l)  == Move(l, {"inbox"}, "claimed")
Book(l)   == Move(l, {"claimed"}, "booked")
Return(l) == Move(l, {"claimed"}, "inbox")
Arrive(l) == Move(l, {"nowhere"}, "inbox")
Drop(l)   == Move(l, {"inbox", "claimed"}, "gone")

\* A file brings in some of its lines at once.
ArriveTogether ==
  \E S \in SUBSET (Lines \ FeedLines) :
    /\ \A l \in S : place[l] = "nowhere"
    /\ place' = [l \in Lines |-> IF l \in S THEN "inbox" ELSE place[l]]

\* Undoing a file takes all of its lines away.
Undo ==
  place' = [l \in Lines |-> IF l \in FeedLines \/ place[l] = "nowhere"
                            THEN place[l] ELSE "gone"]

Next ==
  \/ \E l \in Lines : Claim(l) \/ Book(l) \/ Return(l) \/ Arrive(l) \/ Drop(l)
  \/ ArriveTogether
  \/ Undo

Spec == Init /\ [][Next]_place
=============================================================================
