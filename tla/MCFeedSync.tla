----------------------------- MODULE MCFeedSync -----------------------------
(***************************************************************************)
(* Instances of FeedSync for TLC.                                          *)
(***************************************************************************)
EXTENDS FeedSync, TLC

\* Transactions are alike, and so are syncs.
Symmetry == Permutations(Trans) \cup Permutations(Syncs)
=============================================================================
