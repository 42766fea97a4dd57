---------------------------- MODULE MCReconcile -----------------------------
(***************************************************************************)
(* Instances of Reconcile for TLC.                                         *)
(***************************************************************************)
EXTENDS Reconcile, TLC

\* Requests run the same code, and rows of the ledger and transfers start alike.
Symmetry == Permutations(Requests) \cup Permutations(Txs) \cup Permutations(Transfers)
=============================================================================
