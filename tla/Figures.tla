------------------------------- MODULE Figures -------------------------------
(***************************************************************************)
(* What the queries of internal/repository/report.go take from SQL: SUM    *)
(* over the rows of a table, and ORDER BY.                                 *)
(***************************************************************************)
EXTENDS Integers, FiniteSets, Functions

Total(S, f) == FoldFunctionOnSet(+, 0, f, S)

\* The rows S in the order of how many come before each: earlier[x] is the set of
\* those before x.
InOrder(S, earlier) ==
  [n \in 1 .. Cardinality(S) |-> CHOOSE x \in S : Cardinality(earlier[x]) = n - 1]
=============================================================================
