-------------------------- MODULE MCOrderLifecycle --------------------------
(* TLC instances of OrderLifecycle: rows, order ids and spreads are model  *)
(* values and interchangeable.                                             *)
EXTENDS OrderLifecycle, TLC

Symmetry == Permutations(Row) \cup Permutations(Order) \cup Permutations(Spread)
=============================================================================
