--------------------------- MODULE MCBudgetGuard ---------------------------
(* Model checking BudgetGuard: more requests than slots, and a cap that two *)
(* requests can each reach alone.                                           *)
EXTENDS BudgetGuard, TLC

Symmetry == Permutations(Requests)
=============================================================================
