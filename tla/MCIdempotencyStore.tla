------------------------ MODULE MCIdempotencyStore ------------------------
(* Model checking IdempotencyStore: two threads race on one key while a     *)
(* third row expires, is deleted and is replaced.                           *)
EXTENDS IdempotencyStore, TLC

Symmetry == Permutations(Threads) \cup Permutations(Responses)
=============================================================================
