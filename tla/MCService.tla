----------------------------- MODULE MCService -----------------------------
(* Model checking Service: three requests, so that a caller can retry after *)
(* a race, after a crash and after an expiration.                           *)
EXTENDS Service, TLC

Symmetry == Permutations(Requests) \cup Permutations(Payloads)
=============================================================================
