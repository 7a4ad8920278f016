----------------------------- MODULE MCReadiness -----------------------------
(* Model checking Readiness: users that build, probe and fail together.      *)
EXTENDS Readiness, TLC
=============================================================================
