------------------------------- MODULE MCGate -------------------------------
(* Model checking Gate: more connections than slots, bodies up to one chunk  *)
(* past the cap.                                                             *)
EXTENDS Gate, TLC
=============================================================================
