---------------------------- MODULE MCExtraction ----------------------------
(* Model checking Extraction: three requests over two slots, so that two    *)
(* pass the budget check on the same total while the third waits.           *)
EXTENDS Extraction, TLC

Symmetry == Permutations(Requests)
=============================================================================
