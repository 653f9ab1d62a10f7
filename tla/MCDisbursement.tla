--------------------------- MODULE MCDisbursement ---------------------------
(* Model-checking instance of Disbursement: requests are interchangeable,   *)
(* and so are webhook workers.                                              *)
EXTENDS Disbursement, TLC

Symmetry == Permutations(Requests) \cup Permutations(Workers)
=============================================================================
