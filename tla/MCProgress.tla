----------------------------- MODULE MCProgress -----------------------------
(* Model-checking instance of Progress; liveness is checked without symmetry. *)
EXTENDS Progress, TLC

CONSTANTS i1, i2, c1, c2
=============================================================================
