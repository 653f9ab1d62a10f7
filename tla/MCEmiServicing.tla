--------------------------- MODULE MCEmiServicing ---------------------------
(* EmiServicing on small instances. *)
EXTENDS EmiServicing, TLC

CONSTANTS n1, n2, t1, w1, w2, c1, l1

\* Executions of one kind are interchangeable
Interchangeable == Permutations(NachRuns) \cup Permutations(Workers)
=============================================================================
