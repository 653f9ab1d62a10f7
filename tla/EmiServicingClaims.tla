------------------------- MODULE EmiServicingClaims -------------------------
(* What comments of the code say of EMI collection, for EmiServicing to refute. *)
EXTENDS MCEmiServicing

\* payments.service.ts:301, of a debit the gateway answers "captured": "EMI marked
\* paid via webhook - not here".
CapturedDebitPaysEmi == \A d \in Debit : debit[d] = "SUCCESS" ~> emi[d[1]] = "PAID"
=============================================================================
