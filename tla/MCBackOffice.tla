---------------------------- MODULE MCBackOffice ----------------------------
(* Model-checking instance of BackOffice.  Executions of the same endpoint   *)
(* are interchangeable, and so are rows of the same table; components share  *)
(* the two values, x1 and x2, that stand for them.                           *)
EXTENDS BackOffice, TLC

CONSTANTS x1, x2

KycChecks(excepted) == Mandatory \ (excepted \cup {"PAN_VERIFY", "RISK_SCORE", "DATA_BREACH"})

\* Three customers: one whose PAN card is still to be uploaded, one who has to
\* verify his Aadhaar, and one with most of the app's checks still to run
Late  == [prior |-> KycChecks({"PAN_OCR"}), uploaded |-> KycDocs \ {"pan"}, runs |-> {"PAN_VERIFY"}]
Early == [prior |-> KycChecks({"AADHAAR_VERIFY"}), uploaded |-> KycDocs, runs |-> {"AADHAAR_VERIFY"}]
Face  == [prior |-> KycChecks({}), uploaded |-> KycDocs,
          runs  |-> {"PAN_VERIFY", "GST_VERIFY", "BANK_ACCOUNT", "BANK_STATEMENT", "LIVENESS"}]
Customers == {Late, Early, Face}

AtTheStart == [runs |-> Late.runs, endpoint |-> "cdl", platform |-> "web", product |-> "cdl"]

Symmetry == Permutations({x1, x2})
=============================================================================
