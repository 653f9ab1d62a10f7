----------------------------- MODULE Application -----------------------------
(***************************************************************************)
(* The row of loan_applications of ONE application, and every endpoint     *)
(* that writes its status.  Each endpoint reads the row, checks the status *)
(* it read (or does not), writes the appointment, the collateral or the    *)
(* report it is about, and then the status, by id and without a condition. *)
(* Calls interleave between those steps and may end there.                 *)
(*                                                                         *)
(* Underwriting always rejects: nothing writes the AML response that its   *)
(* rule reads, so the rule fails hard, and the branches for an APPROVED    *)
(* and for a REFERRED report are dead.  Nothing calls progressToUnderwriting.*)
(***************************************************************************)
EXTENDS Naturals, FiniteSets

CONSTANTS
    Staff,      \* executions of the endpoints
    Products,   \* which products the application may be for
    Disruptions \* bound on the calls that end between two of their steps

ASSUME ApplicationAssumption ==
    Products \subseteq {"cdl", "gold", "housing"} /\ Disruptions \in Nat

VARIABLES
    product,
    status,       \* loan_applications.status, "none" before the row is created
    terms,        \* "set" once approved_amount is
    appointment,  \* is there a gold appointment?  Nothing reads its status.
    collateral,   \* is there a collateral_gold or collateral_property row?
    account,      \* is there a loan_accounts row?
    does,         \* the endpoint an execution runs
    next,         \* its next step
    read,         \* the status it read
    disruptions,
    overlapped    \* history: a guarded call wrote over a status it had not read

rowVars         == <<product, status, terms>>
recordVars      == <<appointment, collateral, account>>
callVars        == <<does, next, read>>
applicationVars == <<rowVars, recordVars, callVars, disruptions, overlapped>>

LoanStatus == {"DRAFT", "KYC_PENDING", "UNDERWRITING", "APPOINTMENT_BOOKED", "APPRAISAL_PENDING",
               "PROPERTY_ASSESSMENT", "PENDING_APPROVAL", "APPROVED", "REJECTED", "DISBURSED"}

\* The endpoints of every product, and those of one
Common == {"submitApplication", "runUnderwriting", "rerunUnderwriting", "approveLoan", "rejectLoan", "disburse"}
EndpointsOf(p) ==
    Common \cup
    (CASE p = "cdl"     -> {"getCreditDecision", "evaluateForApplication", "disburseToMerchant"}
       [] p = "gold"    -> {"bookAppointment", "markArrived", "submitAppraisal", "acceptFinalAmount"}
       [] p = "housing" -> {"runPropertyAssessment", "submitForReview"})
AllEndpoints == UNION {EndpointsOf(p) : p \in {"cdl", "gold", "housing"}}

ApplicationTypeOK ==
    /\ product \in Products /\ status \in LoanStatus \cup {"none"} /\ terms \in {"unset", "set"}
    /\ appointment \in BOOLEAN /\ collateral \in BOOLEAN /\ account \in BOOLEAN
    /\ does \in [Staff -> AllEndpoints \cup {"none", "create"}]
    /\ next \in [Staff -> {"idle", "terms", "record", "reject", "open", "write"}]
    /\ read \in [Staff -> LoanStatus \cup {"none"}]
    /\ disruptions \in 0..Disruptions
    /\ overlapped \in BOOLEAN

ApplicationInit ==
    /\ product \in Products /\ status = "none" /\ terms = "unset"
    /\ appointment = FALSE /\ collateral = FALSE /\ account = FALSE
    /\ does = [s \in Staff |-> "none"]
    /\ next = [s \in Staff |-> "idle"]
    /\ read = [s \in Staff |-> "none"]
    /\ disruptions = 0
    /\ overlapped = FALSE

Step(s, step) == next' = [next EXCEPT ![s] = step]

Return(s) ==
    /\ Step(s, "idle")
    /\ does' = [does EXCEPT ![s] = "none"]
    /\ read' = [read EXCEPT ![s] = "none"]

-----------------------------------------------------------------------------
\* The statuses an endpoint goes on from

\* Mutant of Rejectable: an application can be rejected once it is submitted
RejectableLater == LoanStatus \ {"DRAFT"}

Rejectable == {"KYC_PENDING", "UNDERWRITING", "PENDING_APPROVAL", "APPROVED"}

\* Mutant of Acceptable: the customer may accept before the gold is appraised
AcceptableEarly == {"APPRAISAL_PENDING", "PENDING_APPROVAL"}

\* Where assertTransition lets the customer accept the final amount
Acceptable == {"PENDING_APPROVAL"}

\* These write a status whatever the application's is.  disburseToMerchant looks
\* at the terms and the agreement of the application, never at its status.
Unguarded == {"markArrived", "getCreditDecision", "evaluateForApplication", "disburseToMerchant"}

Accepts(e) ==
    CASE e = "submitApplication"     -> {"DRAFT"}
      [] e = "bookAppointment"       -> {"KYC_PENDING"}
      [] e = "submitAppraisal"       -> {"APPRAISAL_PENDING"}
      [] e = "runPropertyAssessment" -> {"UNDERWRITING"}
      [] e = "submitForReview"       -> {"PROPERTY_ASSESSMENT"}
      [] e = "approveLoan"           -> {"PENDING_APPROVAL"}
      [] e = "acceptFinalAmount"     -> Acceptable
      [] e = "rejectLoan"            -> Rejectable
      [] e = "rerunUnderwriting"     -> {"UNDERWRITING", "PENDING_APPROVAL"}
      [] e = "disburse"              -> {"APPROVED"}
      [] OTHER                       -> LoanStatus

\* Mutant of AutoApproval: saveResult saves the status only
StatusOnly == <<"APPROVED", terms>>

AutoApproval == <<"APPROVED", "set">>

\* Mutant of ReviewStatus: a status the state machine does not know
OutsideStateMachine == "UNDER_REVIEW"

\* The branch's and the property's work goes to a credit manager
ReviewStatus == "PENDING_APPROVAL"

\* The status an endpoint writes, and whether there is an approved amount after
Outcomes(e) ==
    CASE e = "getCreditDecision" ->
            {<<"APPROVED", "set">>, <<"UNDERWRITING", "unset">>, <<"REJECTED", "unset">>}
      [] e = "evaluateForApplication" ->
            {AutoApproval, <<"PENDING_APPROVAL", terms>>, <<"REJECTED", terms>>}
      [] e \in {"approveLoan", "acceptFinalAmount"} -> {<<"APPROVED", "set">>}
      [] e \in {"rejectLoan", "runUnderwriting", "rerunUnderwriting"} -> {<<"REJECTED", terms>>}
      [] e = "bookAppointment"       -> {<<"APPOINTMENT_BOOKED", terms>>}
      [] e = "markArrived"           -> {<<"APPRAISAL_PENDING", terms>>}
      [] e = "runPropertyAssessment" -> {<<"PROPERTY_ASSESSMENT", terms>>}
      [] e \in {"submitAppraisal", "submitForReview"} -> {<<ReviewStatus, terms>>}
      [] e \in {"disburse", "disburseToMerchant"} -> {<<"DISBURSED", terms>>}
      [] OTHER                       -> {<<"KYC_PENDING", terms>>}

\* Endpoints that write another row before the status
Recording == {"bookAppointment", "markArrived", "submitAppraisal", "runPropertyAssessment",
              "runUnderwriting", "rerunUnderwriting"}

-----------------------------------------------------------------------------
\* The row is created as a draft.  A consumer durable application gets its terms
\* and its status in two further writes of the same call.
Create(s) ==
    /\ status = "none" /\ status' = "DRAFT"
    /\ IF product = "cdl"
       THEN Step(s, "terms") /\ does' = [does EXCEPT ![s] = "create"] /\ UNCHANGED read
       ELSE UNCHANGED callVars
    /\ UNCHANGED <<product, terms, recordVars, disruptions, overlapped>>

WriteTerms(s) ==
    /\ next[s] = "terms" /\ Step(s, "write")
    /\ read' = [read EXCEPT ![s] = "DRAFT"]
    /\ UNCHANGED <<rowVars, recordVars, does, disruptions, overlapped>>

\* The row is read and the status checked.  A gold application's appointment is
\* found by its own id, so markArrived does not even read the application.  Both
\* disbursements need the terms; their other gates are Disbursement's.
Begin(s, e) ==
    /\ next[s] = "idle" /\ status \in Accepts(e) /\ status # "none"
    /\ e = "markArrived" => appointment
    /\ e \in {"disburse", "disburseToMerchant"} => terms = "set"
    /\ Step(s, CASE e \in Recording           -> "record"
                 [] e = "disburseToMerchant" -> "open"
                 [] OTHER                    -> "write")
    /\ does' = [does EXCEPT ![s] = e]
    /\ read' = [read EXCEPT ![s] = status]
    /\ UNCHANGED <<rowVars, recordVars, disruptions, overlapped>>

\* A second collateral row of an application violates its unique key
RecordOutcome(s) ==
    LET e == does[s] IN
    /\ next[s] = "record"
    /\ IF e \in {"submitAppraisal", "runPropertyAssessment"} /\ collateral
       THEN Return(s) /\ UNCHANGED recordVars
       ELSE /\ Step(s, IF e \in {"runUnderwriting", "rerunUnderwriting"} THEN "reject" ELSE "write")
            /\ appointment' = (appointment \/ e = "bookAppointment")
            /\ collateral' = (collateral \/ e \in {"submitAppraisal", "runPropertyAssessment"})
            /\ UNCHANGED <<does, read, account>>
    /\ UNCHANGED <<rowVars, disruptions, overlapped>>

\* disburseToMerchant opens the account and writes the status in one transaction.
\* A second account of the application violates its unique key.  The webhook of
\* the payout then writes the status once more
OpenAccount(s) ==
    /\ next[s] = "open"
    /\ IF account
       THEN Return(s) /\ UNCHANGED <<status, account>>
       ELSE /\ account' = TRUE /\ status' = "DISBURSED"
            /\ Step(s, "write")
            /\ UNCHANGED <<does, read>>
    /\ UNCHANGED <<product, terms, appointment, collateral, disruptions, overlapped>>

\* The report is stored: rejectLoan reads the application again
RejectAfterReport(s) ==
    /\ next[s] = "reject"
    /\ IF status \in Rejectable
       THEN Step(s, "write") /\ read' = [read EXCEPT ![s] = status] /\ UNCHANGED does
       ELSE Return(s)
    /\ UNCHANGED <<rowVars, recordVars, disruptions, overlapped>>

WriteStatus(s) ==
    /\ next[s] = "write"
    /\ \E outcome \in Outcomes(does[s]) : status' = outcome[1] /\ terms' = outcome[2]
    /\ overlapped' = (overlapped \/ (does[s] \notin Unguarded /\ status # read[s]))
    /\ account' = (account \/ does[s] = "disburse")
    /\ Return(s)
    /\ UNCHANGED <<product, appointment, collateral, disruptions>>

\* A write failed, or the instance died
Stop(s) ==
    /\ next[s] # "idle" /\ disruptions < Disruptions
    /\ disruptions' = disruptions + 1
    /\ Return(s)
    /\ UNCHANGED <<rowVars, recordVars, overlapped>>

ApplicationNext ==
    \E s \in Staff :
        \/ Create(s) \/ WriteTerms(s) \/ RecordOutcome(s) \/ OpenAccount(s)
        \/ RejectAfterReport(s) \/ WriteStatus(s) \/ Stop(s)
        \/ \E e \in EndpointsOf(product) : Begin(s, e)

ApplicationSpec == ApplicationInit /\ [][ApplicationNext]_applicationVars

-----------------------------------------------------------------------------
\* An approved application has an approved amount, whoever approved it and
\* whatever ran beside it: disbursement hard-gates on it.
ApprovedHasTerms == status = "APPROVED" => terms = "set"

\* Gold is in the branch's hands before its loan is decided: a gold application
\* that is in review, approved or paid has its collateral row.
GoldIsAppraised ==
    product = "gold" /\ status \in {"PENDING_APPROVAL", "APPROVED", "DISBURSED"} => collateral

\* A decided application changes by the unguarded endpoints only (among them the
\* merchant's disbursement, which pays out a rejected application that kept its
\* terms), or by a call that read it before it was decided.
DecidedStays ==
    [][status' # status /\ status \in {"REJECTED", "DISBURSED"}
         => overlapped' \/ \E s \in Staff : does[s] \in Unguarded /\ next[s] \in {"open", "write"}]_applicationVars
=============================================================================
