------------------------- MODULE ApplicationProofs -------------------------
(***************************************************************************)
(* Safety of the two state machines that share the row of an application:  *)
(* its status (Application), for every set of calls and every product, and *)
(* its signing requests (Agreement), for every set of calls and callbacks  *)
(* and any number of requests.                                             *)
(***************************************************************************)
EXTENDS Application, Agreement, TLAPS

Decided == {"REJECTED", "DISBURSED"}

\* An execution runs an endpoint of the application's product, and its steps
RunsItsProduct ==
    \A s \in Staff :
        /\ does[s] \in EndpointsOf(product) \cup {"none", "create"}
        /\ next[s] = "terms" => does[s] = "create"
        /\ next[s] = "record" => does[s] \in Recording
        /\ next[s] = "reject" => does[s] \in {"runUnderwriting", "rerunUnderwriting"}
        /\ next[s] = "open" => does[s] = "disburseToMerchant"

\* A gold application's collateral is there before a call writes a status that
\* needs it, and once it is there
AppraisedBeforeWrite ==
    /\ GoldIsAppraised
    /\ product = "gold" =>
          \A s \in Staff :
              next[s] = "write" /\ does[s] \in {"submitAppraisal", "acceptFinalAmount", "approveLoan", "disburse"}
                  => collateral

\* A guarded call that is about to write has read an application not decided
ReadUndecided ==
    \A s \in Staff :
        /\ next[s] = "write" /\ does[s] \notin Unguarded => read[s] \notin Decided
        /\ next[s] = "record" /\ does[s] \notin Unguarded \cup {"runUnderwriting"} => read[s] \notin Decided

ApplicationInv ==
    /\ ApplicationTypeOK
    /\ RunsItsProduct
    /\ ApprovedHasTerms
    /\ AppraisedBeforeWrite
    /\ ReadUndecided
-----------------------------------------------------------------------------
LEMMA EndpointsKnown == product \in Products => EndpointsOf(product) \subseteq AllEndpoints
BY ApplicationAssumption DEF AllEndpoints

LEMMA AcceptsStatuses ==
    \A e \in AllEndpoints : Accepts(e) \subseteq LoanStatus
BY DEF Accepts, Acceptable, Rejectable, LoanStatus

\* No guarded endpoint but runUnderwriting goes on from a decided application
LEMMA AcceptsUndecided ==
    \A e \in AllEndpoints \ (Unguarded \cup {"runUnderwriting"}) : Accepts(e) \cap Decided = {}
BY DEF Accepts, Acceptable, Rejectable, AllEndpoints, EndpointsOf, Common, Unguarded, Decided

\* The endpoints that need an appraised gold loan
LEMMA AcceptsAppraised ==
    /\ Accepts("acceptFinalAmount") = {"PENDING_APPROVAL"}
    /\ Accepts("approveLoan") = {"PENDING_APPROVAL"}
    /\ Accepts("disburse") = {"APPROVED"}
BY DEF Accepts, Acceptable

\* What an endpoint may write
LEMMA OutcomesKnown ==
    ASSUME terms \in {"unset", "set"}, NEW e \in AllEndpoints \cup {"none", "create"}, NEW outcome \in Outcomes(e)
    PROVE  /\ outcome[1] \in LoanStatus /\ outcome[2] \in {"unset", "set"}
           /\ outcome[1] = "APPROVED" => outcome[2] = "set"
<1> USE DEF Outcomes, AutoApproval, ReviewStatus, LoanStatus
<1>1. CASE e = "getCreditDecision"
  BY <1>1
<1>2. CASE e = "evaluateForApplication"
  BY <1>2
<1>3. CASE e \in {"approveLoan", "acceptFinalAmount"}
  BY <1>3
<1>4. CASE e \in {"rejectLoan", "runUnderwriting", "rerunUnderwriting"}
  BY <1>4
<1>5. CASE e = "bookAppointment"
  BY <1>5
<1>6. CASE e = "markArrived"
  BY <1>6
<1>7. CASE e = "runPropertyAssessment"
  BY <1>7
<1>8. CASE e \in {"submitAppraisal", "submitForReview"}
  BY <1>8
<1>9. CASE e \in {"disburse", "disburseToMerchant"}
  BY <1>9
<1>10. CASE e \in {"submitApplication", "none", "create"}
  BY <1>10
<1> QED
  BY <1>1, <1>2, <1>3, <1>4, <1>5, <1>6, <1>7, <1>8, <1>9, <1>10 DEF AllEndpoints, EndpointsOf, Common

\* The calls on a gold application that make the collateral matter
LEMMA OutcomesAppraised ==
    ASSUME NEW e \in EndpointsOf("gold") \cup {"none", "create"}, NEW outcome \in Outcomes(e),
           outcome[1] \in {"PENDING_APPROVAL", "APPROVED", "DISBURSED"}
    PROVE  e \in {"submitAppraisal", "acceptFinalAmount", "approveLoan", "disburse"}
<1> USE DEF Outcomes, ReviewStatus
<1>1. e \notin {"rejectLoan", "runUnderwriting", "rerunUnderwriting"}
  OBVIOUS
<1>2. e # "bookAppointment"
  OBVIOUS
<1>3. e # "markArrived"
  OBVIOUS
<1>4. e \notin {"submitApplication", "none", "create"}
  OBVIOUS
<1> QED
  BY <1>1, <1>2, <1>3, <1>4 DEF EndpointsOf, Common

LEMMA InitApplicationInv == ApplicationInit => ApplicationInv
<1> SUFFICES ASSUME ApplicationInit PROVE ApplicationInv
  OBVIOUS
<1>1. ApplicationTypeOK
  <2>1. 0 \in 0..Disruptions
    BY ApplicationAssumption DEF ApplicationAssumption
  <2>2. appointment \in BOOLEAN /\ collateral \in BOOLEAN /\ account \in BOOLEAN /\ overlapped \in BOOLEAN
    BY DEF ApplicationInit
  <2> QED
    BY <2>1, <2>2 DEF ApplicationInit, ApplicationTypeOK
<1>2. RunsItsProduct /\ ApprovedHasTerms /\ AppraisedBeforeWrite /\ ReadUndecided
  BY DEF ApplicationInit, RunsItsProduct, ApprovedHasTerms, AppraisedBeforeWrite, GoldIsAppraised, ReadUndecided
<1> QED
  BY <1>1, <1>2 DEF ApplicationInv
-----------------------------------------------------------------------------
\* Steps that write neither the status nor the terms
LEMMA CreateStep ==
    ASSUME ApplicationInv, NEW s \in Staff, Create(s) \/ WriteTerms(s)
    PROVE  ApplicationInv'
<1> USE DEF ApplicationInv, Step, callVars, recordVars, rowVars
<1>1. CASE Create(s)
  <2>1. ApplicationTypeOK'
    BY <1>1 DEF Create, ApplicationTypeOK, LoanStatus
  <2>2. RunsItsProduct' /\ ApprovedHasTerms'
    BY <1>1 DEF Create, ApplicationTypeOK, RunsItsProduct, ApprovedHasTerms
  <2>3. AppraisedBeforeWrite' /\ ReadUndecided'
    BY <1>1 DEF Create, ApplicationTypeOK, AppraisedBeforeWrite, GoldIsAppraised, ReadUndecided
  <2> QED
    BY <2>1, <2>2, <2>3
<1>2. CASE WriteTerms(s)
  <2>1. ApplicationTypeOK'
    BY <1>2 DEF WriteTerms, ApplicationTypeOK, LoanStatus
  <2>2. RunsItsProduct' /\ ApprovedHasTerms'
    BY <1>2 DEF WriteTerms, ApplicationTypeOK, RunsItsProduct, ApprovedHasTerms
  <2>3. AppraisedBeforeWrite' /\ ReadUndecided'
    BY <1>2 DEF WriteTerms, ApplicationTypeOK, RunsItsProduct, AppraisedBeforeWrite, GoldIsAppraised, ReadUndecided, Decided
  <2> QED
    BY <2>1, <2>2, <2>3
<1> QED
  BY <1>1, <1>2

LEMMA BeginStep ==
    ASSUME ApplicationInv, NEW s \in Staff, NEW e \in EndpointsOf(product), Begin(s, e)
    PROVE  ApplicationInv'
<1> USE DEF ApplicationInv, Step, recordVars, rowVars
<1>1. e \in AllEndpoints
  BY EndpointsKnown DEF ApplicationTypeOK
<1>2. ApplicationTypeOK'
  BY <1>1 DEF Begin, ApplicationTypeOK
<1>3. RunsItsProduct' /\ ApprovedHasTerms'
  BY DEF Begin, ApplicationTypeOK, RunsItsProduct, ApprovedHasTerms
<1>4. AppraisedBeforeWrite'
  <2>1. product = "gold" /\ e \in {"acceptFinalAmount", "approveLoan", "disburse"} => collateral
    BY AcceptsAppraised DEF Begin, AppraisedBeforeWrite, GoldIsAppraised
  <2>2. e = "submitAppraisal" => next'[s] = "record"
    BY DEF Begin, Recording, ApplicationTypeOK
  <2> QED
    BY <2>1, <2>2 DEF Begin, ApplicationTypeOK, AppraisedBeforeWrite, GoldIsAppraised
<1>5. ReadUndecided'
  <2>1. e \notin Unguarded \cup {"runUnderwriting"} => status \notin Decided
    BY <1>1, AcceptsUndecided DEF Begin
  <2>2. e = "runUnderwriting" => next'[s] = "record"
    BY DEF Begin, Recording, ApplicationTypeOK
  <2> QED
    BY <2>1, <2>2 DEF Begin, ApplicationTypeOK, ReadUndecided
<1> QED
  BY <1>2, <1>3, <1>4, <1>5

LEMMA RecordStep ==
    ASSUME ApplicationInv, NEW s \in Staff, RecordOutcome(s)
    PROVE  ApplicationInv'
<1> USE DEF ApplicationInv, Step, Return, recordVars, rowVars
<1>1. ApplicationTypeOK'
  BY DEF RecordOutcome, ApplicationTypeOK
<1>2. RunsItsProduct' /\ ApprovedHasTerms'
  BY DEF RecordOutcome, ApplicationTypeOK, RunsItsProduct, ApprovedHasTerms
<1>3. AppraisedBeforeWrite'
  <2>1. collateral => collateral'
    BY DEF RecordOutcome
  <2>2. next'[s] = "write" /\ does'[s] = "submitAppraisal" => collateral'
    BY DEF RecordOutcome, ApplicationTypeOK
  <2>3. next'[s] = "write" => does'[s] \notin {"acceptFinalAmount", "approveLoan", "disburse"} \/ collateral'
    BY DEF RecordOutcome, ApplicationTypeOK, RunsItsProduct, Recording
  <2> QED
    BY <2>1, <2>2, <2>3 DEF RecordOutcome, ApplicationTypeOK, AppraisedBeforeWrite, GoldIsAppraised
<1>4. ReadUndecided'
  BY DEF RecordOutcome, ApplicationTypeOK, ReadUndecided, Decided
<1> QED
  BY <1>1, <1>2, <1>3, <1>4

LEMMA OpenStep ==
    ASSUME ApplicationInv, NEW s \in Staff, OpenAccount(s)
    PROVE  /\ ApplicationInv'
           /\ does[s] \in Unguarded
<1> USE DEF ApplicationInv, Step, Return
<1>1. does[s] = "disburseToMerchant"
  BY DEF OpenAccount, RunsItsProduct
<1>2. product # "gold"
  BY <1>1 DEF RunsItsProduct, EndpointsOf, Common
<1>3. ApplicationTypeOK'
  BY DEF OpenAccount, ApplicationTypeOK, LoanStatus
<1>4. RunsItsProduct' /\ ApprovedHasTerms'
  BY DEF OpenAccount, ApplicationTypeOK, RunsItsProduct, ApprovedHasTerms
<1>5. AppraisedBeforeWrite'
  BY <1>2 DEF OpenAccount, AppraisedBeforeWrite, GoldIsAppraised
<1>6. ReadUndecided'
  BY <1>1 DEF OpenAccount, ApplicationTypeOK, ReadUndecided, Unguarded
<1> QED
  BY <1>1, <1>3, <1>4, <1>5, <1>6 DEF Unguarded

LEMMA RejectStep ==
    ASSUME ApplicationInv, NEW s \in Staff, RejectAfterReport(s)
    PROVE  ApplicationInv'
<1> USE DEF ApplicationInv, Step, Return, recordVars, rowVars
<1>1. ApplicationTypeOK'
  BY DEF RejectAfterReport, ApplicationTypeOK, Rejectable, LoanStatus
<1>2. RunsItsProduct' /\ ApprovedHasTerms'
  BY DEF RejectAfterReport, ApplicationTypeOK, RunsItsProduct, ApprovedHasTerms
<1>3. AppraisedBeforeWrite'
  BY DEF RejectAfterReport, ApplicationTypeOK, RunsItsProduct, AppraisedBeforeWrite, GoldIsAppraised
<1>4. ReadUndecided'
  BY DEF RejectAfterReport, ApplicationTypeOK, ReadUndecided, Rejectable, Decided
<1> QED
  BY <1>1, <1>2, <1>3, <1>4

LEMMA StopStep ==
    ASSUME ApplicationInv, NEW s \in Staff, Stop(s)
    PROVE  ApplicationInv'
<1> USE DEF ApplicationInv, Step, Return, recordVars, rowVars
<1>1. ApplicationTypeOK'
  BY ApplicationAssumption DEF Stop, ApplicationTypeOK, ApplicationAssumption
<1>2. RunsItsProduct' /\ ApprovedHasTerms'
  BY DEF Stop, ApplicationTypeOK, RunsItsProduct, ApprovedHasTerms
<1>3. AppraisedBeforeWrite' /\ ReadUndecided'
  BY DEF Stop, ApplicationTypeOK, AppraisedBeforeWrite, GoldIsAppraised, ReadUndecided
<1> QED
  BY <1>1, <1>2, <1>3

\* The only step that writes the status
LEMMA WriteStep ==
    ASSUME ApplicationInv, NEW s \in Staff, WriteStatus(s)
    PROVE  /\ ApplicationInv'
           /\ status \in Decided => overlapped' \/ does[s] \in Unguarded
<1> USE DEF ApplicationInv, Step, Return
<1>1. PICK outcome \in Outcomes(does[s]) : status' = outcome[1] /\ terms' = outcome[2]
  BY DEF WriteStatus
<1>2. /\ outcome[1] \in LoanStatus /\ outcome[2] \in {"unset", "set"}
      /\ outcome[1] = "APPROVED" => outcome[2] = "set"
  BY OutcomesKnown DEF ApplicationTypeOK
<1>3. ApplicationTypeOK'
  BY <1>1, <1>2 DEF WriteStatus, ApplicationTypeOK
<1>4. RunsItsProduct' /\ ApprovedHasTerms'
  BY <1>1, <1>2 DEF WriteStatus, ApplicationTypeOK, RunsItsProduct, ApprovedHasTerms
<1>5. AppraisedBeforeWrite'
  <2>1. ASSUME product = "gold", status' \in {"PENDING_APPROVAL", "APPROVED", "DISBURSED"} PROVE collateral
    <3>1. does[s] \in {"submitAppraisal", "acceptFinalAmount", "approveLoan", "disburse"}
      BY <1>1, <2>1, OutcomesAppraised DEF RunsItsProduct
    <3> QED
      BY <2>1, <3>1 DEF WriteStatus, AppraisedBeforeWrite
  <2> QED
    BY <2>1 DEF WriteStatus, ApplicationTypeOK, AppraisedBeforeWrite, GoldIsAppraised
<1>6. ReadUndecided'
  BY DEF WriteStatus, ApplicationTypeOK, ReadUndecided
<1>7. status \in Decided => overlapped' \/ does[s] \in Unguarded
  BY DEF WriteStatus, ReadUndecided
<1> QED
  BY <1>3, <1>4, <1>5, <1>6, <1>7

LEMMA ApplicationStep ==
    ASSUME ApplicationInv, [ApplicationNext]_applicationVars
    PROVE  /\ ApplicationInv'
           /\ status' # status /\ status \in Decided =>
                 overlapped' \/ \E s \in Staff : does[s] \in Unguarded /\ next[s] \in {"open", "write"}
<1>1. ASSUME NEW s \in Staff, WriteStatus(s)
      PROVE  /\ ApplicationInv'
             /\ status \in Decided =>
                   overlapped' \/ \E d \in Staff : does[d] \in Unguarded /\ next[d] \in {"open", "write"}
  BY <1>1, WriteStep DEF WriteStatus
<1>2. ASSUME NEW s \in Staff, Create(s) \/ WriteTerms(s)
      PROVE  ApplicationInv' /\ (status \in Decided => status' = status)
  BY <1>2, CreateStep DEF Create, WriteTerms, Decided, rowVars
<1>3. ASSUME NEW s \in Staff, RecordOutcome(s) \/ RejectAfterReport(s) \/ Stop(s)
      PROVE  ApplicationInv' /\ status' = status
  BY <1>3, RecordStep, RejectStep, StopStep DEF RecordOutcome, RejectAfterReport, Stop, rowVars
<1>4. ASSUME NEW s \in Staff, NEW e \in EndpointsOf(product), Begin(s, e)
      PROVE  ApplicationInv' /\ status' = status
  BY <1>4, BeginStep DEF Begin, rowVars
<1>5. ASSUME NEW s \in Staff, OpenAccount(s)
      PROVE  /\ ApplicationInv'
             /\ \E d \in Staff : does[d] \in Unguarded /\ next[d] \in {"open", "write"}
  BY <1>5, OpenStep DEF OpenAccount
<1>6. CASE UNCHANGED applicationVars
  BY <1>6 DEF applicationVars, rowVars, recordVars, callVars, ApplicationInv, ApplicationTypeOK, RunsItsProduct,
     ApprovedHasTerms, AppraisedBeforeWrite, GoldIsAppraised, ReadUndecided
<1> QED
  BY <1>1, <1>2, <1>3, <1>4, <1>5, <1>6 DEF ApplicationNext
-----------------------------------------------------------------------------
\* The inductive invariant holds in every behaviour.
THEOREM ApplicationInvariance == ApplicationSpec => []ApplicationInv
  BY InitApplicationInv, ApplicationStep, PTL DEF ApplicationSpec

\* Every variable keeps its type.
THEOREM ApplicationTypeCorrect == ApplicationSpec => []ApplicationTypeOK
<1>1. ApplicationInv => ApplicationTypeOK
  BY DEF ApplicationInv
<1> QED
  BY <1>1, ApplicationInvariance, PTL

\* Whoever approves an application, it has an approved amount while it is APPROVED.
THEOREM ApprovalSetsTerms == ApplicationSpec => []ApprovedHasTerms
<1>1. ApplicationInv => ApprovedHasTerms
  BY DEF ApplicationInv
<1> QED
  BY <1>1, ApplicationInvariance, PTL

\* No interleaving of calls takes a gold loan to its decision unappraised.
THEOREM GoldNeedsAppraisal == ApplicationSpec => []GoldIsAppraised
<1>1. ApplicationInv => GoldIsAppraised
  BY DEF ApplicationInv, AppraisedBeforeWrite
<1> QED
  BY <1>1, ApplicationInvariance, PTL

\* Only an endpoint without a guard, or one whose guard read an older status,
\* changes the status of a rejected or disbursed application.
THEOREM DecisionStands == ApplicationSpec => DecidedStays
<1>1. ApplicationInv /\ [ApplicationNext]_applicationVars =>
         [status' # status /\ status \in {"REJECTED", "DISBURSED"}
            => overlapped' \/ \E s \in Staff : does[s] \in Unguarded /\ next[s] \in {"open", "write"}]_applicationVars
  BY ApplicationStep DEF Decided
<1> QED
  BY <1>1, ApplicationInvariance, PTL DEF ApplicationSpec, DecidedStays
-----------------------------------------------------------------------------
\* Calls and callbacks work on a request, callbacks on one with an outcome
WorkIsOnRequests ==
    /\ \A c \in AppCalls :
        /\ stage[c] \in {"idle", "create", "writeRequest", "poll", "store"}
        /\ stage[c] \in {"writeRequest", "poll", "store"} => for[c] \in SignRequest
    /\ \A w \in Callbacks :
        /\ stage[w] \in {"idle", "find", "update", "mark"}
        /\ stage[w] # "idle" => for[w] \in SignRequest /\ signing[for[w]] \in Resolved
    /\ \A r \in callback : signing[r] \in Resolved

\* What is stored and stamped was signed
StoredIsSigned ==
    /\ \A c \in AppCalls : stage[c] = "store" => signing[for[c]] = "SIGNED"
    /\ stamp # "NONE" => agreement # NoRequest
    /\ agreement # NoRequest => signing[agreement] = "SIGNED"
    /\ esign = "SIGNED" => \E r \in SignRequest : signing[r] = "SIGNED"

\* The customer knows the requests the application ever pointed at, and none
\* that a call has opened and not written yet
WrittenIsGiven ==
    /\ request \in given \cup {NoRequest}
    /\ \A c \in AppCalls : seen[c] \in given \cup {NoRequest}
    /\ \A r \in given : signing[r] # "none"
    /\ \A r \in SignRequest \ given : signing[r] # "SIGNED"
    /\ \A c \in AppCalls :
        stage[c] = "writeRequest" =>
            /\ for[c] \notin given /\ signing[for[c]] # "none"
            /\ \A d \in AppCalls : stage[d] = "writeRequest" /\ d # c => for[d] # for[c]

\* As long as no callback is misapplied the row says what became of its request
RowFollowsRequest ==
    /\ request # NoRequest => esign # "NONE"
    /\ ~ misapplied /\ esign \in {"DECLINED", "EXPIRED"} =>
          request # NoRequest /\ signing[request] = esign

\* A consumer durable call that read the present request found it dead
SeenIsDead ==
    endpoint = "cdl" /\ ~ misapplied =>
        \A c \in AppCalls :
            stage[c] \in {"create", "writeRequest"} /\ seen[c] = request /\ request # NoRequest
                => signing[request] \in {"DECLINED", "EXPIRED"}

\* The application points at the only request that can be signed
OneAlive ==
    endpoint = "cdl" /\ ~ overwritten /\ ~ misapplied =>
        \A r \in given : signing[r] \in {"PENDING", "SIGNED"} => r = request

AgreementInv ==
    /\ AgreementTypeOK
    /\ WorkIsOnRequests
    /\ StoredIsSigned
    /\ WrittenIsGiven
    /\ RowFollowsRequest
    /\ SeenIsDead
    /\ OneAlive
-----------------------------------------------------------------------------
LEMMA InitAgreementInv == AgreementInit => AgreementInv
<1> SUFFICES ASSUME AgreementInit PROVE AgreementInv
  OBVIOUS
<1>1. AgreementTypeOK
  <2>1. 0 \in 0..MaxDeaths
    BY AgreementAssumption DEF AgreementAssumption
  <2>2. overwritten \in BOOLEAN /\ misapplied \in BOOLEAN
    BY DEF AgreementInit
  <2> QED
    BY <2>1, <2>2 DEF AgreementInit, AgreementTypeOK, Resolved
<1>2. WorkIsOnRequests /\ StoredIsSigned
  BY DEF AgreementInit, WorkIsOnRequests, StoredIsSigned, Executions
<1>3. WrittenIsGiven
  BY DEF AgreementInit, WrittenIsGiven, Executions
<1>4. RowFollowsRequest /\ SeenIsDead /\ OneAlive
  BY DEF AgreementInit, RowFollowsRequest, SeenIsDead, OneAlive
<1> QED
  BY <1>1, <1>2, <1>3, <1>4 DEF AgreementInv

\* A call is not a callback
LEMMA KindsDiffer == /\ AppCalls \subseteq Executions /\ Callbacks \subseteq Executions
                     /\ AppCalls \cap Callbacks = {}
                     /\ NoRequest \notin SignRequest
BY AgreementAssumption DEF AgreementAssumption, Executions, NoRequest, SignRequest

-----------------------------------------------------------------------------
\* generateAgreement and requestESign
LEMMA GenerateStep ==
    ASSUME AgreementInv, NEW c \in AppCalls, GenerateAgreement(c)
    PROVE  AgreementInv'
<1> USE KindsDiffer DEF AgreementInv, agreementRow, providerVars, execVars, disturbances, Proceed, Finish
<1>1. AgreementTypeOK'
  BY DEF GenerateAgreement, MayGenerate, AgreementTypeOK, Resolved, WorkIsOnRequests
<1>2. WorkIsOnRequests'
  BY DEF GenerateAgreement, MayGenerate, AgreementTypeOK, WorkIsOnRequests, Resolved
<1>3. StoredIsSigned'
  BY DEF GenerateAgreement, MayGenerate, AgreementTypeOK, WorkIsOnRequests, StoredIsSigned, Resolved
<1>4. WrittenIsGiven'
  BY DEF GenerateAgreement, MayGenerate, AgreementTypeOK, WorkIsOnRequests, WrittenIsGiven, Resolved
<1>5. RowFollowsRequest'
  BY DEF GenerateAgreement, MayGenerate, AgreementTypeOK, WorkIsOnRequests, WrittenIsGiven, RowFollowsRequest, Resolved
<1>6. SeenIsDead'
  <2> SUFFICES ASSUME endpoint = "cdl", ~ misapplied, NEW d \in AppCalls,
                      stage'[d] \in {"create", "writeRequest"}, seen'[d] = request, request # NoRequest
               PROVE  signing[request] \in {"DECLINED", "EXPIRED"}
    BY DEF GenerateAgreement, SeenIsDead
  <2>1. CASE d = c
    <3>1. esign # "SIGNED" /\ esign # "PENDING"
      BY DEF GenerateAgreement, MayGenerate
    <3>2. esign \in {"DECLINED", "EXPIRED"}
      BY <3>1 DEF AgreementTypeOK, Resolved, RowFollowsRequest
    <3> QED
      BY <3>2 DEF RowFollowsRequest
  <2>2. CASE d # c
    <3>1. stage'[d] = stage[d] /\ seen'[d] = seen[d]
      BY <2>2 DEF GenerateAgreement, AgreementTypeOK
    <3> QED
      BY <3>1 DEF SeenIsDead
  <2> QED
    BY <2>1, <2>2
<1>7. OneAlive'
  BY DEF GenerateAgreement, MayGenerate, AgreementTypeOK, WorkIsOnRequests, WrittenIsGiven, SeenIsDead, OneAlive
<1> QED
  BY <1>1, <1>2, <1>3, <1>4, <1>5, <1>6, <1>7

LEMMA CreateRequestStep ==
    ASSUME AgreementInv, NEW c \in AppCalls, CreateSignRequest(c)
    PROVE  AgreementInv'
<1> USE KindsDiffer DEF AgreementInv, agreementRow, providerVars, execVars, disturbances, Proceed, Finish
<1>1. AgreementTypeOK'
  BY DEF CreateSignRequest, Unopened, AgreementTypeOK, Resolved, WorkIsOnRequests
<1>2. WorkIsOnRequests'
  BY DEF CreateSignRequest, Unopened, AgreementTypeOK, WorkIsOnRequests, Resolved
<1>3. StoredIsSigned'
  BY DEF CreateSignRequest, Unopened, AgreementTypeOK, WorkIsOnRequests, StoredIsSigned, Resolved
<1>4. WrittenIsGiven'
  BY DEF CreateSignRequest, Unopened, AgreementTypeOK, WorkIsOnRequests, WrittenIsGiven, Resolved
<1>5. RowFollowsRequest'
  BY DEF CreateSignRequest, Unopened, AgreementTypeOK, WorkIsOnRequests, WrittenIsGiven, RowFollowsRequest, Resolved
<1>6. SeenIsDead'
  BY DEF CreateSignRequest, Unopened, AgreementTypeOK, WorkIsOnRequests, WrittenIsGiven, RowFollowsRequest, SeenIsDead
<1>7. OneAlive'
  BY DEF CreateSignRequest, Unopened, AgreementTypeOK, WorkIsOnRequests, WrittenIsGiven, SeenIsDead, OneAlive
<1> QED
  BY <1>1, <1>2, <1>3, <1>4, <1>5, <1>6, <1>7

LEMMA WriteRequestStep ==
    ASSUME AgreementInv, NEW c \in AppCalls, WriteRequest(c)
    PROVE  AgreementInv'
<1> USE KindsDiffer DEF AgreementInv, agreementRow, providerVars, execVars, disturbances, Proceed, Finish
<1>1. AgreementTypeOK'
  BY DEF WriteRequest, AgreementTypeOK, Resolved, WorkIsOnRequests
<1>2. WorkIsOnRequests'
  BY DEF WriteRequest, AgreementTypeOK, WorkIsOnRequests, Resolved
<1>3. StoredIsSigned'
  BY DEF WriteRequest, AgreementTypeOK, WorkIsOnRequests, StoredIsSigned, Resolved
<1>4. WrittenIsGiven'
  BY DEF WriteRequest, AgreementTypeOK, WorkIsOnRequests, WrittenIsGiven, Resolved
<1>5. RowFollowsRequest'
  BY DEF WriteRequest, AgreementTypeOK, WorkIsOnRequests, WrittenIsGiven, RowFollowsRequest, Resolved
<1>6. SeenIsDead'
  BY DEF WriteRequest, AgreementTypeOK, WorkIsOnRequests, WrittenIsGiven, RowFollowsRequest, SeenIsDead
<1>7. OneAlive'
  BY DEF WriteRequest, AgreementTypeOK, WorkIsOnRequests, WrittenIsGiven, SeenIsDead, OneAlive
<1> QED
  BY <1>1, <1>2, <1>3, <1>4, <1>5, <1>6, <1>7

\* The customer and the provider
LEMMA ResolveStep ==
    ASSUME AgreementInv, NEW r \in SignRequest, NEW outcome \in Resolved, Resolve(r, outcome)
    PROVE  AgreementInv'
<1> USE KindsDiffer DEF AgreementInv, agreementRow, providerVars, execVars, disturbances, Proceed, Finish
<1>1. AgreementTypeOK'
  BY DEF Resolve, AgreementTypeOK, Resolved, WorkIsOnRequests
<1>2. WorkIsOnRequests'
  BY DEF Resolve, AgreementTypeOK, WorkIsOnRequests, Resolved
<1>3. StoredIsSigned'
  BY DEF Resolve, AgreementTypeOK, WorkIsOnRequests, StoredIsSigned, Resolved
<1>4. WrittenIsGiven'
  BY DEF Resolve, AgreementTypeOK, WorkIsOnRequests, WrittenIsGiven, Resolved
<1>5. RowFollowsRequest'
  BY DEF Resolve, AgreementTypeOK, WorkIsOnRequests, WrittenIsGiven, RowFollowsRequest, Resolved
<1>6. SeenIsDead'
  BY DEF Resolve, AgreementTypeOK, WorkIsOnRequests, WrittenIsGiven, RowFollowsRequest, SeenIsDead
<1>7. OneAlive'
  BY DEF Resolve, AgreementTypeOK, WorkIsOnRequests, WrittenIsGiven, SeenIsDead, OneAlive
<1> QED
  BY <1>1, <1>2, <1>3, <1>4, <1>5, <1>6, <1>7

LEMMA LoseStep ==
    ASSUME AgreementInv, NEW r \in SignRequest, LoseCallback(r)
    PROVE  AgreementInv'
<1> USE KindsDiffer DEF AgreementInv, agreementRow, providerVars, execVars, disturbances, Proceed, Finish
<1>1. AgreementTypeOK'
  BY DEF LoseCallback, AgreementTypeOK, Resolved, WorkIsOnRequests
<1>2. WorkIsOnRequests'
  BY DEF LoseCallback, AgreementTypeOK, WorkIsOnRequests, Resolved
<1>3. StoredIsSigned'
  BY DEF LoseCallback, AgreementTypeOK, WorkIsOnRequests, StoredIsSigned, Resolved
<1>4. WrittenIsGiven'
  BY DEF LoseCallback, AgreementTypeOK, WorkIsOnRequests, WrittenIsGiven, Resolved
<1>5. RowFollowsRequest'
  BY DEF LoseCallback, AgreementTypeOK, WorkIsOnRequests, WrittenIsGiven, RowFollowsRequest, Resolved
<1>6. SeenIsDead'
  BY DEF LoseCallback, AgreementTypeOK, WorkIsOnRequests, WrittenIsGiven, RowFollowsRequest, SeenIsDead
<1>7. OneAlive'
  BY DEF LoseCallback, AgreementTypeOK, WorkIsOnRequests, WrittenIsGiven, SeenIsDead, OneAlive
<1> QED
  BY <1>1, <1>2, <1>3, <1>4, <1>5, <1>6, <1>7

\* completeESign
LEMMA CompleteStep ==
    ASSUME AgreementInv, NEW c \in AppCalls, CompleteESign(c)
    PROVE  AgreementInv'
<1> USE KindsDiffer DEF AgreementInv, agreementRow, providerVars, execVars, disturbances, Proceed, Finish
<1>1. AgreementTypeOK'
  BY DEF CompleteESign, AgreementTypeOK, Resolved, WorkIsOnRequests
<1>2. WorkIsOnRequests'
  BY DEF CompleteESign, AgreementTypeOK, WorkIsOnRequests, Resolved
<1>3. StoredIsSigned'
  BY DEF CompleteESign, AgreementTypeOK, WorkIsOnRequests, StoredIsSigned, Resolved
<1>4. WrittenIsGiven'
  BY DEF CompleteESign, AgreementTypeOK, WorkIsOnRequests, WrittenIsGiven, Resolved
<1>5. RowFollowsRequest'
  BY DEF CompleteESign, AgreementTypeOK, WorkIsOnRequests, WrittenIsGiven, RowFollowsRequest, Resolved
<1>6. SeenIsDead'
  BY DEF CompleteESign, AgreementTypeOK, WorkIsOnRequests, WrittenIsGiven, RowFollowsRequest, SeenIsDead
<1>7. OneAlive'
  BY DEF CompleteESign, AgreementTypeOK, WorkIsOnRequests, WrittenIsGiven, SeenIsDead, OneAlive
<1> QED
  BY <1>1, <1>2, <1>3, <1>4, <1>5, <1>6, <1>7

LEMMA PollStep ==
    ASSUME AgreementInv, NEW c \in AppCalls, Poll(c)
    PROVE  AgreementInv'
<1> USE KindsDiffer DEF AgreementInv, agreementRow, providerVars, execVars, disturbances, Proceed, Finish
<1>1. AgreementTypeOK'
  BY DEF Poll, AgreementTypeOK, Resolved, WorkIsOnRequests
<1>2. WorkIsOnRequests'
  BY DEF Poll, AgreementTypeOK, WorkIsOnRequests, Resolved
<1>3. StoredIsSigned'
  BY DEF Poll, AgreementTypeOK, WorkIsOnRequests, StoredIsSigned, Resolved
<1>4. WrittenIsGiven'
  BY DEF Poll, AgreementTypeOK, WorkIsOnRequests, WrittenIsGiven, Resolved
<1>5. RowFollowsRequest'
  BY DEF Poll, AgreementTypeOK, WorkIsOnRequests, WrittenIsGiven, RowFollowsRequest, Resolved
<1>6. SeenIsDead'
  BY DEF Poll, AgreementTypeOK, WorkIsOnRequests, WrittenIsGiven, RowFollowsRequest, SeenIsDead
<1>7. OneAlive'
  BY DEF Poll, AgreementTypeOK, WorkIsOnRequests, WrittenIsGiven, SeenIsDead, OneAlive
<1> QED
  BY <1>1, <1>2, <1>3, <1>4, <1>5, <1>6, <1>7

LEMMA StoreStep ==
    ASSUME AgreementInv, NEW c \in AppCalls, StoreSigned(c)
    PROVE  AgreementInv'
<1> USE KindsDiffer DEF AgreementInv, agreementRow, providerVars, execVars, disturbances, Proceed, Finish
<1>1. AgreementTypeOK'
  BY DEF StoreSigned, AgreementTypeOK, Resolved, WorkIsOnRequests
<1>2. WorkIsOnRequests'
  BY DEF StoreSigned, AgreementTypeOK, WorkIsOnRequests, Resolved
<1>3. StoredIsSigned'
  BY DEF StoreSigned, AgreementTypeOK, WorkIsOnRequests, StoredIsSigned, Resolved
<1>4. WrittenIsGiven'
  BY DEF StoreSigned, AgreementTypeOK, WorkIsOnRequests, WrittenIsGiven, Resolved
<1>5. RowFollowsRequest'
  BY DEF StoreSigned, AgreementTypeOK, WorkIsOnRequests, WrittenIsGiven, RowFollowsRequest, Resolved
<1>6. SeenIsDead'
  BY DEF StoreSigned, AgreementTypeOK, WorkIsOnRequests, WrittenIsGiven, RowFollowsRequest, SeenIsDead
<1>7. OneAlive'
  BY DEF StoreSigned, AgreementTypeOK, WorkIsOnRequests, WrittenIsGiven, SeenIsDead, OneAlive
<1> QED
  BY <1>1, <1>2, <1>3, <1>4, <1>5, <1>6, <1>7

\* The callback
LEMMA DeliverStep ==
    ASSUME AgreementInv, NEW w \in Callbacks, NEW r \in SignRequest, DeliverCallback(w, r)
    PROVE  AgreementInv'
<1> USE KindsDiffer DEF AgreementInv, agreementRow, providerVars, execVars, disturbances, Proceed, Finish
<1>1. AgreementTypeOK'
  BY DEF DeliverCallback, AgreementTypeOK, Resolved, WorkIsOnRequests
<1>2. WorkIsOnRequests'
  BY DEF DeliverCallback, AgreementTypeOK, WorkIsOnRequests, Resolved
<1>3. StoredIsSigned'
  BY DEF DeliverCallback, AgreementTypeOK, WorkIsOnRequests, StoredIsSigned, Resolved
<1>4. WrittenIsGiven'
  BY DEF DeliverCallback, AgreementTypeOK, WorkIsOnRequests, WrittenIsGiven, Resolved
<1>5. RowFollowsRequest'
  BY DEF DeliverCallback, AgreementTypeOK, WorkIsOnRequests, WrittenIsGiven, RowFollowsRequest, Resolved
<1>6. SeenIsDead'
  BY DEF DeliverCallback, AgreementTypeOK, WorkIsOnRequests, WrittenIsGiven, RowFollowsRequest, SeenIsDead
<1>7. OneAlive'
  BY DEF DeliverCallback, AgreementTypeOK, WorkIsOnRequests, WrittenIsGiven, SeenIsDead, OneAlive
<1> QED
  BY <1>1, <1>2, <1>3, <1>4, <1>5, <1>6, <1>7

LEMMA FindStep ==
    ASSUME AgreementInv, NEW w \in Callbacks, FindApplication(w)
    PROVE  AgreementInv'
<1> USE KindsDiffer DEF AgreementInv, agreementRow, providerVars, execVars, disturbances, Proceed, Finish
<1>1. AgreementTypeOK'
  BY DEF FindApplication, AgreementTypeOK, Resolved, WorkIsOnRequests
<1>2. WorkIsOnRequests'
  BY DEF FindApplication, AgreementTypeOK, WorkIsOnRequests, Resolved
<1>3. StoredIsSigned'
  BY DEF FindApplication, AgreementTypeOK, WorkIsOnRequests, StoredIsSigned, Resolved
<1>4. WrittenIsGiven'
  BY DEF FindApplication, AgreementTypeOK, WorkIsOnRequests, WrittenIsGiven, Resolved
<1>5. RowFollowsRequest'
  BY DEF FindApplication, AgreementTypeOK, WorkIsOnRequests, WrittenIsGiven, RowFollowsRequest, Resolved
<1>6. SeenIsDead'
  BY DEF FindApplication, AgreementTypeOK, WorkIsOnRequests, WrittenIsGiven, RowFollowsRequest, SeenIsDead
<1>7. OneAlive'
  BY DEF FindApplication, AgreementTypeOK, WorkIsOnRequests, WrittenIsGiven, SeenIsDead, OneAlive
<1> QED
  BY <1>1, <1>2, <1>3, <1>4, <1>5, <1>6, <1>7

LEMMA UpdateStep ==
    ASSUME AgreementInv, NEW w \in Callbacks, UpdateStatus(w)
    PROVE  AgreementInv'
<1> USE KindsDiffer DEF AgreementInv, agreementRow, providerVars, execVars, disturbances, Proceed, Finish
<1>1. AgreementTypeOK'
  BY DEF UpdateStatus, AgreementTypeOK, Resolved, WorkIsOnRequests
<1>2. WorkIsOnRequests'
  BY DEF UpdateStatus, AgreementTypeOK, WorkIsOnRequests, Resolved
<1>3. StoredIsSigned'
  BY DEF UpdateStatus, AgreementTypeOK, WorkIsOnRequests, StoredIsSigned, Resolved
<1>4. WrittenIsGiven'
  BY DEF UpdateStatus, AgreementTypeOK, WorkIsOnRequests, WrittenIsGiven, Resolved
<1>5. RowFollowsRequest'
  <2>1. for[w] \in SignRequest /\ signing[for[w]] \in Resolved
    BY DEF UpdateStatus, WorkIsOnRequests
  <2>2. request' = request /\ signing' = signing /\ esign' = signing[for[w]]
    BY DEF UpdateStatus
  <2>3. esign' # "NONE"
    BY <2>1, <2>2 DEF Resolved
  <2>4. ~ misapplied' => request = for[w]
    BY DEF UpdateStatus
  <2>5. ~ misapplied' => request' # NoRequest /\ signing'[request'] = esign'
    BY <2>1, <2>2, <2>4
  <2> QED
    BY <2>3, <2>5 DEF RowFollowsRequest
<1>6. SeenIsDead'
  BY DEF UpdateStatus, AgreementTypeOK, WorkIsOnRequests, WrittenIsGiven, RowFollowsRequest, SeenIsDead
<1>7. OneAlive'
  BY DEF UpdateStatus, AgreementTypeOK, WorkIsOnRequests, WrittenIsGiven, SeenIsDead, OneAlive
<1> QED
  BY <1>1, <1>2, <1>3, <1>4, <1>5, <1>6, <1>7

LEMMA MarkStep ==
    ASSUME AgreementInv, NEW w \in Callbacks, MarkProcessed(w)
    PROVE  AgreementInv'
<1> USE KindsDiffer DEF AgreementInv, agreementRow, providerVars, execVars, disturbances, Proceed, Finish
<1>1. AgreementTypeOK'
  BY DEF MarkProcessed, AgreementTypeOK, Resolved, WorkIsOnRequests
<1>2. WorkIsOnRequests'
  BY DEF MarkProcessed, AgreementTypeOK, WorkIsOnRequests, Resolved
<1>3. StoredIsSigned'
  BY DEF MarkProcessed, AgreementTypeOK, WorkIsOnRequests, StoredIsSigned, Resolved
<1>4. WrittenIsGiven'
  BY DEF MarkProcessed, AgreementTypeOK, WorkIsOnRequests, WrittenIsGiven, Resolved
<1>5. RowFollowsRequest'
  BY DEF MarkProcessed, AgreementTypeOK, WorkIsOnRequests, WrittenIsGiven, RowFollowsRequest, Resolved
<1>6. SeenIsDead'
  BY DEF MarkProcessed, AgreementTypeOK, WorkIsOnRequests, WrittenIsGiven, RowFollowsRequest, SeenIsDead
<1>7. OneAlive'
  BY DEF MarkProcessed, AgreementTypeOK, WorkIsOnRequests, WrittenIsGiven, SeenIsDead, OneAlive
<1> QED
  BY <1>1, <1>2, <1>3, <1>4, <1>5, <1>6, <1>7

LEMMA DeathStep ==
    ASSUME AgreementInv, NEW x \in Executions, Dies(x)
    PROVE  AgreementInv'
<1> USE KindsDiffer DEF AgreementInv, agreementRow, providerVars, execVars, disturbances, Proceed, Finish
<1>1. AgreementTypeOK'
  <2>1. deaths' \in 0..MaxDeaths
    BY AgreementAssumption DEF Dies, AgreementTypeOK, AgreementAssumption
  <2>2. /\ stage' \in [Executions -> {"idle", "create", "writeRequest", "poll", "store", "find", "update", "mark"}]
        /\ for' \in [Executions -> SignRequest \cup {NoRequest}]
    BY DEF Dies, AgreementTypeOK
  <2>3. seen' \in [AppCalls -> SignRequest \cup {NoRequest}]
    BY DEF Dies, AgreementTypeOK
  <2>4. overwritten' \in BOOLEAN /\ misapplied' \in BOOLEAN
    BY DEF Dies, AgreementTypeOK
  <2> QED
    BY <2>1, <2>2, <2>3, <2>4 DEF Dies, AgreementTypeOK
<1>2. WorkIsOnRequests'
  BY DEF Dies, Executions, AgreementTypeOK, WorkIsOnRequests, Resolved
<1>3. StoredIsSigned'
  BY DEF Dies, Executions, AgreementTypeOK, WorkIsOnRequests, StoredIsSigned, Resolved
<1>4. WrittenIsGiven'
  BY DEF Dies, Executions, AgreementTypeOK, WorkIsOnRequests, WrittenIsGiven, Resolved
<1>5. RowFollowsRequest'
  BY DEF Dies, Executions, AgreementTypeOK, WorkIsOnRequests, WrittenIsGiven, RowFollowsRequest, Resolved
<1>6. SeenIsDead'
  BY DEF Dies, Executions, AgreementTypeOK, WorkIsOnRequests, WrittenIsGiven, RowFollowsRequest, SeenIsDead
<1>7. OneAlive'
  BY DEF Dies, Executions, AgreementTypeOK, WorkIsOnRequests, WrittenIsGiven, SeenIsDead, OneAlive
<1> QED
  BY <1>1, <1>2, <1>3, <1>4, <1>5, <1>6, <1>7

LEMMA AgreementStep == AgreementInv /\ [AgreementNext]_agreementVars => AgreementInv'
<1> SUFFICES ASSUME AgreementInv, [AgreementNext]_agreementVars PROVE AgreementInv'
  OBVIOUS
<1>1. ASSUME NEW c \in AppCalls, GenerateAgreement(c) \/ Generation(c) PROVE AgreementInv'
  BY <1>1, GenerateStep, CreateRequestStep, WriteRequestStep DEF Generation
<1>2. ASSUME NEW c \in AppCalls, CompleteESign(c) \/ Completion(c) PROVE AgreementInv'
  BY <1>2, CompleteStep, PollStep, StoreStep DEF Completion
<1>3. ASSUME NEW w \in Callbacks, Handling(w) PROVE AgreementInv'
  BY <1>3, FindStep, UpdateStep, MarkStep DEF Handling
<1>4. ASSUME NEW w \in Callbacks, NEW r \in SignRequest, DeliverCallback(w, r) PROVE AgreementInv'
  BY <1>4, DeliverStep
<1>5. ASSUME NEW r \in SignRequest, NEW outcome \in Resolved, LoseCallback(r) \/ Resolve(r, outcome)
      PROVE  AgreementInv'
  BY <1>5, LoseStep, ResolveStep
<1>6. ASSUME NEW r \in SignRequest, LoseCallback(r) PROVE AgreementInv'
  BY <1>6, LoseStep
<1>7. ASSUME NEW x \in Executions, Dies(x) PROVE AgreementInv'
  BY <1>7, DeathStep
<1>8. CASE UNCHANGED agreementVars
  BY <1>8 DEF agreementVars, agreementRow, providerVars, execVars, disturbances, AgreementInv, AgreementTypeOK,
     WorkIsOnRequests, StoredIsSigned, WrittenIsGiven, RowFollowsRequest, SeenIsDead, OneAlive
<1> QED
  BY <1>1, <1>2, <1>3, <1>4, <1>5, <1>6, <1>7, <1>8 DEF AgreementNext
-----------------------------------------------------------------------------
\* The inductive invariant holds in every behaviour.
THEOREM AgreementInvariance == AgreementSpec => []AgreementInv
  BY InitAgreementInv, AgreementStep, PTL DEF AgreementSpec

\* Every variable keeps its type.
THEOREM AgreementTypeCorrect == AgreementSpec => []AgreementTypeOK
<1>1. AgreementInv => AgreementTypeOK
  BY DEF AgreementInv
<1> QED
  BY <1>1, AgreementInvariance, PTL

\* The gate of disbursement opens for a stored and signed agreement only, on every
\* endpoint and with any number of requests, callbacks and crashes.
THEOREM GateNeedsSignature == AgreementSpec => []GateIsBacked
<1>1. AgreementInv => GateIsBacked
  BY DEF AgreementInv, StoredIsSigned, GateIsBacked, GateOpen
<1> QED
  BY <1>1, AgreementInvariance, PTL

\* On the consumer durable endpoint only overlapping calls, or a callback that hit
\* the wrong request, orphan a signature.
THEOREM SignatureIsPointedAt == AgreementSpec => []SignatureIsNotOrphaned
<1>1. AgreementInv => SignatureIsNotOrphaned
  BY DEF AgreementInv, WrittenIsGiven, OneAlive, SignatureIsNotOrphaned
<1> QED
  BY <1>1, AgreementInvariance, PTL
=============================================================================
