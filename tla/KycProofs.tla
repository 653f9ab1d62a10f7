----------------------------- MODULE KycProofs -----------------------------
(***************************************************************************)
(* Safety of Kyc for every set of calls and every journey.                 *)
(***************************************************************************)
EXTENDS Kyc, TLAPS

OcrTasksOnly == \A c \in KycCalls : ocr[c] \subseteq {"AADHAAR_OCR", "PAN_OCR"}

\* A call that is about to write COMPLETE has seen every mandatory check passed
CompleteWasSeen ==
    \A c \in KycCalls : step[c] = "complete" => Mandatory \subseteq passed

\* While nobody reopened or overrode the KYC and the provider answered, no call
\* for a listed customer gets past the row it reads again after the risk checks
Screened == listed /\ ~ unscreened /\ ~ reopened /\ ~ overridden
BureauIsNotAsked ==
    Screened =>
        /\ kyc # "COMPLETE"
        /\ "RISK_SCORE" \notin passed
        /\ \A c \in KycCalls :
            /\ step[c] \notin {"bureau", "complete"}
            /\ step[c] = "record" => check[c] # "RISK_SCORE"
            /\ step[c] = "reread" => kyc = "REJECTED"

KycInv ==
    /\ KycTypeOK
    /\ OcrTasksOnly
    /\ CompleteWasSeen
    /\ CompleteIsEarned
    /\ BureauIsNotAsked
-----------------------------------------------------------------------------
LEMMA InitKycInv == KycInit => KycInv
<1> SUFFICES ASSUME KycInit PROVE KycInv
  OBVIOUS
<1>1. /\ passed \subseteq Checks /\ docs \subseteq KycDocs /\ runs \subseteq Checks
      /\ "RISK_SCORE" \notin passed
  BY JourneysAssumption DEF KycInit, Checks
<1>2. KycTypeOK
  BY <1>1 DEF KycInit, KycTypeOK, KycStatus, KycSteps, Checks, Mandatory
<1> QED
  BY <1>1, <1>2 DEF KycInit, KycInv, OcrTasksOnly, CompleteWasSeen, CompleteIsEarned, BureauIsNotAsked

\* What RecordCheckResult does to the arrays
LEMMA RecordKeepsPassed ==
    ASSUME NEW k \in Checks, NEW ok \in BOOLEAN, KycTypeOK, RecordCheckResult(k, ok)
    PROVE  /\ passed \subseteq passed' /\ passed' \subseteq passed \cup {k}
           /\ passed' \subseteq Checks /\ failed' \subseteq Checks
BY DEF RecordCheckResult, KycTypeOK

LEMMA OcrTasksAreOcr == \A uploaded : OcrTasks(uploaded) \subseteq {"AADHAAR_OCR", "PAN_OCR"}
BY DEF OcrTasks, OcrOf

\* Steps that leave a call, or let it go on, in terms of its variables
LEMMA LeaveKeepsCalls ==
    ASSUME KycTypeOK, OcrTasksOnly, NEW c \in KycCalls, Leave(c)
    PROVE  /\ step' \in [KycCalls -> KycSteps] /\ check' \in [KycCalls -> Checks]
           /\ ocr' \in [KycCalls -> SUBSET Mandatory] /\ final' \in [KycCalls -> BOOLEAN]
           /\ OcrTasksOnly'
           /\ step'[c] = "idle"
           /\ \A d \in KycCalls \ {c} : step'[d] = step[d] /\ check'[d] = check[d]
BY DEF KycTypeOK, Leave, Go, OcrTasksOnly, KycSteps, Checks, Mandatory

LEMMA GoingOnKeepsCalls ==
    ASSUME KycTypeOK, OcrTasksOnly, NEW c \in KycCalls, NEW next \in KycSteps, Continue(c, next)
    PROVE  /\ step' \in [KycCalls -> KycSteps] /\ check' \in [KycCalls -> Checks]
           /\ ocr' \in [KycCalls -> SUBSET Mandatory] /\ final' \in [KycCalls -> BOOLEAN]
           /\ OcrTasksOnly'
           /\ step'[c] = next /\ check' = check
           /\ \A d \in KycCalls \ {c} : step'[d] = step[d]
BY DEF KycTypeOK, Continue, Go, OcrTasksOnly

LEMMA AskingKeepsCalls ==
    ASSUME KycTypeOK, OcrTasksOnly, NEW c \in KycCalls, NEW k \in Checks, Ask(c, k)
    PROVE  /\ step' \in [KycCalls -> KycSteps] /\ check' \in [KycCalls -> Checks]
           /\ ocr' \in [KycCalls -> SUBSET Mandatory] /\ final' \in [KycCalls -> BOOLEAN]
           /\ OcrTasksOnly'
           /\ step'[c] = "record" /\ check'[c] = k
           /\ \A d \in KycCalls \ {c} : step'[d] = step[d] /\ check'[d] = check[d]
BY DEF KycTypeOK, Ask, Go, OcrTasksOnly, KycSteps
-----------------------------------------------------------------------------
\* initiateKyc
LEMMA InitiateStep ==
    ASSUME KycInv, NEW c \in KycCalls,
           InitiateKyc(c) \/ SaveEncryptedPan(c) \/ SetInProgress(c)
    PROVE  KycInv' /\ passed \subseteq passed'
<1> USE DEF KycInv, rowOfChecks, inputVars, customer, kycHistory, kycCallVars, KycSteps, Checks, Mandatory
<1>1. CASE InitiateKyc(c)
  <2>1. KycTypeOK' /\ OcrTasksOnly'
    BY <1>1, GoingOnKeepsCalls DEF InitiateKyc, KycTypeOK, KycStatus, OcrTasksOnly
  <2>2. CompleteWasSeen' /\ CompleteIsEarned' /\ passed \subseteq passed'
    BY <1>1, GoingOnKeepsCalls DEF InitiateKyc, KycTypeOK, CompleteWasSeen, CompleteIsEarned
  <2>3. BureauIsNotAsked'
    BY <1>1, GoingOnKeepsCalls DEF InitiateKyc, KycTypeOK, BureauIsNotAsked, Screened
  <2> QED
    BY <2>1, <2>2, <2>3
<1>2. CASE SaveEncryptedPan(c)
  <2>1. KycTypeOK' /\ OcrTasksOnly'
    BY <1>2, GoingOnKeepsCalls DEF SaveEncryptedPan, KycTypeOK, KycStatus, OcrTasksOnly
  <2>2. CompleteWasSeen' /\ CompleteIsEarned' /\ passed \subseteq passed'
    BY <1>2, GoingOnKeepsCalls DEF SaveEncryptedPan, KycTypeOK, CompleteWasSeen, CompleteIsEarned
  <2>3. BureauIsNotAsked'
    BY <1>2, GoingOnKeepsCalls DEF SaveEncryptedPan, KycTypeOK, BureauIsNotAsked, Screened
  <2> QED
    BY <2>1, <2>2, <2>3
<1>3. CASE SetInProgress(c)
  <2>1. KycTypeOK' /\ OcrTasksOnly'
    BY <1>3, LeaveKeepsCalls DEF SetInProgress, KycTypeOK, KycStatus, OcrTasksOnly
  <2>2. CompleteWasSeen' /\ CompleteIsEarned' /\ passed \subseteq passed'
    BY <1>3, LeaveKeepsCalls DEF SetInProgress, KycTypeOK, CompleteWasSeen, CompleteIsEarned
  <2>3. BureauIsNotAsked'
    BY <1>3, LeaveKeepsCalls DEF SetInProgress, KycTypeOK, BureauIsNotAsked, Screened
  <2> QED
    BY <2>1, <2>2, <2>3
<1> QED
  BY <1>1, <1>2, <1>3

\* The customer's checks up to the vendor's answer
LEMMA CheckStep ==
    ASSUME KycInv, NEW c \in KycCalls,
           \/ RequestAadhaarOtp(c) \/ VerifyAadhaarOtp(c) \/ AadhaarAnswered(c)
           \/ RunPanVerification(c) \/ RunGSTVerification(c) \/ RunBankVerification(c)
           \/ RunBankStatementAnalysis(c) \/ RunFaceChecks(c)
    PROVE  KycInv' /\ passed \subseteq passed'
<1> USE DEF KycInv, rowOfChecks, inputVars, customer, kycHistory, kycCallVars, KycSteps, Checks, Mandatory
<1>1. CASE RequestAadhaarOtp(c)
  <2>1. KycTypeOK' /\ OcrTasksOnly'
    BY <1>1 DEF RequestAadhaarOtp, KycTypeOK, KycStatus, OcrTasksOnly
  <2>2. CompleteWasSeen' /\ CompleteIsEarned' /\ passed \subseteq passed'
    BY <1>1 DEF RequestAadhaarOtp, KycTypeOK, CompleteWasSeen, CompleteIsEarned
  <2>3. BureauIsNotAsked'
    BY <1>1 DEF RequestAadhaarOtp, KycTypeOK, BureauIsNotAsked, Screened
  <2> QED
    BY <2>1, <2>2, <2>3
<1>2. CASE VerifyAadhaarOtp(c)
  <2>1. KycTypeOK' /\ OcrTasksOnly'
    BY <1>2, GoingOnKeepsCalls DEF VerifyAadhaarOtp, KycTypeOK, KycStatus, OcrTasksOnly
  <2>2. CompleteWasSeen' /\ CompleteIsEarned' /\ passed \subseteq passed'
    BY <1>2, GoingOnKeepsCalls DEF VerifyAadhaarOtp, KycTypeOK, CompleteWasSeen, CompleteIsEarned
  <2>3. BureauIsNotAsked'
    BY <1>2, GoingOnKeepsCalls DEF VerifyAadhaarOtp, KycTypeOK, BureauIsNotAsked, Screened
  <2> QED
    BY <2>1, <2>2, <2>3
<1>3. CASE AadhaarAnswered(c)
  <2>1. KycTypeOK' /\ OcrTasksOnly'
    BY <1>3, AskingKeepsCalls DEF AadhaarAnswered, KycTypeOK, KycStatus, OcrTasksOnly
  <2>2. CompleteWasSeen' /\ CompleteIsEarned' /\ passed \subseteq passed'
    BY <1>3, AskingKeepsCalls DEF AadhaarAnswered, KycTypeOK, CompleteWasSeen, CompleteIsEarned
  <2>3. BureauIsNotAsked'
    BY <1>3, AskingKeepsCalls DEF AadhaarAnswered, KycTypeOK, BureauIsNotAsked, Screened
  <2> QED
    BY <2>1, <2>2, <2>3
<1>4. CASE RunPanVerification(c)
  <2>1. KycTypeOK' /\ OcrTasksOnly'
    BY <1>4, AskingKeepsCalls DEF RunPanVerification, RunGuardedCheck, KycTypeOK, KycStatus, OcrTasksOnly
  <2>2. CompleteWasSeen' /\ CompleteIsEarned' /\ passed \subseteq passed'
    BY <1>4, AskingKeepsCalls DEF RunPanVerification, RunGuardedCheck, KycTypeOK, CompleteWasSeen, CompleteIsEarned
  <2>3. BureauIsNotAsked'
    BY <1>4, AskingKeepsCalls DEF RunPanVerification, RunGuardedCheck, KycTypeOK, BureauIsNotAsked, Screened
  <2> QED
    BY <2>1, <2>2, <2>3
<1>5. CASE RunGSTVerification(c)
  <2>1. KycTypeOK' /\ OcrTasksOnly'
    BY <1>5, AskingKeepsCalls DEF RunGSTVerification, RunGuardedCheck, KycTypeOK, KycStatus, OcrTasksOnly
  <2>2. CompleteWasSeen' /\ CompleteIsEarned' /\ passed \subseteq passed'
    BY <1>5, AskingKeepsCalls DEF RunGSTVerification, RunGuardedCheck, KycTypeOK, CompleteWasSeen, CompleteIsEarned
  <2>3. BureauIsNotAsked'
    BY <1>5, AskingKeepsCalls DEF RunGSTVerification, RunGuardedCheck, KycTypeOK, BureauIsNotAsked, Screened
  <2> QED
    BY <2>1, <2>2, <2>3
<1>6. CASE RunBankVerification(c)
  <2>1. KycTypeOK' /\ OcrTasksOnly'
    BY <1>6, AskingKeepsCalls DEF RunBankVerification, KycTypeOK, KycStatus, OcrTasksOnly
  <2>2. CompleteWasSeen' /\ CompleteIsEarned' /\ passed \subseteq passed'
    BY <1>6, AskingKeepsCalls DEF RunBankVerification, KycTypeOK, CompleteWasSeen, CompleteIsEarned
  <2>3. BureauIsNotAsked'
    BY <1>6, AskingKeepsCalls DEF RunBankVerification, KycTypeOK, BureauIsNotAsked, Screened
  <2> QED
    BY <2>1, <2>2, <2>3
<1>7. CASE RunBankStatementAnalysis(c)
  <2>1. KycTypeOK' /\ OcrTasksOnly'
    BY <1>7, AskingKeepsCalls DEF RunBankStatementAnalysis, KycTypeOK, KycStatus, OcrTasksOnly
  <2>2. CompleteWasSeen' /\ CompleteIsEarned' /\ passed \subseteq passed'
    BY <1>7, AskingKeepsCalls DEF RunBankStatementAnalysis, KycTypeOK, CompleteWasSeen, CompleteIsEarned
  <2>3. BureauIsNotAsked'
    BY <1>7, AskingKeepsCalls DEF RunBankStatementAnalysis, KycTypeOK, BureauIsNotAsked, Screened
  <2> QED
    BY <2>1, <2>2, <2>3
<1>8. CASE RunFaceChecks(c)
  <2>1. KycTypeOK' /\ OcrTasksOnly'
    BY <1>8, AskingKeepsCalls DEF RunFaceChecks, KycTypeOK, KycStatus, OcrTasksOnly
  <2>2. CompleteWasSeen' /\ CompleteIsEarned' /\ passed \subseteq passed'
    BY <1>8, AskingKeepsCalls DEF RunFaceChecks, KycTypeOK, CompleteWasSeen, CompleteIsEarned
  <2>3. BureauIsNotAsked'
    BY <1>8, AskingKeepsCalls DEF RunFaceChecks, KycTypeOK, BureauIsNotAsked, Screened
  <2> QED
    BY <2>1, <2>2, <2>3
<1> QED
  BY <1>1, <1>2, <1>3, <1>4, <1>5, <1>6, <1>7, <1>8

\* _rejectKyc
LEMMA RejectKycStep ==
    ASSUME KycInv, NEW c \in KycCalls,
           HandleCheckFailure(c) \/ RejectKyc(c)
    PROVE  KycInv' /\ passed \subseteq passed'
<1> USE DEF KycInv, rowOfChecks, inputVars, customer, kycHistory, kycCallVars, KycSteps, Checks, Mandatory
<1>1. CASE HandleCheckFailure(c)
  <2>1. KycTypeOK' /\ OcrTasksOnly'
    BY <1>1, LeaveKeepsCalls, GoingOnKeepsCalls DEF HandleCheckFailure, AfterReject, KycTypeOK, KycStatus, OcrTasksOnly
  <2>2. CompleteWasSeen' /\ CompleteIsEarned' /\ passed \subseteq passed'
    BY <1>1, LeaveKeepsCalls, GoingOnKeepsCalls DEF HandleCheckFailure, AfterReject, KycTypeOK, CompleteWasSeen, CompleteIsEarned
  <2>3. BureauIsNotAsked'
    BY <1>1, LeaveKeepsCalls, GoingOnKeepsCalls DEF HandleCheckFailure, AfterReject, KycTypeOK, BureauIsNotAsked, Screened
  <2> QED
    BY <2>1, <2>2, <2>3
<1>2. CASE RejectKyc(c)
  <2>1. KycTypeOK' /\ OcrTasksOnly'
    BY <1>2, LeaveKeepsCalls, GoingOnKeepsCalls DEF RejectKyc, AfterReject, KycTypeOK, KycStatus, OcrTasksOnly
  <2>2. CompleteWasSeen' /\ CompleteIsEarned' /\ passed \subseteq passed'
    BY <1>2, LeaveKeepsCalls, GoingOnKeepsCalls DEF RejectKyc, AfterReject, KycTypeOK, CompleteWasSeen, CompleteIsEarned
  <2>3. BureauIsNotAsked'
    BY <1>2, LeaveKeepsCalls, GoingOnKeepsCalls DEF RejectKyc, AfterReject, KycTypeOK, BureauIsNotAsked, Screened
  <2> QED
    BY <2>1, <2>2, <2>3
<1> QED
  BY <1>1, <1>2

\* finaliseKyc
LEMMA FinaliseStep ==
    ASSUME KycInv, NEW c \in KycCalls,
           \/ FinaliseKyc(c) \/ AmlAnswer(c) \/ RereadAfterRisk(c)
           \/ RunCreditBureauCheck(c) \/ Evaluate(c) \/ MarkComplete(c)
           \/ CallDies(c)
    PROVE  KycInv' /\ passed \subseteq passed'
<1> USE DEF KycInv, rowOfChecks, inputVars, customer, kycHistory, kycCallVars, KycSteps, Checks, Mandatory
<1>1. CASE FinaliseKyc(c)
  <2>1. KycTypeOK' /\ OcrTasksOnly'
    BY <1>1 DEF FinaliseKyc, Go, KycTypeOK, KycStatus, OcrTasksOnly
  <2>2. CompleteWasSeen' /\ CompleteIsEarned' /\ passed \subseteq passed'
    BY <1>1 DEF FinaliseKyc, Go, KycTypeOK, CompleteWasSeen, CompleteIsEarned
  <2>3. BureauIsNotAsked'
    BY <1>1 DEF FinaliseKyc, Go, KycTypeOK, BureauIsNotAsked, Screened
  <2> QED
    BY <2>1, <2>2, <2>3
<1>2. CASE AmlAnswer(c)
  <2>1. KycTypeOK' /\ OcrTasksOnly'
    BY <1>2, GoingOnKeepsCalls DEF AmlAnswer, KycTypeOK, KycStatus, OcrTasksOnly
  <2>2. CompleteWasSeen' /\ CompleteIsEarned' /\ passed \subseteq passed'
    BY <1>2, GoingOnKeepsCalls DEF AmlAnswer, KycTypeOK, CompleteWasSeen, CompleteIsEarned
  <2>3. BureauIsNotAsked'
    BY <1>2, GoingOnKeepsCalls DEF AmlAnswer, KycTypeOK, BureauIsNotAsked, Screened
  <2> QED
    BY <2>1, <2>2, <2>3
<1>3. CASE RereadAfterRisk(c)
  <2>1. KycTypeOK' /\ OcrTasksOnly'
    BY <1>3, LeaveKeepsCalls, GoingOnKeepsCalls DEF RereadAfterRisk, KycTypeOK, KycStatus, OcrTasksOnly
  <2>2. CompleteWasSeen' /\ CompleteIsEarned' /\ passed \subseteq passed'
    BY <1>3, LeaveKeepsCalls, GoingOnKeepsCalls DEF RereadAfterRisk, KycTypeOK, CompleteWasSeen, CompleteIsEarned
  <2>3. BureauIsNotAsked'
    BY <1>3, LeaveKeepsCalls, GoingOnKeepsCalls DEF RereadAfterRisk, KycTypeOK, BureauIsNotAsked, Screened
  <2> QED
    BY <2>1, <2>2, <2>3
<1>4. CASE RunCreditBureauCheck(c)
  <2>1. KycTypeOK' /\ OcrTasksOnly'
    BY <1>4 DEF RunCreditBureauCheck, Go, KycTypeOK, KycStatus, OcrTasksOnly
  <2>2. CompleteWasSeen' /\ CompleteIsEarned' /\ passed \subseteq passed'
    BY <1>4 DEF RunCreditBureauCheck, Go, KycTypeOK, CompleteWasSeen, CompleteIsEarned
  <2>3. BureauIsNotAsked'
    BY <1>4 DEF RunCreditBureauCheck, Go, KycTypeOK, BureauIsNotAsked, Screened
  <2> QED
    BY <2>1, <2>2, <2>3
<1>5. CASE Evaluate(c)
  <2>1. KycTypeOK' /\ OcrTasksOnly'
    BY <1>5, LeaveKeepsCalls, GoingOnKeepsCalls DEF Evaluate, AllMandatoryDone, KycTypeOK, KycStatus, OcrTasksOnly
  <2>2. CompleteWasSeen' /\ CompleteIsEarned' /\ passed \subseteq passed'
    BY <1>5, LeaveKeepsCalls, GoingOnKeepsCalls DEF Evaluate, AllMandatoryDone, KycTypeOK, CompleteWasSeen, CompleteIsEarned
  <2>3. BureauIsNotAsked'
    BY <1>5, LeaveKeepsCalls, GoingOnKeepsCalls DEF Evaluate, AllMandatoryDone, KycTypeOK, BureauIsNotAsked, Screened
  <2> QED
    BY <2>1, <2>2, <2>3
<1>6. CASE MarkComplete(c)
  <2>1. KycTypeOK' /\ OcrTasksOnly'
    BY <1>6, LeaveKeepsCalls DEF MarkComplete, KycTypeOK, KycStatus, OcrTasksOnly
  <2>2. CompleteWasSeen' /\ CompleteIsEarned' /\ passed \subseteq passed'
    BY <1>6, LeaveKeepsCalls DEF MarkComplete, KycTypeOK, CompleteWasSeen, CompleteIsEarned
  <2>3. BureauIsNotAsked'
    BY <1>6, LeaveKeepsCalls DEF MarkComplete, KycTypeOK, BureauIsNotAsked, Screened
  <2> QED
    BY <2>1, <2>2, <2>3
<1>7. CASE CallDies(c)
  <2>1. KycTypeOK' /\ OcrTasksOnly'
    BY <1>7, LeaveKeepsCalls DEF CallDies, KycTypeOK, KycStatus, OcrTasksOnly
  <2>2. CompleteWasSeen' /\ CompleteIsEarned' /\ passed \subseteq passed'
    BY <1>7, LeaveKeepsCalls DEF CallDies, KycTypeOK, CompleteWasSeen, CompleteIsEarned
  <2>3. BureauIsNotAsked'
    BY <1>7, LeaveKeepsCalls DEF CallDies, KycTypeOK, BureauIsNotAsked, Screened
  <2> QED
    BY <2>1, <2>2, <2>3
<1> QED
  BY <1>1, <1>2, <1>3, <1>4, <1>5, <1>6, <1>7

\* uploadDocument and the OCR tasks it starts
LEMMA DocumentStep ==
    ASSUME KycInv, NEW c \in KycCalls,
           (\E d \in KycDocs : UploadDocument(c, d)) \/ OcrSettles(c)
    PROVE  KycInv' /\ passed \subseteq passed'
<1> USE DEF KycInv, rowOfChecks, inputVars, customer, kycHistory, kycCallVars, KycSteps, Checks, Mandatory
<1>1. CASE \E d \in KycDocs : UploadDocument(c, d)
  BY <1>1, OcrTasksAreOcr DEF UploadDocument, Go, KycTypeOK, KycStatus, KycDocs, OcrTasksOnly,
     CompleteWasSeen, CompleteIsEarned, BureauIsNotAsked, Screened
<1>2. CASE OcrSettles(c)
  <2>1. PICK k \in ocr[c] :
            /\ ocr' = [ocr EXCEPT ![c] = @ \ {k}]
            /\ Go(c, IF ocr[c] = {k} THEN "idle" ELSE "ocr")
            /\ RecordCheckResult(k, TRUE) \/ UNCHANGED rowOfChecks
    BY <1>2 DEF OcrSettles
  <2>2. k \in {"AADHAAR_OCR", "PAN_OCR"}
    BY DEF OcrTasksOnly
  <2>3. /\ passed \subseteq passed' /\ passed' \subseteq passed \cup {k}
        /\ passed' \subseteq Checks /\ failed' \subseteq Checks
    BY <2>1, <2>2, RecordKeepsPassed DEF KycTypeOK
  <2>4. /\ step' \in [KycCalls -> KycSteps] /\ step'[c] \in {"idle", "ocr"}
        /\ \A d \in KycCalls \ {c} : step'[d] = step[d]
    BY <2>1 DEF Go, KycTypeOK
  <2>5. ocr' \in [KycCalls -> SUBSET Mandatory] /\ OcrTasksOnly'
    BY <2>1 DEF OcrTasksOnly, KycTypeOK
  <2>6. UNCHANGED <<kyc, inputVars, check, final, customer, kycHistory>>
    BY <1>2 DEF OcrSettles
  <2>7. KycTypeOK'
    BY <2>3, <2>4, <2>5, <2>6 DEF KycTypeOK
  <2>8. CompleteWasSeen' /\ CompleteIsEarned'
    BY <2>3, <2>4, <2>6 DEF CompleteWasSeen, CompleteIsEarned
  <2>9. BureauIsNotAsked'
    BY <2>2, <2>3, <2>4, <2>6 DEF BureauIsNotAsked, Screened
  <2> QED
    BY <2>3, <2>5, <2>7, <2>8, <2>9
<1> QED
  BY <1>1, <1>2

\* The verdict of a vendor
LEMMA VerdictStep ==
    ASSUME KycInv, NEW c \in KycCalls, RecordVerdict(c)
    PROVE  KycInv' /\ passed \subseteq passed'
<1> USE DEF KycInv, rowOfChecks, inputVars, customer, kycHistory
<1>1. PICK ok \in BOOLEAN :
          /\ RecordCheckResult(check[c], ok)
          /\ \/ \E next \in {"aml", "evaluate", "handleFailure"} : Continue(c, next)
             \/ Ask(c, "FACE_MATCH")
             \/ Leave(c)
  BY DEF RecordVerdict, Verdicts
<1>2. /\ step[c] = "record" /\ check[c] \in Checks
      /\ UNCHANGED <<kyc, inputVars, customer, kycHistory>>
  BY DEF RecordVerdict, KycTypeOK
<1>3. /\ passed \subseteq passed' /\ passed' \subseteq passed \cup {check[c]}
      /\ passed' \subseteq Checks /\ failed' \subseteq Checks
  BY <1>1, <1>2, RecordKeepsPassed
<1>4. "FACE_MATCH" \in Checks /\ {"aml", "evaluate", "handleFailure"} \subseteq KycSteps
  BY DEF Checks, Mandatory, KycSteps
<1>5. /\ step' \in [KycCalls -> KycSteps] /\ check' \in [KycCalls -> Checks]
      /\ ocr' \in [KycCalls -> SUBSET Mandatory] /\ final' \in [KycCalls -> BOOLEAN]
      /\ OcrTasksOnly'
      /\ step'[c] \notin {"complete", "bureau", "reread"}
      /\ step'[c] = "record" => check'[c] = "FACE_MATCH"
      /\ \A d \in KycCalls \ {c} : step'[d] = step[d] /\ check'[d] = check[d]
  BY <1>1, <1>4, GoingOnKeepsCalls, AskingKeepsCalls, LeaveKeepsCalls
<1>6. KycTypeOK'
  BY <1>2, <1>3, <1>5 DEF KycTypeOK
<1>7. CompleteWasSeen' /\ CompleteIsEarned'
  BY <1>2, <1>3, <1>5 DEF CompleteWasSeen, CompleteIsEarned
<1>8. BureauIsNotAsked'
  BY <1>2, <1>3, <1>5 DEF BureauIsNotAsked, Screened
<1> QED
  BY <1>3, <1>5, <1>6, <1>7, <1>8

LEMMA KycStep == KycInv /\ [KycNext]_kycVars => KycInv' /\ passed \subseteq passed'
<1> SUFFICES ASSUME KycInv, [KycNext]_kycVars PROVE KycInv' /\ passed \subseteq passed'
  OBVIOUS
<1>1. CASE \E c \in KycCalls : KycCall(c)
  BY <1>1, InitiateStep, CheckStep, RejectKycStep, FinaliseStep, DocumentStep, VerdictStep
     DEF KycCall, CustomerCheck
<1>2. CASE AccessKeyExpires
  BY <1>2 DEF AccessKeyExpires, KycInv, KycTypeOK, OcrTasksOnly, CompleteWasSeen, CompleteIsEarned,
     BureauIsNotAsked, Screened, rowOfChecks, customer, kycHistory, kycCallVars
<1>3. CASE ManualOverride
  BY <1>3 DEF ManualOverride, KycInv, KycTypeOK, KycStatus, OcrTasksOnly, CompleteWasSeen,
     CompleteIsEarned, BureauIsNotAsked, Screened, rowOfChecks, inputVars, customer, kycCallVars
<1>4. CASE UNCHANGED kycVars
  BY <1>4 DEF kycVars, KycInv, KycTypeOK, OcrTasksOnly, CompleteWasSeen, CompleteIsEarned,
     BureauIsNotAsked, Screened, rowOfChecks, inputVars, customer, kycHistory, kycCallVars
<1> QED
  BY <1>1, <1>2, <1>3, <1>4 DEF KycNext
-----------------------------------------------------------------------------
\* The inductive invariant holds in every behaviour.
THEOREM KycInvariance == KycSpec => []KycInv
  BY InitKycInv, KycStep, PTL DEF KycSpec

\* Every variable keeps its type.
THEOREM KycTypeCorrect == KycSpec => []KycTypeOK
<1>1. KycInv => KycTypeOK
  BY DEF KycInv
<1> QED
  BY <1>1, KycInvariance, PTL

\* However calls interleave, finaliseKyc writes COMPLETE only for a customer all
\* of whose mandatory checks are recorded as passed, and they stay recorded.
THEOREM CompletionIsEarned == KycSpec => []CompleteIsEarned
<1>1. KycInv => CompleteIsEarned
  BY DEF KycInv
<1> QED
  BY <1>1, KycInvariance, PTL

\* A listed customer completes only through one of the three named ways.
THEOREM ScreeningHolds == KycSpec => []ListedNeverCompletes
<1>1. KycInv => ListedNeverCompletes
  BY DEF KycInv, BureauIsNotAsked, Screened, ListedNeverCompletes
<1> QED
  BY <1>1, KycInvariance, PTL
=============================================================================
