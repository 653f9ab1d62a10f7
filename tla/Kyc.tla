-------------------------------- MODULE Kyc --------------------------------
(***************************************************************************)
(* The KYC of ONE customer (modules/kyc): the row of kyc_documents that    *)
(* every check of the customer writes to, and the calls that write it.     *)
(*                                                                         *)
(* Calls of the customer's app and of the admin console interleave at      *)
(* every await: a call reads the row, asks a vendor, and writes what it    *)
(* learned to whatever the row has become.  A call may end at any await,   *)
(* because the vendor threw or because the instance died.                  *)
(* Vendors' answers are abstracted to their verdict; the names of checks   *)
(* and statuses are those of config/constants.ts.                          *)
(***************************************************************************)
EXTENDS Naturals, FiniteSets

CONSTANTS
    KycCalls,    \* executions of KYC endpoints
    Journeys,    \* what a customer has done before the modelled part of his life,
                 \* and the checks his app runs in it
    Failing      \* checks a vendor may answer in the negative

Mandatory == {"AADHAAR_VERIFY", "PAN_VERIFY", "LIVENESS", "FACE_MATCH", "AADHAAR_OCR",
              "PAN_OCR", "BANK_ACCOUNT", "BANK_STATEMENT", "RISK_SCORE", "DATA_BREACH"}
Checks    == Mandatory \cup {"GST_VERIFY"}
\* The checks whose failure finaliseKyc answers with REJECTED, and those that
\* reject as soon as they fail
HardChecks  == {"AADHAAR_VERIFY", "PAN_VERIFY", "LIVENESS", "FACE_MATCH", "DATA_BREACH"}
FatalChecks == {"AADHAAR_VERIFY", "PAN_VERIFY", "DATA_BREACH"}
KycDocs     == {"selfie", "aadhaar_front", "pan", "bank_statement"}
OcrOf       == [aadhaar_front |-> "AADHAAR_OCR", pan |-> "PAN_OCR"]

\* What needs a PAN cannot have passed before initiateKyc saved one
ASSUME JourneysAssumption ==
    Journeys \subseteq [prior    : SUBSET (Mandatory \ {"PAN_VERIFY", "RISK_SCORE", "DATA_BREACH"}),
                        uploaded : SUBSET KycDocs,
                        runs     : SUBSET Checks]
ASSUME FailingAssumption == Failing \subseteq Checks \ {"BANK_STATEMENT"}

VARIABLES
    kyc,         \* kyc_documents.overall_status
    passed,      \* kyc_documents.completed_checks
    failed,      \* kyc_documents.failed_checks
    pan,         \* kyc_documents.pan_encrypted is set
    docs,        \* the *_s3_key columns that are set
    accessKey,   \* the Redis key kyc:aadhaar:accessKey:<user> exists
    step,        \* next step of a call
    check,       \* the check whose vendor a call is waiting for
    ocr,         \* OCR tasks of a call that have not settled
    final,       \* a call is in finaliseKyc
    runs,        \* the checks the customer's app runs
    listed,      \* the customer is on the AML provider's list
    unscreened,  \* history: finaliseKyc went on without an answer of the AML provider
    reopened,    \* history: initiateKyc wrote IN_PROGRESS over REJECTED
    overridden   \* history: an admin wrote the status by hand

rowOfChecks == <<passed, failed>>
inputVars   == <<pan, docs, accessKey>>
customer    == <<runs, listed>>
kycCallVars == <<step, check, ocr, final>>
kycHistory  == <<unscreened, reopened, overridden>>
kycVars == <<kyc, rowOfChecks, inputVars, kycCallVars, customer, kycHistory>>

KycStatus == {"NOT_STARTED", "IN_PROGRESS", "COMPLETE", "REJECTED"}
KycSteps  == {"idle", "savePan", "setInProgress", "aadhaar", "record", "ocr", "handleFailure",
              "reject", "aml", "reread", "bureau", "evaluate", "complete"}

KycTypeOK ==
    /\ kyc \in KycStatus
    /\ passed \subseteq Checks /\ failed \subseteq Checks
    /\ pan \in BOOLEAN /\ docs \subseteq KycDocs /\ accessKey \in BOOLEAN
    /\ step \in [KycCalls -> KycSteps]
    /\ check \in [KycCalls -> Checks]
    /\ ocr \in [KycCalls -> SUBSET Mandatory]
    /\ final \in [KycCalls -> BOOLEAN]
    /\ runs \subseteq Checks /\ listed \in BOOLEAN
    /\ unscreened \in BOOLEAN /\ reopened \in BOOLEAN /\ overridden \in BOOLEAN

\* The row as initiateKyc's upsert creates it, and what the customer did since
KycInit ==
    /\ \E j \in Journeys : passed = j.prior /\ docs = j.uploaded /\ runs = j.runs
    /\ kyc = "NOT_STARTED" /\ failed = {} /\ pan = FALSE /\ accessKey = FALSE
    /\ step = [c \in KycCalls |-> "idle"]
    /\ check = [c \in KycCalls |-> "PAN_VERIFY"]
    /\ ocr = [c \in KycCalls |-> {}]
    /\ final = [c \in KycCalls |-> FALSE]
    /\ listed \in BOOLEAN
    /\ unscreened = FALSE /\ reopened = FALSE /\ overridden = FALSE

-----------------------------------------------------------------------------
\* Steps of a call

Go(c, next) == step' = [step EXCEPT ![c] = next]

\* A call returns or throws
Leave(c) ==
    /\ Go(c, "idle")
    /\ final' = [final EXCEPT ![c] = FALSE]
    /\ ocr' = [ocr EXCEPT ![c] = {}]
    /\ check' = [check EXCEPT ![c] = "PAN_VERIFY"]

Ask(c, k) ==
    /\ Go(c, "record") /\ check' = [check EXCEPT ![c] = k]
    /\ UNCHANGED <<ocr, final>>

Continue(c, next) == Go(c, next) /\ UNCHANGED <<check, ocr, final>>

\* kycRepository.recordCheckResult: one UPDATE with array_append/array_remove
RecordCheckResult(k, ok) ==
    IF ok THEN passed' = passed \cup {k} /\ failed' = failed \ {k}
          ELSE passed' = passed /\ failed' = failed \cup {k}

Verdicts(k) == IF k \in Failing THEN BOOLEAN ELSE {TRUE}

-----------------------------------------------------------------------------
\* initiateKyc

InitiateKyc(c) ==
    /\ step[c] = "idle" /\ kyc # "COMPLETE"
    /\ Continue(c, "savePan")
    /\ UNCHANGED <<kyc, rowOfChecks, inputVars, customer, kycHistory>>

SaveEncryptedPan(c) ==
    /\ step[c] = "savePan"
    /\ pan' = TRUE
    /\ Continue(c, "setInProgress")
    /\ UNCHANGED <<kyc, rowOfChecks, docs, accessKey, customer, kycHistory>>

\* Whatever the status has become since it was read
SetInProgress(c) ==
    /\ step[c] = "setInProgress"
    /\ kyc' = "IN_PROGRESS"
    /\ reopened' = (reopened \/ kyc = "REJECTED")
    /\ Leave(c)
    /\ UNCHANGED <<rowOfChecks, inputVars, customer, unscreened, overridden>>

-----------------------------------------------------------------------------
\* The customer's checks

RequestAadhaarOtp(c) ==
    /\ step[c] = "idle" /\ "AADHAAR_VERIFY" \in runs
    /\ accessKey' = TRUE
    /\ UNCHANGED <<kyc, rowOfChecks, pan, docs, kycCallVars, customer, kycHistory>>

AccessKeyExpires ==
    /\ accessKey /\ accessKey' = FALSE
    /\ UNCHANGED <<kyc, rowOfChecks, pan, docs, kycCallVars, customer, kycHistory>>

VerifyAadhaarOtp(c) ==
    /\ step[c] = "idle" /\ accessKey /\ "AADHAAR_VERIFY" \in runs
    /\ Continue(c, "aadhaar")
    /\ UNCHANGED <<kyc, rowOfChecks, inputVars, customer, kycHistory>>

\* The vendor answered: the key is deleted before the result is recorded
AadhaarAnswered(c) ==
    /\ step[c] = "aadhaar"
    /\ accessKey' = FALSE
    /\ Ask(c, "AADHAAR_VERIFY")
    /\ UNCHANGED <<kyc, rowOfChecks, pan, docs, customer, kycHistory>>

\* The checks that are not asked again once passed
RunGuardedCheck(c, k) ==
    /\ step[c] = "idle" /\ k \in runs \ passed
    /\ Ask(c, k)
    /\ UNCHANGED <<kyc, rowOfChecks, inputVars, customer, kycHistory>>

RunPanVerification(c)  == pan /\ RunGuardedCheck(c, "PAN_VERIFY")
RunGSTVerification(c)  == RunGuardedCheck(c, "GST_VERIFY")

\* The basic verification is not asked again once passed, the advanced and the
\* silent one are
RunBankVerification(c) ==
    /\ step[c] = "idle" /\ "BANK_ACCOUNT" \in runs
    /\ Ask(c, "BANK_ACCOUNT")
    /\ UNCHANGED <<kyc, rowOfChecks, inputVars, customer, kycHistory>>

RunBankStatementAnalysis(c) ==
    /\ step[c] = "idle" /\ "bank_statement" \in docs /\ "BANK_STATEMENT" \in runs
    /\ Ask(c, "BANK_STATEMENT")
    /\ UNCHANGED <<kyc, rowOfChecks, inputVars, customer, kycHistory>>

RunFaceChecks(c) ==
    /\ step[c] = "idle" /\ {"selfie", "aadhaar_front"} \subseteq docs /\ "LIVENESS" \in runs
    /\ Ask(c, "LIVENESS")
    /\ UNCHANGED <<kyc, rowOfChecks, inputVars, customer, kycHistory>>

\* The OCR tasks runOcrChecks starts on the documents it reads
OcrTasks(uploaded) == {OcrOf[d] : d \in uploaded \cap {"aadhaar_front", "pan"}} \ passed

\* uploadDocument, with the runOcrChecks it triggers
UploadDocument(c, d) ==
    /\ step[c] = "idle"
    /\ docs' = docs \cup {d}
    /\ IF d \in {"aadhaar_front", "pan"} /\ OcrTasks(docs') # {}
       THEN Go(c, "ocr") /\ ocr' = [ocr EXCEPT ![c] = OcrTasks(docs')] /\ UNCHANGED <<check, final>>
       ELSE UNCHANGED kycCallVars
    /\ UNCHANGED <<kyc, rowOfChecks, pan, accessKey, customer, kycHistory>>

\* One of the concurrent OCR tasks settles; a failure is only logged
OcrSettles(c) ==
    /\ step[c] = "ocr"
    /\ \E k \in ocr[c] :
        /\ ocr' = [ocr EXCEPT ![c] = @ \ {k}]
        /\ Go(c, IF ocr[c] = {k} THEN "idle" ELSE "ocr")
        /\ RecordCheckResult(k, TRUE) \/ UNCHANGED rowOfChecks
    /\ UNCHANGED <<kyc, inputVars, check, final, customer, kycHistory>>

\* The vendor's verdict is recorded.  Inside finaliseKyc the risk checks go on
\* with the AML answer and the bureau with the evaluation; liveness is
\* followed by the face match.
RecordVerdict(c) ==
    /\ step[c] = "record"
    /\ \E ok \in Verdicts(check[c]) :
        /\ RecordCheckResult(check[c], ok)
        /\ IF final[c]
           THEN Continue(c, IF check[c] = "DATA_BREACH" THEN "aml" ELSE "evaluate")
           ELSE IF ok
           THEN IF check[c] = "LIVENESS" THEN Ask(c, "FACE_MATCH") ELSE Leave(c)
           ELSE IF check[c] \in FatalChecks THEN Continue(c, "handleFailure") ELSE Leave(c)
    /\ UNCHANGED <<kyc, inputVars, customer, kycHistory>>

\* What follows a rejection: finaliseKyc reads the row again after the risk
\* checks and returns after a hard failure
AfterReject(c) == IF final[c] /\ check[c] = "DATA_BREACH" THEN Continue(c, "reread") ELSE Leave(c)

\* _rejectKyc: read, return if REJECTED, write
HandleCheckFailure(c) ==
    /\ step[c] = "handleFailure"
    /\ IF kyc = "REJECTED" THEN AfterReject(c) ELSE Continue(c, "reject")
    /\ UNCHANGED <<kyc, rowOfChecks, inputVars, customer, kycHistory>>

RejectKyc(c) ==
    /\ step[c] = "reject"
    /\ kyc' = "REJECTED"
    /\ AfterReject(c)
    /\ UNCHANGED <<rowOfChecks, inputVars, customer, kycHistory>>

-----------------------------------------------------------------------------
\* finaliseKyc

FinaliseKyc(c) ==
    /\ step[c] = "idle" /\ kyc \notin {"COMPLETE", "REJECTED"}
    /\ final' = [final EXCEPT ![c] = TRUE]
    /\ IF pan /\ ~ {"DATA_BREACH", "RISK_SCORE"} \subseteq passed
       THEN Go(c, "record") /\ check' = [check EXCEPT ![c] = "DATA_BREACH"]
       ELSE Go(c, "evaluate") /\ check' = [check EXCEPT ![c] = "RISK_SCORE"]
    /\ UNCHANGED <<kyc, rowOfChecks, inputVars, ocr, customer, kycHistory>>

\* The AML answer, which runRiskChecks got with the fraud score: a hit
\* rejects, an error of the provider is logged
AmlAnswer(c) ==
    /\ step[c] = "aml"
    /\ \/ listed /\ Continue(c, "handleFailure") /\ UNCHANGED unscreened
       \/ ~ listed /\ Continue(c, "reread") /\ UNCHANGED unscreened
       \/ Continue(c, "reread") /\ unscreened' = TRUE
    /\ UNCHANGED <<kyc, rowOfChecks, inputVars, customer, reopened, overridden>>

\* Mutant of RereadAfterRisk: the bureau is asked without reading the row again
GoOnAfterRisk(c) ==
    /\ step[c] = "reread"
    /\ Continue(c, "bureau")
    /\ UNCHANGED <<kyc, rowOfChecks, inputVars, customer, kycHistory>>

RereadAfterRisk(c) ==
    /\ step[c] = "reread"
    /\ IF kyc = "REJECTED" THEN Leave(c) ELSE Continue(c, "bureau")
    /\ UNCHANGED <<kyc, rowOfChecks, inputVars, customer, kycHistory>>

RunCreditBureauCheck(c) ==
    /\ step[c] = "bureau"
    /\ IF "RISK_SCORE" \in passed
       THEN Go(c, "evaluate") /\ check' = [check EXCEPT ![c] = "RISK_SCORE"]
       ELSE Go(c, "record") /\ check' = [check EXCEPT ![c] = "RISK_SCORE"]
    /\ UNCHANGED <<kyc, rowOfChecks, inputVars, ocr, final, customer, kycHistory>>

HasHardFailure == failed \cap HardChecks # {}

\* Mutant of AllMandatoryDone: nothing is pending in the sense of toStatusResponse
NothingPending == Mandatory \subseteq passed \cup failed

AllMandatoryDone == Mandatory \subseteq passed

Evaluate(c) ==
    /\ step[c] = "evaluate"
    /\ IF HasHardFailure THEN Continue(c, "handleFailure")
       ELSE IF AllMandatoryDone THEN Continue(c, "complete") ELSE Leave(c)
    /\ UNCHANGED <<kyc, rowOfChecks, inputVars, customer, kycHistory>>

\* Written to whatever the status has become since the row was read
MarkComplete(c) ==
    /\ step[c] = "complete"
    /\ kyc' = "COMPLETE"
    /\ Leave(c)
    /\ UNCHANGED <<rowOfChecks, inputVars, customer, kycHistory>>

-----------------------------------------------------------------------------
ManualOverride ==
    /\ kyc' \in {"COMPLETE", "REJECTED"}
    /\ overridden' = TRUE
    /\ UNCHANGED <<rowOfChecks, inputVars, kycCallVars, customer, unscreened, reopened>>

\* The vendor threw or the instance died at an await
CallDies(c) ==
    /\ step[c] # "idle"
    /\ Leave(c)
    /\ UNCHANGED <<kyc, rowOfChecks, inputVars, customer, kycHistory>>

CustomerCheck(c) ==
    \/ RequestAadhaarOtp(c) \/ VerifyAadhaarOtp(c) \/ AadhaarAnswered(c)
    \/ RunPanVerification(c) \/ RunGSTVerification(c)
    \/ RunBankVerification(c) \/ RunBankStatementAnalysis(c) \/ RunFaceChecks(c)
    \/ \E d \in KycDocs : UploadDocument(c, d)
    \/ OcrSettles(c) \/ RecordVerdict(c) \/ HandleCheckFailure(c) \/ RejectKyc(c)

KycCall(c) ==
    \/ InitiateKyc(c) \/ SaveEncryptedPan(c) \/ SetInProgress(c)
    \/ CustomerCheck(c)
    \/ FinaliseKyc(c) \/ AmlAnswer(c) \/ RereadAfterRisk(c) \/ RunCreditBureauCheck(c)
    \/ Evaluate(c) \/ MarkComplete(c)
    \/ CallDies(c)

KycNext == (\E c \in KycCalls : KycCall(c)) \/ AccessKeyExpires \/ ManualOverride

KycSpec == KycInit /\ [][KycNext]_kycVars

-----------------------------------------------------------------------------
\* A customer whose KYC is COMPLETE has passed every mandatory check, unless an
\* admin wrote the status: the row finaliseKyc evaluated may be written to by
\* other calls before it writes COMPLETE, and a check may fail after it passed.
CompleteIsEarned == kyc = "COMPLETE" /\ ~ overridden => Mandatory \subseteq passed

\* A customer on the AML list does not get a COMPLETE KYC through any
\* interleaving of calls, unless initiateKyc reopened the rejected KYC, an admin
\* overrode it, or the provider gave no answer to a run of the risk checks.
ListedNeverCompletes ==
    listed /\ kyc = "COMPLETE" => reopened \/ overridden \/ unscreened
=============================================================================
