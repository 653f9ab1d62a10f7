----------------------------- MODULE Agreement -----------------------------
(***************************************************************************)
(* The loan agreement of ONE application: the signing requests opened at   *)
(* the eSign provider, the columns of loan_applications that follow them,  *)
(* the provider's callback and the customer's polling.  Disbursement is    *)
(* gated on the two statuses kept here.                                    *)
(*                                                                         *)
(* Calls interleave at every await and may end there, because the provider *)
(* threw or the instance died.  The three products write the same columns: *)
(* consumer durable loans guard generateAgreement, gold and housing loans  *)
(* do not, and kyc.requestESign refuses a signed application only.         *)
(***************************************************************************)
EXTENDS Naturals, FiniteSets

CONSTANTS
    AppCalls,       \* executions of the agreement and eSign endpoints
    Callbacks,      \* executions of POST /webhooks/esign
    LastRequest,    \* bound on the signing requests: they are 1..LastRequest
    Endpoints,      \* which of the endpoints open a signing request
    LostCallbacks,  \* may the provider's callback never get through?
    MaxDeaths       \* bound on the calls that end half-way

ASSUME AgreementAssumption ==
    /\ LastRequest \in Nat \ {0} /\ MaxDeaths \in Nat /\ LostCallbacks \in BOOLEAN
    /\ Endpoints \subseteq {"cdl", "gold", "kyc"}
    /\ AppCalls \cap Callbacks = {}

SignRequest == 1..LastRequest
NoRequest   == 0
Executions  == AppCalls \cup Callbacks

VARIABLES
    endpoint,    \* the endpoint this application's signing requests come from
    request,     \* loan_applications.esign_request_id
    esign,       \* loan_applications.esign_status, "NONE" for null
    agreement,   \* the request whose document signed_agreement_s3_key holds
    stamp,       \* loan_applications.estamp_status, "NONE" for null
    signing,     \* the provider's status of a signing request
    given,       \* requests whose signing URL the customer was given
    callback,    \* requests whose outcome the provider is calling back about
    processed,   \* requests checkIdempotency knows as processed
    stage,       \* next step of an execution
    for,         \* the request it works on
    seen,        \* esign_request_id as generateAgreement read it
    deaths,
    overwritten, \* history: generateAgreement wrote over a request it had not read
    misapplied   \* history: a callback wrote the status of another request

agreementRow == <<request, esign, agreement, stamp>>
providerVars == <<signing, given, callback>>
execVars     == <<stage, for, seen>>
disturbances == <<overwritten, misapplied>>
agreementVars == <<endpoint, agreementRow, providerVars, processed, execVars, deaths, disturbances>>

Resolved == {"SIGNED", "DECLINED", "EXPIRED"}

AgreementTypeOK ==
    /\ endpoint \in Endpoints
    /\ request \in SignRequest \cup {NoRequest} /\ agreement \in SignRequest \cup {NoRequest}
    /\ esign \in Resolved \cup {"NONE", "PENDING"}
    /\ stamp \in {"NONE", "APPLIED", "FAILED"}
    /\ signing \in [SignRequest -> Resolved \cup {"none", "PENDING"}]
    /\ given \subseteq SignRequest /\ callback \subseteq SignRequest /\ processed \subseteq SignRequest
    /\ stage \in [Executions -> {"idle", "create", "writeRequest", "poll", "store", "find", "update", "mark"}]
    /\ for \in [Executions -> SignRequest \cup {NoRequest}]
    /\ seen \in [AppCalls -> SignRequest \cup {NoRequest}]
    /\ deaths \in 0..MaxDeaths
    /\ overwritten \in BOOLEAN /\ misapplied \in BOOLEAN

AgreementInit ==
    /\ endpoint \in Endpoints
    /\ request = NoRequest /\ esign = "NONE" /\ agreement = NoRequest /\ stamp = "NONE"
    /\ signing = [r \in SignRequest |-> "none"]
    /\ given = {} /\ callback = {} /\ processed = {}
    /\ stage = [x \in Executions |-> "idle"]
    /\ for = [x \in Executions |-> NoRequest]
    /\ seen = [c \in AppCalls |-> NoRequest]
    /\ deaths = 0
    /\ overwritten = FALSE /\ misapplied = FALSE

Proceed(x, next) == stage' = [stage EXCEPT ![x] = next]

\* An execution returns or throws
Finish(x) ==
    /\ Proceed(x, "idle")
    /\ for' = [for EXCEPT ![x] = NoRequest]
    /\ seen' = [c \in AppCalls |-> IF c = x THEN NoRequest ELSE seen[c]]

-----------------------------------------------------------------------------
\* generateAgreement and requestESign

\* Mutant of MayGenerate: the consumer durable endpoint, too, refuses a signed
\* application only
MayRegenerate == endpoint = "gold" \/ esign # "SIGNED"

\* Mutant of MayGenerate: an application gets one signing request
MayGenerateOnce == request = NoRequest

MayGenerate ==
    CASE endpoint = "cdl"  -> esign # "SIGNED" /\ ~ (request # NoRequest /\ esign = "PENDING")
      [] endpoint = "kyc"  -> esign # "SIGNED"
      [] endpoint = "gold" -> TRUE

Unopened == {r \in SignRequest : signing[r] = "none"}

\* Bound: no call starts for which LastRequest would leave no request
GenerateAgreement(c) ==
    /\ stage[c] = "idle" /\ MayGenerate
    /\ Cardinality({d \in AppCalls : stage[d] = "create"}) < Cardinality(Unopened)
    /\ Proceed(c, "create")
    /\ seen' = [seen EXCEPT ![c] = request]
    /\ UNCHANGED <<endpoint, agreementRow, providerVars, processed, for, deaths, disturbances>>

\* The provider opens a request; its ids are numbered in the order of creation
CreateSignRequest(c) ==
    /\ stage[c] = "create"
    /\ \E r \in Unopened :
        /\ \A s \in Unopened : r <= s
        /\ signing' = [signing EXCEPT ![r] = "PENDING"]
        /\ for' = [for EXCEPT ![c] = r]
    /\ Proceed(c, "writeRequest")
    /\ UNCHANGED <<endpoint, agreementRow, given, callback, processed, seen, deaths, disturbances>>

\* The row is written without a condition, and the URL returned
WriteRequest(c) ==
    /\ stage[c] = "writeRequest"
    /\ request' = for[c] /\ esign' = "PENDING"
    /\ given' = given \cup {for[c]}
    /\ overwritten' = (overwritten \/ request # seen[c])
    /\ Finish(c)
    /\ UNCHANGED <<endpoint, agreement, stamp, signing, callback, processed, deaths, misapplied>>

-----------------------------------------------------------------------------
\* The customer and the provider

\* The customer signs or declines, or the URL expires after 24 hours.  A request
\* whose URL nobody got can only expire, and no call lasts until then.
Resolve(r, outcome) ==
    /\ signing[r] = "PENDING"
    /\ \/ r \in given
       \/ outcome = "EXPIRED" /\ \A c \in AppCalls : for[c] # r
    /\ signing' = [signing EXCEPT ![r] = outcome]
    /\ callback' = callback \cup {r}
    /\ UNCHANGED <<endpoint, agreementRow, given, processed, execVars, deaths, disturbances>>

LoseCallback(r) ==
    /\ LostCallbacks /\ r \in callback
    /\ callback' = callback \ {r}
    /\ UNCHANGED <<endpoint, agreementRow, signing, given, processed, execVars, deaths, disturbances>>

-----------------------------------------------------------------------------
\* completeESign: the customer polls

CompleteESign(c) ==
    /\ stage[c] = "idle" /\ request # NoRequest
    /\ Proceed(c, "poll")
    /\ for' = [for EXCEPT ![c] = request]
    /\ UNCHANGED <<endpoint, agreementRow, providerVars, processed, seen, deaths, disturbances>>

\* Mutant of Poll: a signing that is still pending is good enough
PollLoosely(c) ==
    /\ stage[c] = "poll"
    /\ IF signing[for[c]] \in {"SIGNED", "PENDING"}
       THEN Proceed(c, "store") /\ UNCHANGED <<for, seen>> ELSE Finish(c)
    /\ UNCHANGED <<endpoint, agreementRow, providerVars, processed, deaths, disturbances>>

\* getSignStatus of the request that was read; nothing is written unless SIGNED
Poll(c) ==
    /\ stage[c] = "poll"
    /\ IF signing[for[c]] = "SIGNED"
       THEN Proceed(c, "store") /\ UNCHANGED <<for, seen>> ELSE Finish(c)
    /\ UNCHANGED <<endpoint, agreementRow, providerVars, processed, deaths, disturbances>>

\* applyEStamp and getSignedDocument answered: one write, without a condition
StoreSigned(c) ==
    /\ stage[c] = "store"
    /\ esign' = "SIGNED" /\ agreement' = for[c]
    /\ stamp' \in {"APPLIED", "FAILED"}
    /\ Finish(c)
    /\ UNCHANGED <<endpoint, request, providerVars, processed, deaths, disturbances>>

-----------------------------------------------------------------------------
\* The callback, delivered until it is answered 200

DeliverCallback(w, r) ==
    /\ stage[w] = "idle" /\ r \in callback
    /\ IF r \in processed
       THEN callback' = callback \ {r} /\ UNCHANGED <<stage, for>>
       ELSE Proceed(w, "find") /\ for' = [for EXCEPT ![w] = r] /\ UNCHANGED callback
    /\ UNCHANGED <<endpoint, agreementRow, signing, given, processed, seen, deaths, disturbances>>

\* An unknown request is logged, and the callback answered 200
FindApplication(w) ==
    /\ stage[w] = "find"
    /\ Proceed(w, IF request = for[w] THEN "update" ELSE "mark")
    /\ UNCHANGED <<endpoint, agreementRow, providerVars, processed, for, seen, deaths, disturbances>>

\* By the application's id, whatever its esign_request_id has become
UpdateStatus(w) ==
    /\ stage[w] = "update"
    /\ esign' = signing[for[w]]
    /\ misapplied' = (misapplied \/ request # for[w])
    /\ Proceed(w, "mark")
    /\ UNCHANGED <<endpoint, request, agreement, stamp, providerVars, processed, for, seen, deaths, overwritten>>

\* The answer 200 reaches the provider, or the callback is sent once more
MarkProcessed(w) ==
    /\ stage[w] = "mark"
    /\ processed' = processed \cup {for[w]}
    /\ callback' \in {callback, callback \ {for[w]}}
    /\ Finish(w)
    /\ UNCHANGED <<endpoint, agreementRow, signing, given, deaths, disturbances>>

\* The provider or the database threw, or the instance died
Dies(x) ==
    /\ stage[x] # "idle" /\ deaths < MaxDeaths
    /\ deaths' = deaths + 1
    /\ Finish(x)
    /\ UNCHANGED <<endpoint, agreementRow, providerVars, processed, disturbances>>

Generation(c) == CreateSignRequest(c) \/ WriteRequest(c)
Completion(c) == Poll(c) \/ StoreSigned(c)
Handling(w)   == FindApplication(w) \/ UpdateStatus(w) \/ MarkProcessed(w)

AgreementNext ==
    \/ \E c \in AppCalls : GenerateAgreement(c) \/ CompleteESign(c) \/ Generation(c) \/ Completion(c)
    \/ \E w \in Callbacks : Handling(w) \/ \E r \in SignRequest : DeliverCallback(w, r)
    \/ \E r \in SignRequest : LoseCallback(r) \/ \E outcome \in Resolved : Resolve(r, outcome)
    \/ \E x \in Executions : Dies(x)

AgreementSpec == AgreementInit /\ [][AgreementNext]_agreementVars

-----------------------------------------------------------------------------
\* What disbursement checks of the agreement
GateOpen == esign = "SIGNED" /\ stamp = "APPLIED"

\* Money can leave only for an agreement that the customer signed and that is
\* stored: whatever requests were opened meanwhile, by whichever endpoint.
GateIsBacked ==
    /\ GateOpen => agreement # NoRequest
    /\ agreement # NoRequest => signing[agreement] = "SIGNED"
    /\ esign = "SIGNED" => \E r \in SignRequest : signing[r] = "SIGNED"

\* On the consumer durable endpoint a completed signature is not orphaned: the
\* application points at the request that was signed, unless two calls of
\* generateAgreement overlapped or a callback hit the successor of its request.
SignatureIsNotOrphaned ==
    endpoint = "cdl" /\ ~ overwritten /\ ~ misapplied =>
        \A r \in SignRequest : signing[r] = "SIGNED" => r = request

\* A request that expired or was declined is eventually replaced by a fresh one,
\* as long as the provider's callbacks get through.
DeadRequestIsReplaced ==
    \A r \in SignRequest :
        (request = r /\ signing[r] \in {"DECLINED", "EXPIRED"} /\ Unopened # {})
            ~> (request # r \/ Unopened = {} \/ agreement # NoRequest)
=============================================================================
