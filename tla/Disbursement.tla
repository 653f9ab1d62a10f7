---------------------------- MODULE Disbursement ----------------------------
(***************************************************************************)
(* The payout of ONE approved loan application, from the finance team's    *)
(* call (or CDL's disburseToMerchant) to the loan account, its EMI         *)
(* schedule and the GL entry: disbursement.service.ts, the part of         *)
(* cdlLoans.service.ts that disburses, the payout half of                  *)
(* webhooks.service.ts, and the repair done by settlement.job.ts.          *)
(*                                                                         *)
(* Calls run concurrently and interleave at every await.  A finance or     *)
(* merchant call is a member of Requests, an execution slot of the webhook *)
(* endpoint a member of Workers; pc says what a call does next.  A request *)
(* creates at most one disbursements row, so the row carries its name.     *)
(***************************************************************************)
EXTENDS Naturals, FiniteSets

CONSTANTS
    Requests,     \* initiate, retry and disburseToMerchant calls
    Workers,      \* concurrent executions of POST /webhooks/razorpay
    None,
    Product,      \* product_type of the application
    Gates,        \* the gates 3 to 5 that are tracked
    Kinds,        \* payout events the gateway sends
    MaxAttempts,  \* maxAttempts of createPayout's vendorCall
    SlowCalls,    \* may a call outlast the 30 s TTL of the lock it holds?
    LostReplies,  \* may createPayout time out after reaching the gateway?
    Crashes       \* may an instance die with calls in flight?

ASSUME ProcessAssumption == Requests \cap Workers = {}
ASSUME ProductAssumption == Product \in {"CDL", "GOLD_LOAN", "HOUSING_LOAN"}
ASSUME GatesAssumption == Gates \subseteq {"KYC", "AGREEMENT", "UNDERWRITING"}
ASSUME KindsAssumption == Kinds \subseteq {"updated", "processed", "reversed", "failed"}
ASSUME AttemptsAssumption == MaxAttempts \in Nat \ {0}
ASSUME SwitchesAssumption ==
    SlowCalls \in BOOLEAN /\ LostReplies \in BOOLEAN /\ Crashes \in BOOLEAN

Procs    == Requests \cup Workers
PayoutId == [req : Requests, try : 1..MaxAttempts]
\* Gates 4 and 4b, eSign and eStamp, are the only ones disburseToMerchant has
AgreementGates == Gates \cap {"AGREEMENT"}
Event    == [payout : PayoutId, kind : Kinds]

ASSUME NoneAssumption == None \notin Requests \cup Workers \cup PayoutId \cup Event

VARIABLES
    app,         \* loan_applications.status
    cleared,     \* the gates of Gates already cleared
    rejecter,    \* rejectLoan: "idle", or "checked" after its status check
    rec,         \* disbursements.status of the row of each request
    payoutOf,    \* disbursements.razorpay_payout_id
    account,     \* loan_accounts.status, "NONE" before the row exists
    schedule,    \* the EMI schedule rows exist
    amounts,     \* loan_accounts.monthly_emi is no longer 0
    gl,          \* number of DISBURSEMENT journal entries of each row
    commissions, \* number of agent_commissions rows
    lock,        \* owner of lock:disburse:<application>
    whLock,      \* owner of wh:done:<payoutId>, for each payout
    payout,      \* the gateway's status of each payout
    sent,        \* events the gateway has sent
    acked,       \* events logged PROCESSED and answered 200
    pc,          \* what each call does next
    route,       \* the entry point of each request
    attempt,     \* createPayout attempt of each request
    sync,        \* createPayout answered DONE with a UTR
    delivery,    \* the event each worker handles
    unheard,     \* history: events acknowledged by a call that found the payout's lock
                 \* taken, or no row that names the payout
    job          \* settlement.job, step 2

loanVars == <<account, schedule, amounts, commissions>>
bankVars == <<payout, sent>>
callVars == <<route, attempt, sync>>
hookVars == <<whLock, acked, unheard, delivery>>
vars == <<app, cleared, rejecter, rec, payoutOf, loanVars, gl, lock, bankVars,
          pc, callVars, hookVars, job>>

RecStatus    == {"NONE", "PENDING", "INITIATED", "COMPLETED", "FAILED", "REVERSED"}
PayoutStatus == {"none", "queued", "processed", "failed", "reversed"}

\* Steps of _executeInitiation and of the completion, in the order of the code
InitiationPc == {"gate1", "gates", "create", "paying", "replied", "payoutError"}
CompletionPc == {"complete", "pathA", "pathB", "schedule", "amounts", "announce"}
UnlockPc     == {"unlockOk", "unlockErr"}
RequestPc    == {"idle", "done"} \cup InitiationPc \cup CompletionPc \cup UnlockPc
WorkerPc     == {"idle", "checked", "reading", "reverse", "fail", "turnedAway", "ack", "nack"}
                    \cup CompletionPc \cup UnlockPc

TypeOK ==
    /\ app \in {"APPROVED", "REJECTED", "DISBURSED"}
    /\ cleared \subseteq Gates
    /\ rejecter \in {"idle", "checked"}
    /\ rec \in [Requests -> RecStatus]
    /\ payoutOf \in [Requests -> PayoutId \cup {None}]
    /\ account \in {"NONE", "DISBURSED", "ACTIVE"}
    /\ schedule \in BOOLEAN /\ amounts \in BOOLEAN
    /\ gl \in [Requests -> Nat]
    /\ commissions \in Nat
    /\ lock \in Requests \cup {None}
    /\ whLock \in [PayoutId -> Workers \cup {None}]
    /\ payout \in [PayoutId -> PayoutStatus]
    /\ sent \subseteq Event
    /\ acked \subseteq Event /\ unheard \subseteq Event
    /\ pc \in [Procs -> RequestPc \cup WorkerPc]
    /\ \A r \in Requests : pc[r] \in RequestPc
    /\ \A w \in Workers : pc[w] \in WorkerPc
    /\ route \in [Requests -> {"none", "finance", "merchant"}]
    /\ attempt \in [Requests -> 1..MaxAttempts]
    /\ sync \in [Requests -> BOOLEAN]
    /\ delivery \in [Workers -> Event \cup {None}]
    /\ \A w \in Workers : pc[w] # "idle" => delivery[w] # None
    /\ job \in {"idle", "found", "scheduled"}

Init ==
    /\ app = "APPROVED"
    /\ cleared = {}
    /\ rejecter = "idle"
    /\ rec = [r \in Requests |-> "NONE"]
    /\ payoutOf = [r \in Requests |-> None]
    /\ account = "NONE"
    /\ schedule = FALSE /\ amounts = FALSE
    /\ gl = [r \in Requests |-> 0]
    /\ commissions = 0
    /\ lock = None
    /\ whLock = [p \in PayoutId |-> None]
    /\ payout = [p \in PayoutId |-> "none"]
    /\ sent = {} /\ acked = {} /\ unheard = {}
    /\ pc = [p \in Procs |-> "idle"]
    /\ route = [r \in Requests |-> "none"]
    /\ attempt = [r \in Requests |-> 1]
    /\ sync = [r \in Requests |-> FALSE]
    /\ delivery = [w \in Workers |-> None]
    /\ job = "idle"

Goto(p, next) == pc' = [pc EXCEPT ![p] = next]

\* The row a call works on: its own, or the one findByPayoutId returns
Target(p) == IF p \in Requests THEN p ELSE delivery[p].payout.req
CurrentPayout(r) == [req |-> r, try |-> attempt[r]]

-----------------------------------------------------------------------------
(* The application: gates that other modules clear, and rejectLoan         *)

ClearGate(g) ==
    /\ g \notin cleared
    /\ cleared' = cleared \cup {g}
    /\ UNCHANGED <<app, rejecter, rec, payoutOf, loanVars, gl, lock, bankVars, pc,
                   callVars, hookVars, job>>

\* rejectLoan reads the status, asserts it is rejectable, and only then writes
RejectCheck ==
    /\ rejecter = "idle"
    /\ app = "APPROVED"
    /\ rejecter' = "checked"
    /\ UNCHANGED <<app, cleared, rec, payoutOf, loanVars, gl, lock, bankVars, pc,
                   callVars, hookVars, job>>

RejectWrite ==
    /\ rejecter = "checked"
    /\ rejecter' = "idle"
    /\ app' = "REJECTED"
    /\ UNCHANGED <<cleared, rec, payoutOf, loanVars, gl, lock, bankVars, pc,
                   callVars, hookVars, job>>

\* loansService.activateLoan: a housing officer, or a mandate.activated webhook
ActivateLoan ==
    /\ account = "DISBURSED"
    /\ account' = "ACTIVE"
    /\ UNCHANGED <<app, cleared, rejecter, rec, payoutOf, schedule, amounts, commissions,
                   gl, lock, bankVars, pc, callVars, hookVars, job>>

-----------------------------------------------------------------------------
(* initiateDisbursement: SET NX of the lock, then _executeInitiation        *)

\* Mutant of LockIsFree: SET without NX
LockIsIgnored == TRUE
LockIsFree == lock = None

\* A call that finds the lock taken gets ConflictError and changes nothing
InitiateDisbursement(r) ==
    /\ pc[r] = "idle"
    /\ LockIsFree
    /\ lock' = r
    /\ route' = [route EXCEPT ![r] = "finance"]
    /\ Goto(r, "gate1")
    /\ UNCHANGED <<app, cleared, rejecter, rec, payoutOf, loanVars, gl, bankVars,
                   attempt, sync, hookVars, job>>

\* retryDisbursement: the same call, for the loan of a FAILED row
RetryDisbursement(r, failed) ==
    /\ rec[failed] = "FAILED"
    /\ InitiateDisbursement(r)

\* Gate 1: the application is APPROVED
CheckApproved(r) ==
    /\ pc[r] = "gate1"
    /\ Goto(r, IF app = "APPROVED" THEN "gates" ELSE "unlockErr")
    /\ UNCHANGED <<app, cleared, rejecter, rec, payoutOf, loanVars, gl, lock, bankVars,
                   callVars, hookVars, job>>

\* Gate 2 counts COMPLETED, IN_TRANSIT and INITIATED rows (nothing writes
\* IN_TRANSIT); then gates 3 to 5
\* Mutant of ExistsCompletedForLoan: payouts under way do not count
ExistsCompletedOnly == \E r \in Requests : rec[r] = "COMPLETED"
ExistsCompletedForLoan == \E r \in Requests : rec[r] \in {"COMPLETED", "INITIATED"}

\* Mutant of GatesCleared: the agreement need not be signed
GatesWithoutAgreement == Gates \ AgreementGates \subseteq cleared
GatesCleared == cleared = Gates

CheckGates(r) ==
    /\ pc[r] = "gates"
    /\ Goto(r, IF ~ExistsCompletedForLoan /\ GatesCleared THEN "create" ELSE "unlockErr")
    /\ UNCHANGED <<app, cleared, rejecter, rec, payoutOf, loanVars, gl, lock, bankVars,
                   callVars, hookVars, job>>

CreateRecord(r) ==
    /\ pc[r] = "create"
    /\ rec' = [rec EXCEPT ![r] = "PENDING"]
    /\ Goto(r, "paying")
    /\ UNCHANGED <<app, cleared, rejecter, payoutOf, loanVars, gl, lock, bankVars,
                   callVars, hookVars, job>>

\* cdlLoans.disburseToMerchant takes no lock.  One transaction creates the
\* account, the schedule and the PENDING row; the unique application_id makes
\* it fail when an account exists already, leaving nothing behind.  The status
\* of the application is not read.
DisburseToMerchant(r) ==
    /\ Product = "CDL"
    /\ pc[r] = "idle"
    /\ AgreementGates \subseteq cleared
    /\ account = "NONE"
    /\ account' = "DISBURSED"
    /\ schedule' = TRUE /\ amounts' = TRUE
    /\ app' = "DISBURSED"
    /\ rec' = [rec EXCEPT ![r] = "PENDING"]
    /\ route' = [route EXCEPT ![r] = "merchant"]
    /\ Goto(r, "paying")
    /\ UNCHANGED <<cleared, rejecter, payoutOf, commissions, gl, lock, bankVars,
                   attempt, sync, hookVars, job>>

-----------------------------------------------------------------------------
(* createPayout: vendorCall repeats the request, with the same reference   *)
(* id and no idempotency key, so every attempt may leave a payout behind   *)

Sends(p, kind) == sent' = sent \cup ({[payout |-> p, kind |-> kind]} \cap Event)

\* Mutant of IsSettled: any payout the gateway took counts as settled
IsAccepted(status, utr) == status # "failed"
IsSettled(status, utr) == status = "processed" /\ utr

\* The gateway's answer: processed with or without a UTR, still queued, or a
\* status the provider maps to FAILED; the caller only looks for DONE and a UTR
PayoutReply(r, status, utr) ==
    /\ pc[r] = "paying"
    /\ utr => status = "processed"
    /\ payout' = [payout EXCEPT ![CurrentPayout(r)] = status]
    /\ Sends(CurrentPayout(r), status)
    /\ sync' = [sync EXCEPT ![r] = IsSettled(status, utr)]
    /\ Goto(r, "replied")
    /\ UNCHANGED <<app, cleared, rejecter, rec, payoutOf, loanVars, gl, lock, route,
                   attempt, hookVars, job>>

\* Mutant of CanRetry: one attempt too many
CanRetryOnceMore(r) == attempt[r] <= MaxAttempts
CanRetry(r) == attempt[r] < MaxAttempts

\* The attempt fails.  accepted: the gateway had taken the payout all the same
PayoutError(r, accepted) ==
    /\ pc[r] = "paying"
    /\ accepted => LostReplies
    /\ payout' = [payout EXCEPT ![CurrentPayout(r)] = IF accepted THEN "queued" ELSE @]
    /\ IF CanRetry(r)
         THEN attempt' = [attempt EXCEPT ![r] = @ + 1] /\ UNCHANGED pc
         ELSE Goto(r, "payoutError") /\ UNCHANGED attempt
    /\ UNCHANGED <<app, cleared, rejecter, rec, payoutOf, loanVars, gl, lock, sent, route,
                   sync, hookVars, job>>

FailRecord(r) ==
    /\ pc[r] = "payoutError"
    /\ rec' = [rec EXCEPT ![r] = "FAILED"]
    /\ Goto(r, "unlockErr")
    /\ UNCHANGED <<app, cleared, rejecter, payoutOf, loanVars, gl, lock, bankVars,
                   callVars, hookVars, job>>

\* Finance route.  The loan.disbursed event of disbursementEvents.initiated
\* carries the row's id for an account id, so no commission follows from it.
MarkInitiated(r) ==
    /\ pc[r] = "replied"
    /\ route[r] = "finance"
    /\ rec' = [rec EXCEPT ![r] = "INITIATED"]
    /\ payoutOf' = [payoutOf EXCEPT ![r] = CurrentPayout(r)]
    /\ Goto(r, IF sync[r] THEN "complete" ELSE "unlockOk")
    /\ UNCHANGED <<app, cleared, rejecter, loanVars, gl, lock, bankVars,
                   callVars, hookVars, job>>

\* Merchant route: one transaction, no GL entry and no event
MerchantCommit(r) ==
    /\ pc[r] = "replied"
    /\ route[r] = "merchant"
    /\ rec' = [rec EXCEPT ![r] = IF sync[r] THEN "COMPLETED" ELSE "INITIATED"]
    /\ payoutOf' = [payoutOf EXCEPT ![r] = CurrentPayout(r)]
    /\ account' = IF sync[r] THEN "ACTIVE" ELSE account
    /\ Goto(r, "unlockOk")
    /\ UNCHANGED <<app, cleared, rejecter, schedule, amounts, commissions, gl, lock,
                   bankVars, callVars, hookVars, job>>

\* A payout settles, or is reversed later, and the gateway says so
GatewaySettles(p, status) ==
    /\ \/ payout[p] = "queued" /\ status \in {"processed", "failed", "reversed"}
       \/ payout[p] = "processed" /\ status = "reversed"
    /\ payout' = [payout EXCEPT ![p] = status]
    /\ Sends(p, status)
    /\ UNCHANGED <<app, cleared, rejecter, rec, payoutOf, loanVars, gl, lock, pc,
                   callVars, hookVars, job>>

\* Progress notices, and processed notices without a UTR
GatewayUpdate(p) ==
    /\ payout[p] # "none"
    /\ Sends(p, "updated")
    /\ UNCHANGED <<app, cleared, rejecter, rec, payoutOf, loanVars, gl, lock, payout, pc,
                   callVars, hookVars, job>>

-----------------------------------------------------------------------------
(* The payout webhook: executeWithAudit around processPayoutWebhook        *)

\* checkIdempotency.  A redelivery of an acknowledged event is SKIPPED and
\* changes nothing; any other may be in several workers' hands at once.
Deliver(w, e) ==
    /\ pc[w] = "idle"
    /\ e \in sent \ acked
    /\ delivery' = [delivery EXCEPT ![w] = e]
    /\ Goto(w, "checked")
    /\ UNCHANGED <<app, cleared, rejecter, rec, payoutOf, loanVars, gl, lock, bankVars,
                   callVars, whLock, acked, unheard, job>>

LockPayout(w) ==
    /\ pc[w] = "checked"
    /\ LET p == delivery[w].payout IN
       IF whLock[p] = None
         THEN whLock' = [whLock EXCEPT ![p] = w] /\ Goto(w, "reading") /\ UNCHANGED unheard
         ELSE /\ Goto(w, "turnedAway") /\ UNCHANGED whLock
              /\ unheard' = unheard \cup {delivery[w]}
    /\ UNCHANGED <<app, cleared, rejecter, rec, payoutOf, loanVars, gl, lock, bankVars,
                   callVars, acked, delivery, job>>

\* Mutant of FoundByPayoutId: the row is looked up by its reference id
FoundByReference(w) == rec[Target(w)] # "NONE"
FoundByPayoutId(w) == payoutOf[Target(w)] = delivery[w].payout

\* findByPayoutId and the early returns: unknown payout, row already settled,
\* no UTR, a status that asks for nothing
ReadRecord(w) ==
    /\ pc[w] = "reading"
    /\ LET kind == delivery[w].kind
           open == FoundByPayoutId(w) /\ rec[Target(w)] \notin {"COMPLETED", "REVERSED"}
       IN \/ open /\ kind = "processed" /\ Goto(w, "complete")
          \/ open /\ kind = "reversed" /\ Goto(w, "reverse")
          \/ open /\ kind = "failed" /\ Goto(w, "fail")
          \/ (~open \/ kind = "updated") /\ Goto(w, "unlockOk")
    /\ unheard' = IF FoundByPayoutId(w) THEN unheard ELSE unheard \cup {delivery[w]}
    /\ UNCHANGED <<app, cleared, rejecter, rec, payoutOf, loanVars, gl, lock, bankVars,
                   callVars, whLock, acked, delivery, job>>

MarkReversed(w) ==
    /\ pc[w] = "reverse"
    /\ rec' = [rec EXCEPT ![Target(w)] = "REVERSED"]
    /\ Goto(w, "unlockOk")
    /\ UNCHANGED <<app, cleared, rejecter, payoutOf, loanVars, gl, lock, bankVars,
                   callVars, hookVars, job>>

MarkFailed(w) ==
    /\ pc[w] = "fail"
    /\ rec' = [rec EXCEPT ![Target(w)] = "FAILED"]
    /\ Goto(w, "unlockOk")
    /\ UNCHANGED <<app, cleared, rejecter, payoutOf, loanVars, gl, lock, bankVars,
                   callVars, hookVars, job>>

\* 200 after markIdempotent and the PROCESSED log row; also when the handler
\* returned because another execution holds the payout's lock
Acknowledge(w) ==
    /\ pc[w] \in {"ack", "turnedAway"}
    /\ acked' = acked \cup {delivery[w]}
    /\ delivery' = [delivery EXCEPT ![w] = None]
    /\ Goto(w, "idle")
    /\ UNCHANGED <<app, cleared, rejecter, rec, payoutOf, loanVars, gl, lock, bankVars,
                   callVars, whLock, unheard, job>>

\* Mutant of Refuse: the key of the event is set before the handler has run
RefuseForGood(w) ==
    /\ pc[w] = "nack"
    /\ acked' = acked \cup {delivery[w]}
    /\ delivery' = [delivery EXCEPT ![w] = None]
    /\ Goto(w, "idle")
    /\ UNCHANGED <<app, cleared, rejecter, rec, payoutOf, loanVars, gl, lock, bankVars,
                   callVars, whLock, unheard, job>>

\* FAILED log row and 500: the gateway will deliver the event again
Refuse(w) ==
    /\ pc[w] = "nack"
    /\ delivery' = [delivery EXCEPT ![w] = None]
    /\ Goto(w, "idle")
    /\ UNCHANGED <<app, cleared, rejecter, rec, payoutOf, loanVars, gl, lock, bankVars,
                   callVars, whLock, acked, unheard, job>>

-----------------------------------------------------------------------------
(* _completeDisbursement, run by a request that got a synchronous DONE or  *)
(* by a worker                                                             *)

FindAccount(p) ==
    /\ pc[p] = "complete"
    /\ Goto(p, IF account = "NONE" THEN "pathB" ELSE "pathA")
    /\ UNCHANGED <<app, cleared, rejecter, rec, payoutOf, loanVars, gl, lock, bankVars,
                   callVars, hookVars, job>>

\* Mutant of Book: the GL entry is left out of the transaction
BookWithoutEntry(r) ==
    /\ rec' = [rec EXCEPT ![r] = "COMPLETED"]
    /\ app' = "DISBURSED"
    /\ UNCHANGED gl

\* The writes both transactions make: row COMPLETED, one GL entry, application
Book(r) ==
    /\ rec' = [rec EXCEPT ![r] = "COMPLETED"]
    /\ gl' = [gl EXCEPT ![r] = @ + 1]
    /\ app' = "DISBURSED"

\* Path A: the account read before is activated unless it was ACTIVE already
CompleteExisting(p) ==
    /\ pc[p] = "pathA"
    /\ Book(Target(p))
    /\ account' = "ACTIVE"
    /\ Goto(p, "announce")
    /\ UNCHANGED <<cleared, rejecter, payoutOf, schedule, amounts, commissions, lock,
                   bankVars, callVars, hookVars, job>>

\* Path B: the transaction creates the account, or fails on application_id
CompleteByCreating(p) ==
    /\ pc[p] = "pathB"
    /\ IF account = "NONE"
         THEN /\ Book(Target(p))
              /\ account' = IF Product = "GOLD_LOAN" THEN "ACTIVE" ELSE "DISBURSED"
              /\ Goto(p, "schedule")
         ELSE /\ Goto(p, "unlockErr")
              /\ UNCHANGED <<rec, gl, app, account>>
    /\ UNCHANGED <<cleared, rejecter, payoutOf, schedule, amounts, commissions, lock,
                   bankVars, callVars, hookVars, job>>

\* emiService.createSchedule; (loan_account_id, emi_number) is unique
CreateSchedule(p) ==
    /\ pc[p] = "schedule"
    /\ schedule' = TRUE
    /\ Goto(p, IF schedule THEN "unlockErr" ELSE "amounts")
    /\ UNCHANGED <<app, cleared, rejecter, rec, payoutOf, account, amounts, commissions,
                   gl, lock, bankVars, callVars, hookVars, job>>

SetAmounts(p) ==
    /\ pc[p] = "amounts"
    /\ amounts' = TRUE
    /\ Goto(p, "announce")
    /\ UNCHANGED <<app, cleared, rejecter, rec, payoutOf, account, schedule, commissions,
                   gl, lock, bankVars, callVars, hookVars, job>>

\* loan.disbursed: the commission:calculate handler finds the account and
\* creates an EARNED commission for the agent, whatever exists already
Announce(p) ==
    /\ pc[p] = "announce"
    /\ commissions' = commissions + 1
    /\ Goto(p, "unlockOk")
    /\ UNCHANGED <<app, cleared, rejecter, rec, payoutOf, account, schedule, amounts,
                   gl, lock, bankVars, callVars, hookVars, job>>

\* The finally blocks; releaseLock deletes the key only if it holds the
\* caller's token.  A request that created no row may be made again.
UnlockRequest(r) ==
    /\ pc[r] \in UnlockPc
    /\ lock' = IF lock = r THEN None ELSE lock
    /\ Goto(r, IF rec[r] = "NONE" THEN "idle" ELSE "done")
    /\ UNCHANGED <<app, cleared, rejecter, rec, payoutOf, loanVars, gl, bankVars,
                   callVars, hookVars, job>>

UnlockWorker(w) ==
    /\ pc[w] \in UnlockPc
    /\ whLock' = [whLock EXCEPT ![delivery[w].payout] = IF @ = w THEN None ELSE @]
    /\ Goto(w, IF pc[w] = "unlockOk" THEN "ack" ELSE "nack")
    /\ UNCHANGED <<app, cleared, rejecter, rec, payoutOf, loanVars, gl, lock, bankVars,
                   callVars, acked, unheard, delivery, job>>

-----------------------------------------------------------------------------
(* settlement.job, step 2: rebuild a missing schedule                      *)

\* Mutant of IsOrphan: accounts not activated yet are overlooked
IsActiveOrphan == account = "ACTIVE" /\ ~amounts /\ ~schedule
IsOrphan == account \in {"ACTIVE", "DISBURSED"} /\ ~amounts /\ ~schedule

\* Step 2 selects live accounts with monthly_emi = 0 and no schedule row
FindOrphan ==
    /\ job = "idle"
    /\ IsOrphan
    /\ job' = "found"
    /\ UNCHANGED <<app, cleared, rejecter, rec, payoutOf, loanVars, gl, lock, bankVars, pc,
                   callVars, hookVars>>

\* createSchedule again; a unique violation is caught and only logged
RebuildSchedule ==
    /\ job = "found"
    /\ schedule' = TRUE
    /\ job' = IF schedule THEN "idle" ELSE "scheduled"
    /\ UNCHANGED <<app, cleared, rejecter, rec, payoutOf, account, amounts, commissions,
                   gl, lock, bankVars, pc, callVars, hookVars>>

RebuildAmounts ==
    /\ job = "scheduled"
    /\ amounts' = TRUE
    /\ job' = "idle"
    /\ UNCHANGED <<app, cleared, rejecter, rec, payoutOf, account, schedule, commissions,
                   gl, lock, bankVars, pc, callVars, hookVars>>

-----------------------------------------------------------------------------
(* Time and failures                                                       *)

InLock(r) == route[r] = "finance" /\ pc[r] \in InitiationPc \cup CompletionPc \cup UnlockPc
InHook(w, p) ==
    /\ pc[w] \in {"reading", "reverse", "fail"} \cup CompletionPc \cup UnlockPc
    /\ delivery[w].payout = p

\* Mutant of LockOutlived: the key has no TTL
LockIsEternal == FALSE
LockOutlived == SlowCalls \/ ~InLock(lock)

\* The TTL of 30 s runs out: always on a lock left by a dead call, on the lock
\* of a call in flight only if calls may be that slow
LockExpires ==
    /\ lock # None
    /\ LockOutlived
    /\ lock' = None
    /\ UNCHANGED <<app, cleared, rejecter, rec, payoutOf, loanVars, gl, bankVars, pc,
                   callVars, hookVars, job>>

PayoutLockExpires(p) ==
    /\ whLock[p] # None
    /\ SlowCalls \/ ~InHook(whLock[p], p)
    /\ whLock' = [whLock EXCEPT ![p] = None]
    /\ UNCHANGED <<app, cleared, rejecter, rec, payoutOf, loanVars, gl, lock, bankVars, pc,
                   callVars, acked, unheard, delivery, job>>

\* The instance running the call dies: no finally block, no answer
CrashRequest(r) ==
    /\ Crashes
    /\ pc[r] \notin {"idle", "done"}
    /\ Goto(r, "done")
    /\ UNCHANGED <<app, cleared, rejecter, rec, payoutOf, loanVars, gl, lock, bankVars,
                   callVars, hookVars, job>>

CrashWorker(w) ==
    /\ Crashes
    /\ pc[w] # "idle"
    /\ delivery' = [delivery EXCEPT ![w] = None]
    /\ Goto(w, "idle")
    /\ UNCHANGED <<app, cleared, rejecter, rec, payoutOf, loanVars, gl, lock, bankVars,
                   callVars, whLock, acked, unheard, job>>

CrashJob ==
    /\ Crashes
    /\ job # "idle"
    /\ job' = "idle"
    /\ UNCHANGED <<app, cleared, rejecter, rec, payoutOf, loanVars, gl, lock, bankVars, pc,
                   callVars, hookVars>>

-----------------------------------------------------------------------------
\* The steps a call takes by itself once it is under way
InitiationStep(r) ==
    \/ CheckApproved(r) \/ CheckGates(r) \/ CreateRecord(r)
    \/ \E s \in {"queued", "processed", "failed"}, utr \in BOOLEAN : PayoutReply(r, s, utr)
    \/ \E accepted \in BOOLEAN : PayoutError(r, accepted)
    \/ FailRecord(r) \/ MarkInitiated(r) \/ MerchantCommit(r) \/ UnlockRequest(r)

WebhookStep(w) ==
    \/ LockPayout(w) \/ ReadRecord(w) \/ MarkReversed(w) \/ MarkFailed(w)
    \/ UnlockWorker(w) \/ Acknowledge(w) \/ Refuse(w)

CompletionStep(p) ==
    \/ FindAccount(p) \/ CompleteExisting(p) \/ CompleteByCreating(p)
    \/ CreateSchedule(p) \/ SetAmounts(p) \/ Announce(p)

RequestNext(r) ==
    \/ InitiateDisbursement(r)
    \/ \E failed \in Requests : RetryDisbursement(r, failed)
    \/ DisburseToMerchant(r)
    \/ InitiationStep(r)
    \/ CompletionStep(r)
    \/ CrashRequest(r)

WorkerNext(w) ==
    \/ \E e \in Event : Deliver(w, e)
    \/ WebhookStep(w)
    \/ CompletionStep(w)
    \/ CrashWorker(w)

PayoutNext(p) ==
    \/ \E s \in {"processed", "failed", "reversed"} : GatewaySettles(p, s)
    \/ GatewayUpdate(p)
    \/ PayoutLockExpires(p)

JobNext == FindOrphan \/ RebuildSchedule \/ RebuildAmounts \/ CrashJob

Next ==
    \/ \E g \in Gates : ClearGate(g)
    \/ RejectCheck \/ RejectWrite \/ ActivateLoan
    \/ \E r \in Requests : RequestNext(r)
    \/ \E w \in Workers : WorkerNext(w)
    \/ \E p \in PayoutId : PayoutNext(p)
    \/ JobNext
    \/ LockExpires

Spec == Init /\ [][Next]_vars

\* A call under way goes on, keys reach their TTL, the nightly job runs and one
\* of its runs survives, and the gateway delivers what is not acknowledged
Fairness ==
    /\ \A r \in Requests : WF_vars(InitiationStep(r)) /\ WF_vars(CompletionStep(r))
    /\ \A w \in Workers : WF_vars(WebhookStep(w)) /\ WF_vars(CompletionStep(w))
    /\ \A e \in Event : SF_vars(\E w \in Workers : Deliver(w, e))
    /\ \A p \in PayoutId : WF_vars(PayoutLockExpires(p))
    /\ WF_vars(LockExpires)
    /\ WF_vars(FindOrphan) /\ SF_vars(RebuildSchedule) /\ SF_vars(RebuildAmounts)

FairSpec == Spec /\ Fairness

-----------------------------------------------------------------------------
(* Properties                                                              *)

Booking == INSTANCE LoanBooking WITH Rows <- Requests, status <- rec, posted <- gl

\* The calls, webhooks and crashes of this module implement LoanBooking: a row is
\* booked only once the gateway has given it a payout, and row, ledger and account
\* change together.
ImplementsBooking == Booking!Spec

Funded(p) == payout[p] \in {"processed", "reversed"}

\* A DISBURSEMENT entry in the ledger is backed by money that left the bank:
\* the payout recorded on its row has been processed.  This rests on the UTR
\* test of the synchronous path and on the webhook's match by payout id.
BooksMatchBank ==
    \A r \in Requests : gl[r] > 0 => payoutOf[r] # None /\ Funded(payoutOf[r])

\* A row completed by the finance route or by a webhook has its account and its
\* ledger entry: both completion paths write them in one transaction.
CompletedIsBooked ==
    \A r \in Requests :
        rec[r] = "COMPLETED" /\ route[r] = "finance" => account # "NONE" /\ gl[r] > 0

\* While no call outlasts the TTL of its lock, two finance calls are never both
\* between their gates and their last write (initiateDisbursement's lock).
OneInitiationAtATime ==
    ~SlowCalls =>
        \A r1, r2 \in Requests : InLock(r1) /\ InLock(r2) => r1 = r2

\* With neither slow calls, lost replies nor crashes, at most one payout of a
\* loan that only the finance route pays is on its way or paid.
OnePayoutOut ==
    Cardinality({p \in PayoutId : payout[p] \in {"queued", "processed"}}) <= 1

\* The finance route creates no row before every gate was cleared, whatever
\* happens between the gates and the write.
NoRowBeforeGates ==
    \A r \in Requests : rec[r] # "NONE" /\ route[r] = "finance" => cleared = Gates

Heard(e) == payoutOf[e.payout.req] = e.payout /\ rec[e.payout.req] # "INITIATED"

\* After an event of a settled payout is acknowledged its row does not wait for it
\* any more: a completion that fails, because the other route has just created the
\* account, is not acknowledged, and the redelivery completes the row.  Excepted are
\* an event that came before the row named its payout and one turned away by the
\* payout's lock: these are acknowledged unheard.
AcknowledgedIsHeard ==
    \A e \in acked : e.kind # "updated" => Heard(e) \/ e \in unheard

\* Every loan account gets an EMI schedule, from the completion that created it
\* or from the settlement job after a crash in between.
AccountGetsSchedule == account # "NONE" ~> schedule

\* A call that took the lock does not keep it: the finally block or the TTL.
LockIsReleased == \A r \in Requests : lock = r ~> lock # r
=============================================================================
