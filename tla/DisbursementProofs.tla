------------------------- MODULE DisbursementProofs -------------------------
(***************************************************************************)
(* Safety of Disbursement for every set of requests, workers and gates,    *)
(* every number of attempts and every combination of the failure switches. *)
(***************************************************************************)
EXTENDS Disbursement, FiniteSetTheorems, TLAPS

\* A request that has created no row has sent no payout, and the payouts of the
\* attempts it has not made do not exist.
NoPayoutYet ==
    \A p \in PayoutId :
        \/ rec[p.req] = "NONE"
        \/ p.try > attempt[p.req]
        \/ p.try = attempt[p.req] /\ pc[p.req] = "paying"
        => payout[p] = "none"

\* The row of a request at each point of its initiation
RowFollowsPc ==
    \A r \in Requests :
        /\ pc[r] \in {"idle", "gate1", "gates", "create"} => rec[r] = "NONE"
        /\ pc[r] \in {"paying", "replied", "payoutError"} => rec[r] = "PENDING"
        /\ rec[r] \in {"NONE", "PENDING"} => payoutOf[r] = None
        /\ pc[r] = "payoutError" => payoutOf[r] = None

\* Only money that moved is announced as such
SentIsTrue == \A e \in sent : e.kind = "processed" => Funded(e.payout)
ReplyIsTrue == \A r \in Requests : pc[r] = "replied" /\ sync[r] => Funded(CurrentPayout(r))

\* What a call knows of the row it completes, from the time it looked it up
RequestTarget ==
    \A r \in Requests : pc[r] \in CompletionPc => payoutOf[r] # None /\ Funded(payoutOf[r])

WorkerTarget ==
    \A w \in Workers :
        /\ delivery[w] # None => delivery[w] \in sent
        /\ pc[w] \in {"reverse", "fail"} \cup CompletionPc
               => payoutOf[delivery[w].payout.req] = delivery[w].payout
        /\ pc[w] \in CompletionPc => delivery[w].kind = "processed"

\* The owner of the lock, while locks are not taken from calls in flight
LockFollowsPc == ~SlowCalls => \A r \in Requests : InLock(r) => lock = r

GatesFollowPc ==
    \A r \in Requests : pc[r] = "create" => cleared = Gates

\* The account that disburseToMerchant created, or that FindAccount found
AccountIsThere ==
    /\ \A r \in Requests : route[r] = "merchant" => account # "NONE"
    /\ \A p \in Procs : pc[p] = "pathA" => account # "NONE"

IInv ==
    /\ TypeOK
    /\ NoPayoutYet
    /\ RowFollowsPc
    /\ SentIsTrue
    /\ ReplyIsTrue
    /\ RequestTarget
    /\ WorkerTarget
    /\ LockFollowsPc
    /\ GatesFollowPc
    /\ AccountIsThere
    /\ BooksMatchBank
    /\ CompletedIsBooked
    /\ NoRowBeforeGates
-----------------------------------------------------------------------------
(* Type correctness *)

LEMMA InitTypeOK == Init => TypeOK
<1> SUFFICES ASSUME Init PROVE TypeOK
  OBVIOUS
<1>1. schedule \in BOOLEAN /\ amounts \in BOOLEAN /\ sync \in [Requests -> BOOLEAN]
  BY Zenon DEF Init
<1>2. attempt \in [Requests -> 1..MaxAttempts]
  BY AttemptsAssumption DEF Init
<1>3. /\ pc \in [Procs -> RequestPc \cup WorkerPc]
      /\ \A r \in Requests : pc[r] \in RequestPc
      /\ \A w \in Workers : pc[w] \in WorkerPc
      /\ \A w \in Workers : pc[w] # "idle" => delivery[w] # None
  BY DEF Init, Procs, RequestPc, WorkerPc
<1>4. /\ rec \in [Requests -> RecStatus]
      /\ payout \in [PayoutId -> PayoutStatus]
      /\ gl \in [Requests -> Nat]
      /\ commissions \in Nat
  BY DEF Init, RecStatus, PayoutStatus
<1> QED
  BY <1>1, <1>2, <1>3, <1>4 DEF Init, TypeOK

\* What the handlers need of the event in a worker's hands
LEMMA DeliveryType ==
    ASSUME TypeOK, NEW w \in Workers, pc[w] # "idle"
    PROVE  /\ delivery[w] \in Event
           /\ delivery[w].payout \in PayoutId
           /\ delivery[w].payout.req \in Requests
           /\ delivery[w].kind \in Kinds
<1>1. delivery[w] \in Event
  BY DEF TypeOK
<1> QED
  BY <1>1 DEF Event, PayoutId

LEMMA TargetType ==
    ASSUME TypeOK, NEW p \in Procs, p \in Requests \/ pc[p] # "idle"
    PROVE  Target(p) \in Requests
BY DeliveryType DEF Target, Procs

LEMMA CurrentPayoutType ==
    ASSUME TypeOK, NEW r \in Requests
    PROVE  CurrentPayout(r) \in PayoutId
BY DEF TypeOK, CurrentPayout, PayoutId

LEMMA SendsType ==
    ASSUME TypeOK, NEW p, NEW kind, Sends(p, kind)
    PROVE  sent' \subseteq Event
BY DEF TypeOK, Sends

\* The counters and sets of TypeOK need nothing but the step; the rest of it is
\* about the program counters.
LEMMA GotoRequestType ==
    ASSUME TypeOK, NEW r \in Requests, NEW next \in RequestPc, Goto(r, next),
           UNCHANGED delivery
    PROVE  /\ pc' \in [Procs -> RequestPc \cup WorkerPc]
           /\ \A q \in Requests : pc'[q] \in RequestPc
           /\ \A w \in Workers : pc'[w] \in WorkerPc
           /\ \A w \in Workers : pc'[w] # "idle" => delivery'[w] # None
BY ProcessAssumption DEF TypeOK, Goto, Procs

LEMMA GotoWorkerType ==
    ASSUME TypeOK, NEW v \in Workers, NEW next \in WorkerPc, Goto(v, next),
           pc[v] # "idle", UNCHANGED delivery
    PROVE  /\ pc' \in [Procs -> RequestPc \cup WorkerPc]
           /\ \A q \in Requests : pc'[q] \in RequestPc
           /\ \A w \in Workers : pc'[w] \in WorkerPc
           /\ \A w \in Workers : pc'[w] # "idle" => delivery'[w] # None
BY ProcessAssumption DEF TypeOK, Goto, Procs

LEMMA GotoProcType ==
    ASSUME TypeOK, NEW p \in Procs, NEW next \in CompletionPc \cup UnlockPc, Goto(p, next),
           pc[p] # "idle", UNCHANGED delivery
    PROVE  /\ pc' \in [Procs -> RequestPc \cup WorkerPc]
           /\ \A q \in Requests : pc'[q] \in RequestPc
           /\ \A w \in Workers : pc'[w] \in WorkerPc
           /\ \A w \in Workers : pc'[w] # "idle" => delivery'[w] # None
<1>1. CASE p \in Requests
  BY <1>1, GotoRequestType DEF RequestPc
<1>2. CASE p \in Workers
  BY <1>2, GotoWorkerType DEF WorkerPc
<1> QED
  BY <1>1, <1>2 DEF Procs

\* The steps of the application, of time and of the settlement job
LEMMA SurroundingsType ==
    ASSUME TypeOK,
           \/ \E g \in Gates : ClearGate(g)
           \/ RejectCheck \/ RejectWrite \/ ActivateLoan
           \/ \E p \in PayoutId : PayoutNext(p)
           \/ JobNext
           \/ LockExpires
    PROVE  TypeOK'
<1> USE DEF loanVars, bankVars, callVars, hookVars
<1>1. CASE \E g \in Gates : ClearGate(g)
  BY <1>1 DEF TypeOK, ClearGate
<1>2. CASE RejectCheck \/ RejectWrite \/ ActivateLoan
  BY <1>2 DEF TypeOK, RejectCheck, RejectWrite, ActivateLoan
<1>3. ASSUME NEW p \in PayoutId, PayoutNext(p) PROVE TypeOK'
  <2>1. ASSUME NEW s \in {"processed", "failed", "reversed"}, GatewaySettles(p, s) PROVE TypeOK'
    <3>1. sent' \subseteq Event
      BY <2>1, SendsType DEF GatewaySettles
    <3>2. payout' \in [PayoutId -> PayoutStatus]
      BY <2>1 DEF GatewaySettles, TypeOK, PayoutStatus
    <3> QED
      BY <2>1, <3>1, <3>2 DEF TypeOK, GatewaySettles
  <2>2. CASE GatewayUpdate(p)
    BY <2>2, SendsType DEF TypeOK, GatewayUpdate
  <2>3. CASE PayoutLockExpires(p)
    BY <2>3 DEF TypeOK, PayoutLockExpires
  <2> QED
    BY <1>3, <2>1, <2>2, <2>3 DEF PayoutNext
<1>4. CASE JobNext
  <2>1. CASE FindOrphan
    BY <2>1 DEF TypeOK, FindOrphan
  <2>2. CASE RebuildSchedule
    BY <2>2 DEF TypeOK, RebuildSchedule
  <2>3. CASE RebuildAmounts
    BY <2>3 DEF TypeOK, RebuildAmounts
  <2>4. CASE CrashJob
    BY <2>4 DEF TypeOK, CrashJob
  <2> QED
    BY <1>4, <2>1, <2>2, <2>3, <2>4 DEF JobNext
<1>5. CASE LockExpires
  BY <1>5 DEF TypeOK, LockExpires
<1> QED
  BY <1>1, <1>2, <1>3, <1>4, <1>5

LEMMA CompletionType ==
    ASSUME TypeOK, NEW p \in Procs, CompletionStep(p)
    PROVE  TypeOK'
<1> USE DEF loanVars, bankVars, callVars, hookVars
<1>1. CASE FindAccount(p)
  BY <1>1, GotoProcType DEF TypeOK, FindAccount, CompletionPc
<1>2. CASE CompleteExisting(p)
  <2>1. Target(p) \in Requests
    BY <1>2, TargetType DEF CompleteExisting
  <2>2. rec' \in [Requests -> RecStatus] /\ gl' \in [Requests -> Nat] /\ app' = "DISBURSED"
    BY <1>2, <2>1 DEF TypeOK, CompleteExisting, Book, RecStatus
  <2> QED
    BY <1>2, <2>2, GotoProcType DEF TypeOK, CompleteExisting, CompletionPc
<1>3. CASE CompleteByCreating(p)
  <2>1. Target(p) \in Requests
    BY <1>3, TargetType DEF CompleteByCreating
  <2>2. /\ rec' \in [Requests -> RecStatus] /\ gl' \in [Requests -> Nat]
        /\ app' \in {app, "DISBURSED"}
    BY <1>3, <2>1 DEF TypeOK, CompleteByCreating, Book, RecStatus
  <2> QED
    BY <1>3, <2>2, GotoProcType DEF TypeOK, CompleteByCreating, CompletionPc, UnlockPc
<1>4. CASE CreateSchedule(p)
  BY <1>4, GotoProcType DEF TypeOK, CreateSchedule, CompletionPc, UnlockPc
<1>5. CASE SetAmounts(p)
  BY <1>5, GotoProcType DEF TypeOK, SetAmounts, CompletionPc
<1>6. CASE Announce(p)
  BY <1>6, GotoProcType DEF TypeOK, Announce, UnlockPc
<1> QED
  BY <1>1, <1>2, <1>3, <1>4, <1>5, <1>6 DEF CompletionStep

LEMMA RequestType ==
    ASSUME TypeOK, NEW r \in Requests, RequestNext(r)
    PROVE  TypeOK'
<1> USE DEF loanVars, bankVars, callVars, hookVars
<1> USE DEF RequestPc, InitiationPc, CompletionPc, UnlockPc
<1>1. ASSUME InitiateDisbursement(r) PROVE TypeOK'
  BY <1>1, GotoRequestType DEF TypeOK, InitiateDisbursement
<1>2. CASE \E failed \in Requests : RetryDisbursement(r, failed)
  BY <1>1, <1>2 DEF RetryDisbursement
<1>3. CASE DisburseToMerchant(r)
  <2>1. rec' \in [Requests -> RecStatus]
    BY <1>3 DEF TypeOK, DisburseToMerchant, RecStatus
  <2> QED
    BY <1>3, <2>1, GotoRequestType DEF TypeOK, DisburseToMerchant
<1>4. CASE InitiationStep(r)
  <2>1. CASE CheckApproved(r)
    BY <2>1, GotoRequestType DEF TypeOK, CheckApproved
  <2>2. CASE CheckGates(r)
    BY <2>2, GotoRequestType DEF TypeOK, CheckGates
  <2>3. CASE CreateRecord(r)
    BY <2>3, GotoRequestType DEF TypeOK, CreateRecord, RecStatus
  <2>4. ASSUME NEW s \in {"queued", "processed", "failed"}, NEW utr \in BOOLEAN,
               PayoutReply(r, s, utr)
        PROVE  TypeOK'
    <3>1. payout' \in [PayoutId -> PayoutStatus]
      BY <2>4, CurrentPayoutType DEF TypeOK, PayoutReply, PayoutStatus
    <3>2. sent' \subseteq Event
      BY <2>4, SendsType DEF PayoutReply
    <3> QED
      BY <2>4, <3>1, <3>2, GotoRequestType DEF TypeOK, PayoutReply, IsSettled
  <2>5. ASSUME NEW accepted \in BOOLEAN, PayoutError(r, accepted) PROVE TypeOK'
    <3>1. payout' \in [PayoutId -> PayoutStatus]
      BY <2>5, CurrentPayoutType DEF TypeOK, PayoutError, PayoutStatus
    <3>2. CASE CanRetry(r)
      <4>1. attempt' \in [Requests -> 1..MaxAttempts]
        BY <2>5, <3>2, AttemptsAssumption DEF TypeOK, PayoutError, CanRetry
      <4> QED
        BY <2>5, <3>1, <3>2, <4>1 DEF TypeOK, PayoutError, CanRetry
    <3>3. CASE ~CanRetry(r)
      BY <2>5, <3>1, <3>3, GotoRequestType DEF TypeOK, PayoutError, CanRetry
    <3> QED
      BY <3>2, <3>3
  <2>6. CASE FailRecord(r)
    BY <2>6, GotoRequestType DEF TypeOK, FailRecord, RecStatus
  <2>7. CASE MarkInitiated(r)
    BY <2>7, GotoRequestType, CurrentPayoutType DEF TypeOK, MarkInitiated, RecStatus
  <2>8. CASE MerchantCommit(r)
    BY <2>8, GotoRequestType, CurrentPayoutType DEF TypeOK, MerchantCommit, RecStatus
  <2>9. CASE UnlockRequest(r)
    BY <2>9, GotoRequestType DEF TypeOK, UnlockRequest
  <2> QED
    BY <1>4, <2>1, <2>2, <2>3, <2>4, <2>5, <2>6, <2>7, <2>8, <2>9 DEF InitiationStep
<1>5. CASE CompletionStep(r)
  BY <1>5, CompletionType DEF Procs
<1>6. CASE CrashRequest(r)
  BY <1>6, GotoRequestType DEF TypeOK, CrashRequest
<1> QED
  BY <1>1, <1>2, <1>3, <1>4, <1>5, <1>6 DEF RequestNext

LEMMA WorkerType ==
    ASSUME TypeOK, NEW w \in Workers, WorkerNext(w)
    PROVE  TypeOK'
<1> USE DEF loanVars, bankVars, callVars, hookVars
<1> USE DEF WorkerPc, CompletionPc, UnlockPc
\* a worker that lets go of its event
<1>1. ASSUME delivery' = [delivery EXCEPT ![w] = None], Goto(w, "idle")
      PROVE  /\ delivery' \in [Workers -> Event \cup {None}]
             /\ pc' \in [Procs -> RequestPc \cup WorkerPc]
             /\ \A q \in Requests : pc'[q] \in RequestPc
             /\ \A v \in Workers : pc'[v] \in WorkerPc
             /\ \A v \in Workers : pc'[v] # "idle" => delivery'[v] # None
  BY <1>1, ProcessAssumption DEF TypeOK, Goto, Procs
<1>2. ASSUME NEW e \in Event, Deliver(w, e) PROVE TypeOK'
  BY <1>2, NoneAssumption, ProcessAssumption DEF TypeOK, Deliver, Goto, Procs
<1>3. CASE WebhookStep(w)
  <2>1. CASE LockPayout(w)
    BY <2>1, GotoWorkerType, DeliveryType DEF TypeOK, LockPayout
  <2>2. CASE ReadRecord(w)
    BY <2>2, GotoWorkerType, DeliveryType, KindsAssumption DEF TypeOK, ReadRecord
  <2>3. CASE MarkReversed(w)
    BY <2>3, GotoWorkerType, TargetType DEF TypeOK, MarkReversed, RecStatus, Procs
  <2>4. CASE MarkFailed(w)
    BY <2>4, GotoWorkerType, TargetType DEF TypeOK, MarkFailed, RecStatus, Procs
  <2>5. CASE UnlockWorker(w)
    BY <2>5, GotoWorkerType, DeliveryType DEF TypeOK, UnlockWorker
  <2>6. CASE Acknowledge(w)
    BY <2>6, <1>1, DeliveryType DEF TypeOK, Acknowledge
  <2>7. CASE Refuse(w)
    BY <2>7, <1>1 DEF TypeOK, Refuse
  <2> QED
    BY <1>3, <2>1, <2>2, <2>3, <2>4, <2>5, <2>6, <2>7 DEF WebhookStep
<1>4. CASE CompletionStep(w)
  BY <1>4, CompletionType DEF Procs
<1>5. CASE CrashWorker(w)
  BY <1>5, <1>1 DEF TypeOK, CrashWorker
<1> QED
  BY <1>2, <1>3, <1>4, <1>5 DEF WorkerNext

LEMMA NextTypeOK == TypeOK /\ [Next]_vars => TypeOK'
<1> SUFFICES ASSUME TypeOK, [Next]_vars PROVE TypeOK'
  OBVIOUS
<1>1. CASE UNCHANGED vars
  BY <1>1 DEF TypeOK, vars, loanVars, bankVars, callVars, hookVars
<1>2. CASE Next
  BY <1>2, SurroundingsType, RequestType, WorkerType DEF Next
<1> QED
  BY <1>1, <1>2

\* Every variable stays in its type: in particular no worker handles an event it
\* does not hold, and createPayout is never tried more than MaxAttempts times.
THEOREM TypeCorrect == Spec => []TypeOK
BY InitTypeOK, NextTypeOK, PTL DEF Spec

-----------------------------------------------------------------------------
(* The inductive invariant                                                  *)

LEMMA InitIInv == Init => IInv
<1> SUFFICES ASSUME Init PROVE IInv
  OBVIOUS
<1>1. TypeOK
  BY InitTypeOK
<1>2. NoPayoutYet /\ RowFollowsPc /\ SentIsTrue
  BY DEF Init, NoPayoutYet, RowFollowsPc, SentIsTrue, Procs
<1>3. ReplyIsTrue /\ RequestTarget /\ WorkerTarget
  BY DEF Init, ReplyIsTrue, RequestTarget, WorkerTarget, CompletionPc, Procs
<1>4. LockFollowsPc /\ GatesFollowPc /\ AccountIsThere
  BY DEF Init, LockFollowsPc, InLock, GatesFollowPc, AccountIsThere, Procs
<1>5. BooksMatchBank /\ CompletedIsBooked /\ NoRowBeforeGates
  BY DEF Init, BooksMatchBank, CompletedIsBooked, NoRowBeforeGates
<1> QED
  BY <1>1, <1>2, <1>3, <1>4, <1>5 DEF IInv

\* A call that has looked up its row works on a row that has been given a payout
LEMMA TargetHasPayout ==
    ASSUME IInv, NEW p \in Procs,
           \/ pc[p] \in CompletionPc
           \/ p \in Workers /\ pc[p] \in {"reverse", "fail"}
    PROVE  /\ Target(p) \in Requests
           /\ payoutOf[Target(p)] # None
           /\ payoutOf[Target(p)] \in PayoutId
           /\ rec[Target(p)] \notin {"NONE", "PENDING"}
<1>1. Target(p) \in Requests
  BY TargetType DEF IInv, CompletionPc, Procs
<1>2. payoutOf[Target(p)] # None
  <2>1. CASE p \in Requests
    BY <2>1, ProcessAssumption DEF IInv, RequestTarget, Target
  <2>2. CASE p \in Workers
    <3>1. payoutOf[Target(p)] = delivery[p].payout
      BY <2>2, ProcessAssumption DEF IInv, WorkerTarget, Target
    <3>2. delivery[p].payout \in PayoutId
      BY <2>2, DeliveryType DEF IInv, CompletionPc
    <3> QED
      BY <3>1, <3>2, NoneAssumption
  <2> QED
    BY <2>1, <2>2 DEF Procs
<1> QED
  BY <1>1, <1>2 DEF IInv, TypeOK, RowFollowsPc

\* ... and, when it is about to complete the row, a payout whose money has moved
LEMMA CompletionIsFunded ==
    ASSUME IInv, NEW p \in Procs, pc[p] \in CompletionPc
    PROVE  Funded(payoutOf[Target(p)])
<1>1. CASE p \in Requests
  BY <1>1 DEF IInv, RequestTarget, Target
<1>2. CASE p \in Workers
  <2>1. delivery[p] \in sent /\ delivery[p].kind = "processed"
    BY <1>2, DeliveryType, NoneAssumption DEF IInv, TypeOK, WorkerTarget, CompletionPc
  <2>2. payoutOf[Target(p)] = delivery[p].payout
    BY <1>2, ProcessAssumption DEF IInv, WorkerTarget, Target
  <2> QED
    BY <2>1, <2>2 DEF IInv, SentIsTrue
<1> QED
  BY <1>1, <1>2 DEF Procs

\* The steps of the application, of time and of the settlement job
LEMMA SurroundingsIInv ==
    ASSUME IInv, TypeOK',
           \/ \E g \in Gates : ClearGate(g)
           \/ RejectCheck \/ RejectWrite \/ ActivateLoan
           \/ \E p \in PayoutId : PayoutNext(p)
           \/ JobNext
           \/ LockExpires
    PROVE  IInv'
<1> USE ProcessAssumption, NoneAssumption
       DEF IInv, TypeOK, Procs, RequestPc, WorkerPc, InitiationPc, CompletionPc, UnlockPc,
           RowFollowsPc, NoPayoutYet, SentIsTrue, ReplyIsTrue, RequestTarget, WorkerTarget,
           LockFollowsPc, GatesFollowPc, AccountIsThere, BooksMatchBank, CompletedIsBooked, NoRowBeforeGates,
           InLock, Target, CurrentPayout, Funded, Goto,
           loanVars, bankVars, callVars, hookVars
<1>1. ASSUME NEW g \in Gates, ClearGate(g) PROVE IInv'
  BY <1>1 DEF ClearGate
<1>2. CASE RejectCheck \/ RejectWrite \/ ActivateLoan
  BY <1>2 DEF RejectCheck, RejectWrite, ActivateLoan
<1>3. ASSUME NEW p \in PayoutId, PayoutNext(p) PROVE IInv'
  <2>1. ASSUME NEW s \in {"processed", "failed", "reversed"}, GatewaySettles(p, s) PROVE IInv'
    BY <2>1 DEF GatewaySettles, Sends
  <2>2. CASE GatewayUpdate(p)
    BY <2>2 DEF GatewayUpdate, Sends
  <2>3. CASE PayoutLockExpires(p)
    BY <2>3 DEF PayoutLockExpires
  <2> QED
    BY <1>3, <2>1, <2>2, <2>3 DEF PayoutNext
<1>4. CASE JobNext
  BY <1>4 DEF JobNext, FindOrphan, RebuildSchedule, RebuildAmounts, CrashJob
<1>5. CASE LockExpires
  BY <1>5 DEF LockExpires, LockOutlived
<1> QED
  BY <1>1, <1>2, <1>3, <1>4, <1>5

\* The two completion paths write the row, the ledger and the account; whoever
\* else works on the row keeps what it knows of it.
LEMMA CompletionIInv ==
    ASSUME IInv, TypeOK', NEW p \in Procs, CompletionStep(p)
    PROVE  IInv'
<1> USE ProcessAssumption, NoneAssumption
       DEF IInv, TypeOK, Procs, RequestPc, WorkerPc, InitiationPc, CompletionPc, UnlockPc,
           RowFollowsPc, NoPayoutYet, SentIsTrue, ReplyIsTrue, RequestTarget, WorkerTarget,
           LockFollowsPc, GatesFollowPc, AccountIsThere, BooksMatchBank, CompletedIsBooked, NoRowBeforeGates,
           InLock, Target, CurrentPayout, Funded, Goto,
           loanVars, bankVars, callVars, hookVars
<1>1. CASE FindAccount(p)
  BY <1>1 DEF FindAccount
<1>2. ASSUME CompleteExisting(p) \/ CompleteByCreating(p), Book(Target(p)), pc[p] \in CompletionPc,
             pc' \in {[pc EXCEPT ![p] = "announce"], [pc EXCEPT ![p] = "schedule"]},
             account' # "NONE"
      PROVE  IInv'
  <2>1. /\ Target(p) \in Requests
        /\ payoutOf[Target(p)] # None
        /\ rec[Target(p)] \notin {"NONE", "PENDING"}
        /\ Funded(payoutOf[Target(p)])
    BY <1>2, TargetHasPayout, CompletionIsFunded
  <2>2. UNCHANGED <<cleared, payoutOf, lock, payout, sent, route, attempt, sync, delivery>>
    BY <1>2 DEF CompleteExisting, CompleteByCreating
  <2>3. RowFollowsPc' /\ NoPayoutYet' /\ NoRowBeforeGates'
    BY <1>2, <2>1, <2>2 DEF Book, PayoutId
  <2>4. SentIsTrue' /\ ReplyIsTrue' /\ RequestTarget' /\ WorkerTarget'
    BY <1>2, <2>2
  <2>5. LockFollowsPc' /\ GatesFollowPc' /\ AccountIsThere'
    BY <1>2, <2>2
  <2>6. BooksMatchBank' /\ CompletedIsBooked'
    BY <1>2, <2>1, <2>2 DEF Book
  <2> QED
    BY <2>3, <2>4, <2>5, <2>6
<1>3. CASE CompleteExisting(p)
  BY <1>2, <1>3 DEF CompleteExisting
<1>4. CASE CompleteByCreating(p)
  <2>1. CASE account = "NONE"
    BY <1>2, <1>4, <2>1 DEF CompleteByCreating
  <2>2. CASE account # "NONE"
    <3>1. /\ pc' = [pc EXCEPT ![p] = "unlockErr"]
          /\ UNCHANGED <<cleared, rec, payoutOf, account, gl, lock, payout, sent, route, attempt,
                         sync, delivery>>
      BY <1>4, <2>2 DEF CompleteByCreating
    <3> QED
      BY <1>4, <3>1 DEF CompleteByCreating
  <2> QED
    BY <2>1, <2>2
<1>5. CASE CreateSchedule(p)
  BY <1>5 DEF CreateSchedule
<1>6. CASE SetAmounts(p)
  BY <1>6 DEF SetAmounts
<1>7. CASE Announce(p)
  BY <1>7 DEF Announce
<1> QED
  BY <1>1, <1>3, <1>4, <1>5, <1>6, <1>7 DEF CompletionStep

\* A request.  The payouts it creates were not there before, so no other call
\* can see one change.
LEMMA RequestIInv ==
    ASSUME IInv, TypeOK', NEW r \in Requests, RequestNext(r)
    PROVE  IInv'
<1> USE ProcessAssumption, NoneAssumption
       DEF IInv, TypeOK, Procs, RequestPc, WorkerPc, InitiationPc, CompletionPc, UnlockPc,
           RowFollowsPc, NoPayoutYet, SentIsTrue, ReplyIsTrue, RequestTarget, WorkerTarget,
           LockFollowsPc, GatesFollowPc, AccountIsThere, BooksMatchBank, CompletedIsBooked, NoRowBeforeGates,
           InLock, Target, CurrentPayout, Funded, Goto,
           loanVars, bankVars, callVars, hookVars
<1>1. ASSUME InitiateDisbursement(r) PROVE IInv'
  BY <1>1 DEF InitiateDisbursement, LockIsFree
<1>2. CASE \E failed \in Requests : RetryDisbursement(r, failed)
  BY <1>1, <1>2 DEF RetryDisbursement
<1>3. CASE DisburseToMerchant(r)
  BY <1>3 DEF DisburseToMerchant
<1>4. CASE InitiationStep(r)
  <2>1. CASE CheckApproved(r)
    BY <2>1 DEF CheckApproved
  <2>2. CASE CheckGates(r)
    BY <2>2 DEF CheckGates, GatesCleared
  <2>3. CASE CreateRecord(r)
    BY <2>3 DEF CreateRecord
  <2>4. ASSUME NEW s \in {"queued", "processed", "failed"}, NEW utr \in BOOLEAN,
               PayoutReply(r, s, utr)
        PROVE  IInv'
    BY <2>4 DEF PayoutReply, IsSettled, Sends
  <2>5. ASSUME NEW accepted \in BOOLEAN, PayoutError(r, accepted) PROVE IInv'
    <3>1. CurrentPayout(r) \in PayoutId /\ payout[CurrentPayout(r)] = "none"
      BY <2>5, CurrentPayoutType DEF PayoutError
    <3>2. \A q \in PayoutId : Funded(q) => Funded(q)'
      BY <2>5, <3>1 DEF PayoutError
    <3>3. UNCHANGED <<cleared, rec, payoutOf, account, gl, lock, sent, route, sync, delivery>>
      BY <2>5 DEF PayoutError
    <3>4. \/ pc' = pc /\ attempt' = [attempt EXCEPT ![r] = @ + 1]
          \/ pc' = [pc EXCEPT ![r] = "payoutError"] /\ attempt' = attempt
      BY <2>5 DEF PayoutError
    <3>5. NoPayoutYet'
      <4> SUFFICES ASSUME NEW q \in PayoutId,
                          \/ rec[q.req] = "NONE"
                          \/ q.try > attempt'[q.req]
                          \/ q.try = attempt'[q.req] /\ pc'[q.req] = "paying"
                   PROVE  payout'[q] = "none"
        BY <3>3
      <4>1. q.req \in Requests /\ q.try \in 1..MaxAttempts
        BY DEF PayoutId
      <4>2. CASE q.req # r
        BY <2>5, <3>4, <4>1, <4>2 DEF PayoutError
      <4>3. CASE q.req = r
        <5>1. q # CurrentPayout(r) /\ q.try > attempt[r]
          BY <2>5, <3>4, <4>1, <4>3, AttemptsAssumption DEF PayoutError
        <5> QED
          BY <2>5, <4>1, <4>3, <5>1 DEF PayoutError
      <4> QED
        BY <4>2, <4>3
    <3>6. RowFollowsPc'
      BY <2>5, <3>3, <3>4 DEF PayoutError
    <3>7. SentIsTrue' /\ BooksMatchBank'
      BY <3>2, <3>3 DEF Event
    <3>8. RequestTarget' /\ WorkerTarget' /\ ReplyIsTrue'
      BY <2>5, <3>2, <3>3, <3>4 DEF PayoutError
    <3>9. /\ LockFollowsPc' /\ GatesFollowPc' /\ AccountIsThere'
          /\ CompletedIsBooked' /\ NoRowBeforeGates'
      BY <2>5, <3>3, <3>4 DEF PayoutError
    <3> QED
      BY <3>5, <3>6, <3>7, <3>8, <3>9
  <2>6. CASE FailRecord(r)
    BY <2>6 DEF FailRecord
  <2>7. ASSUME MarkInitiated(r) \/ MerchantCommit(r) PROVE IInv'
    <3>1. /\ pc[r] = "replied" /\ rec[r] = "PENDING" /\ payoutOf[r] = None
          /\ payoutOf' = [payoutOf EXCEPT ![r] = CurrentPayout(r)]
          /\ UNCHANGED <<cleared, gl, lock, payout, sent, route, attempt, sync, delivery>>
      BY <2>7 DEF MarkInitiated, MerchantCommit
    <3>2. /\ rec' \in {[rec EXCEPT ![r] = "INITIATED"], [rec EXCEPT ![r] = "COMPLETED"]}
          /\ rec'[r] = "COMPLETED" => route[r] = "merchant"
          /\ account' = "NONE" => account = "NONE"
          /\ \/ pc' = [pc EXCEPT ![r] = "complete"] /\ sync[r]
             \/ pc' = [pc EXCEPT ![r] = "unlockOk"]
      BY <2>7 DEF MarkInitiated, MerchantCommit
    <3>3. CurrentPayout(r) \in PayoutId
      BY CurrentPayoutType
    <3>4. RowFollowsPc' /\ NoPayoutYet'
      BY <3>1, <3>2 DEF PayoutId
    <3>5. RequestTarget' /\ ReplyIsTrue'
      BY <3>1, <3>2, <3>3
    <3>6. WorkerTarget' /\ SentIsTrue'
      BY <3>1, <3>2, DeliveryType
    <3>7. LockFollowsPc' /\ GatesFollowPc' /\ AccountIsThere' /\ NoRowBeforeGates'
      BY <3>1, <3>2
    <3>8. BooksMatchBank' /\ CompletedIsBooked'
      BY <3>1, <3>2
    <3> QED
      BY <3>4, <3>5, <3>6, <3>7, <3>8
  <2>9. CASE UnlockRequest(r)
    BY <2>9 DEF UnlockRequest
  <2> QED
    BY <1>4, <2>1, <2>2, <2>3, <2>4, <2>5, <2>6, <2>7, <2>9 DEF InitiationStep
<1>5. CASE CompletionStep(r)
  BY <1>5, CompletionIInv
<1>6. CASE CrashRequest(r)
  BY <1>6 DEF CrashRequest
<1> QED
  BY <1>1, <1>2, <1>3, <1>4, <1>5, <1>6 DEF RequestNext

\* A webhook worker
LEMMA WorkerIInv ==
    ASSUME IInv, TypeOK', NEW w \in Workers, WorkerNext(w)
    PROVE  IInv'
<1> USE ProcessAssumption, NoneAssumption
       DEF IInv, TypeOK, Procs, RequestPc, WorkerPc, InitiationPc, CompletionPc, UnlockPc,
           RowFollowsPc, NoPayoutYet, SentIsTrue, ReplyIsTrue, RequestTarget, WorkerTarget,
           LockFollowsPc, GatesFollowPc, AccountIsThere, BooksMatchBank, CompletedIsBooked, NoRowBeforeGates,
           InLock, Target, CurrentPayout, Funded, Goto,
           loanVars, bankVars, callVars, hookVars
<1>1. ASSUME NEW e \in Event, Deliver(w, e) PROVE IInv'
  BY <1>1 DEF Deliver
<1>2. CASE WebhookStep(w)
  <2>1. ASSUME LockPayout(w) \/ ReadRecord(w) PROVE IInv'
    <3>1. /\ UNCHANGED <<cleared, rec, payoutOf, account, gl, lock, payout, sent, route,
                         attempt, sync, delivery>>
          /\ \E next \in WorkerPc \ {"pathA"} : pc' = [pc EXCEPT ![w] = next]
          /\ pc'[w] \in {"reverse", "fail"} \cup CompletionPc
                => payoutOf[delivery[w].payout.req] = delivery[w].payout
          /\ pc'[w] \in CompletionPc => delivery[w].kind = "processed"
      <4>1. CASE LockPayout(w)
        BY <4>1 DEF LockPayout
      <4>2. CASE ReadRecord(w)
        BY <4>2 DEF ReadRecord, FoundByPayoutId
      <4> QED
        BY <2>1, <4>1, <4>2
    <3>2. WorkerTarget'
      BY <3>1
    <3>3. NoPayoutYet' /\ RowFollowsPc' /\ SentIsTrue' /\ ReplyIsTrue' /\ RequestTarget'
      BY <3>1 DEF PayoutId
    <3>4. /\ LockFollowsPc' /\ GatesFollowPc' /\ AccountIsThere'
          /\ BooksMatchBank' /\ CompletedIsBooked' /\ NoRowBeforeGates'
      BY <3>1
    <3> QED
      BY <3>2, <3>3, <3>4
  <2>2. ASSUME MarkReversed(w) \/ MarkFailed(w) PROVE IInv'
    <3>1. /\ Target(w) \in Requests
          /\ payoutOf[Target(w)] # None
          /\ rec[Target(w)] \notin {"NONE", "PENDING"}
      BY <2>2, TargetHasPayout DEF MarkReversed, MarkFailed
    <3>2. /\ rec' \in {[rec EXCEPT ![Target(w)] = "REVERSED"], [rec EXCEPT ![Target(w)] = "FAILED"]}
          /\ pc' = [pc EXCEPT ![w] = "unlockOk"]
          /\ UNCHANGED <<cleared, payoutOf, account, gl, lock, payout, sent, route,
                         attempt, sync, delivery>>
      BY <2>2 DEF MarkReversed, MarkFailed
    <3>3. RowFollowsPc' /\ NoPayoutYet'
      BY <3>1, <3>2 DEF PayoutId
    <3>4. /\ SentIsTrue' /\ ReplyIsTrue' /\ RequestTarget' /\ WorkerTarget'
          /\ LockFollowsPc' /\ GatesFollowPc' /\ AccountIsThere' /\ BooksMatchBank'
      BY <3>2
    <3>5. CompletedIsBooked' /\ NoRowBeforeGates'
      BY <3>1, <3>2
    <3> QED
      BY <3>3, <3>4, <3>5
  <2>3. CASE UnlockWorker(w)
    BY <2>3 DEF UnlockWorker
  <2>4. CASE Acknowledge(w)
    BY <2>4 DEF Acknowledge
  <2>5. CASE Refuse(w)
    BY <2>5 DEF Refuse
  <2> QED
    BY <1>2, <2>1, <2>2, <2>3, <2>4, <2>5 DEF WebhookStep
<1>3. CASE CompletionStep(w)
  BY <1>3, CompletionIInv
<1>4. CASE CrashWorker(w)
  BY <1>4 DEF CrashWorker
<1> QED
  BY <1>1, <1>2, <1>3, <1>4 DEF WorkerNext

LEMMA NextIInv == IInv /\ [Next]_vars => IInv'
<1> SUFFICES ASSUME IInv, [Next]_vars PROVE IInv'
  OBVIOUS
<1>1. TypeOK'
  BY NextTypeOK DEF IInv
<1>2. CASE UNCHANGED vars
  BY <1>1, <1>2
     DEF IInv, RowFollowsPc, NoPayoutYet, SentIsTrue, ReplyIsTrue, RequestTarget, WorkerTarget,
           LockFollowsPc, GatesFollowPc, AccountIsThere, BooksMatchBank, CompletedIsBooked, NoRowBeforeGates,
         InLock, CurrentPayout, Funded,
         vars, loanVars, bankVars, callVars, hookVars
<1>3. CASE Next
  BY <1>1, <1>3, SurroundingsIInv, RequestIInv, WorkerIInv DEF Next
<1> QED
  BY <1>2, <1>3

THEOREM Invariance == Spec => []IInv
BY InitIInv, NextIInv, PTL DEF Spec

\* The ledger only holds payouts whose money left the bank.
THEOREM LedgerIsBacked == Spec => []BooksMatchBank
<1>1. IInv => BooksMatchBank
  BY DEF IInv
<1> QED
  BY <1>1, Invariance, PTL

\* A finance row is never COMPLETED without its account and its ledger entry.
THEOREM CompletionIsAtomic == Spec => []CompletedIsBooked
<1>1. IInv => CompletedIsBooked
  BY DEF IInv
<1> QED
  BY <1>1, Invariance, PTL

\* No finance row exists before every gate was cleared.
THEOREM GatesHold == Spec => []NoRowBeforeGates
<1>1. IInv => NoRowBeforeGates
  BY DEF IInv
<1> QED
  BY <1>1, Invariance, PTL

\* The 30 s lock serialises finance calls as long as none of them outlasts it.
THEOREM LockSerialises == Spec => []OneInitiationAtATime
<1>1. IInv => OneInitiationAtATime
  BY DEF IInv, LockFollowsPc, OneInitiationAtATime
<1> QED
  BY <1>1, Invariance, PTL

-----------------------------------------------------------------------------
(* Refinement                                                               *)

LEMMA InitBooking == Init => Booking!Init
BY DEF Init, Booking!Init

\* Each write of a row is a step of LoanBooking: the invariant supplies what the
\* call read before, that the row is new, has a payout, or has its account.
LEMMA BookingStep == IInv /\ [Next]_vars => [Booking!Next]_(Booking!vars)
<1> SUFFICES ASSUME IInv, [Next]_vars PROVE Booking!Next \/ UNCHANGED <<rec, gl, account>>
  BY DEF Booking!vars
<1> USE DEF loanVars, bankVars, callVars, hookVars
<1>1. CASE UNCHANGED vars
  BY <1>1 DEF vars
<1>2. CASE \/ \E g \in Gates : ClearGate(g)
           \/ RejectCheck \/ RejectWrite
           \/ \E p \in PayoutId : PayoutNext(p)
           \/ JobNext
           \/ LockExpires
  BY <1>2 DEF ClearGate, RejectCheck, RejectWrite, PayoutNext, GatewaySettles,
              GatewayUpdate, PayoutLockExpires, JobNext, FindOrphan, RebuildSchedule,
              RebuildAmounts, CrashJob, LockExpires
<1>3. CASE ActivateLoan
  BY <1>3 DEF ActivateLoan, Booking!Next, Booking!Activate
<1>4. ASSUME NEW p \in Procs, CompletionStep(p)
      PROVE  Booking!Next \/ UNCHANGED <<rec, gl, account>>
  <2>1. ASSUME CompleteExisting(p) \/ (CompleteByCreating(p) /\ account = "NONE")
        PROVE  Booking!Book(Target(p)) /\ Target(p) \in Requests
    <3>1. Target(p) \in Requests /\ Booking!HasPayout(Target(p))
      BY <2>1, TargetHasPayout
         DEF CompleteExisting, CompleteByCreating, CompletionPc, Booking!HasPayout
    <3>2. CompleteExisting(p) => account # "NONE"
      BY DEF CompleteExisting, IInv, AccountIsThere
    <3> QED
      BY <2>1, <3>1, <3>2
         DEF CompleteExisting, CompleteByCreating, Book, Booking!Book, Booking!SetStatus
  <2>2. CASE FindAccount(p) \/ CreateSchedule(p) \/ SetAmounts(p) \/ Announce(p)
    BY <2>2 DEF FindAccount, CreateSchedule, SetAmounts, Announce
  <2>3. CASE CompleteByCreating(p) /\ account # "NONE"
    BY <2>3 DEF CompleteByCreating
  <2> QED
    BY <1>4, <2>1, <2>2, <2>3 DEF CompletionStep, Booking!Next
<1>5. ASSUME NEW r \in Requests, RequestNext(r)
      PROVE  Booking!Next \/ UNCHANGED <<rec, gl, account>>
  <2>1. /\ pc[r] \in {"idle", "create"} => rec[r] = "NONE"
        /\ pc[r] \in {"replied", "payoutError"} => rec[r] = "PENDING"
        /\ route[r] = "merchant" => account # "NONE"
    BY DEF IInv, RowFollowsPc, AccountIsThere
  <2>2. CASE InitiateDisbursement(r) \/ \E failed \in Requests : RetryDisbursement(r, failed)
    BY <2>2 DEF InitiateDisbursement, RetryDisbursement
  <2>3. CASE DisburseToMerchant(r) \/ CreateRecord(r)
    BY <2>1, <2>3 DEF DisburseToMerchant, CreateRecord, Booking!Next, Booking!Open, Booking!SetStatus
  <2>4. CASE MarkInitiated(r)
    BY <2>1, <2>4 DEF MarkInitiated, Booking!Next, Booking!Send, Booking!SetStatus
  <2>5. CASE MerchantCommit(r)
    <3>1. CASE sync[r]
      BY <2>1, <2>5, <3>1 DEF MerchantCommit, Booking!Next, Booking!SettleAtOnce, Booking!SetStatus
    <3>2. CASE ~sync[r]
      BY <2>1, <2>5, <3>2 DEF MerchantCommit, Booking!Next, Booking!Send, Booking!SetStatus
    <3> QED
      BY <3>1, <3>2
  <2>6. CASE FailRecord(r)
    BY <2>1, <2>6 DEF FailRecord, Booking!Next, Booking!Close, Booking!SetStatus
  <2>7. CASE CheckApproved(r) \/ CheckGates(r) \/ UnlockRequest(r) \/ CrashRequest(r)
    BY <2>7 DEF CheckApproved, CheckGates, UnlockRequest, CrashRequest
  <2>8. CASE \/ \E s \in {"queued", "processed", "failed"}, utr \in BOOLEAN : PayoutReply(r, s, utr)
             \/ \E accepted \in BOOLEAN : PayoutError(r, accepted)
    BY <2>8 DEF PayoutReply, PayoutError
  <2> QED
    BY <1>4, <1>5, <2>2, <2>3, <2>4, <2>5, <2>6, <2>7, <2>8
       DEF RequestNext, InitiationStep, Procs
<1>6. ASSUME NEW w \in Workers, WorkerNext(w)
      PROVE  Booking!Next \/ UNCHANGED <<rec, gl, account>>
  <2>1. CASE MarkReversed(w) \/ MarkFailed(w)
    <3>1. Target(w) \in Requests /\ Booking!HasPayout(Target(w))
      BY <2>1, TargetHasPayout DEF MarkReversed, MarkFailed, Procs, Booking!HasPayout
    <3>2. Booking!Close(Target(w))
      BY <2>1, <3>1 DEF MarkReversed, MarkFailed, Booking!Close, Booking!SetStatus
    <3> QED
      BY <3>1, <3>2 DEF Booking!Next
  <2>2. CASE \/ \E e \in Event : Deliver(w, e)
             \/ LockPayout(w) \/ ReadRecord(w) \/ UnlockWorker(w) \/ Acknowledge(w) \/ Refuse(w)
             \/ CrashWorker(w)
    BY <2>2 DEF Deliver, LockPayout, ReadRecord, UnlockWorker, Acknowledge, Refuse, CrashWorker
  <2> QED
    BY <1>4, <1>6, <2>1, <2>2 DEF WorkerNext, WebhookStep, Procs
<1> QED
  BY <1>1, <1>2, <1>3, <1>5, <1>6 DEF Next

\* Whatever the interleaving of calls, webhooks, crashes and lock expiries, row,
\* ledger and account change as LoanBooking allows.
THEOREM Refinement == Spec => ImplementsBooking
<1>1. Init => Booking!Init
  BY InitBooking
<1>2. IInv /\ [Next]_vars => [Booking!Next]_(Booking!vars)
  BY BookingStep
<1> QED
  BY <1>1, <1>2, Invariance, PTL DEF Spec, ImplementsBooking, Booking!Spec
-----------------------------------------------------------------------------
(* What is acknowledged was heard                                           *)

\* A worker that will acknowledge its event has written the row, found it settled,
\* or noted the event as unheard
HeardBeforeAck ==
    \A w \in Workers :
        /\ pc[w] = "turnedAway" => delivery[w] \in unheard
        /\ pc[w] \in {"ack", "unlockOk", "schedule", "amounts", "announce"}
              => \/ delivery[w].kind = "updated"
                 \/ Heard(delivery[w])
                 \/ delivery[w] \in unheard

HeardInv == HeardBeforeAck /\ AcknowledgedIsHeard

\* A row keeps its payout, and waits for it at most once: INITIATED is only written
\* together with the payout
LEMMA RowStays ==
    ASSUME IInv, [Next]_vars, NEW r \in Requests, payoutOf[r] # None
    PROVE  payoutOf'[r] = payoutOf[r] /\ (rec'[r] = "INITIATED" => rec[r] = "INITIATED")
<1> USE DEF loanVars, bankVars, callVars, hookVars
<1>1. CASE UNCHANGED <<rec, payoutOf>>
  BY <1>1
<1>2. ASSUME NEW p \in Procs, CompletionStep(p)
      PROVE  UNCHANGED payoutOf /\ (rec'[r] = "INITIATED" => rec[r] = "INITIATED")
  BY <1>2 DEF CompletionStep, FindAccount, CompleteExisting, CompleteByCreating, Book, CreateSchedule,
              SetAmounts, Announce, IInv, TypeOK
<1>3. CASE UNCHANGED vars
  BY <1>1, <1>3 DEF vars
<1>4. CASE \/ \E g \in Gates : ClearGate(g)
           \/ RejectCheck \/ RejectWrite \/ ActivateLoan
           \/ \E p \in PayoutId : PayoutNext(p)
           \/ JobNext \/ LockExpires
  BY <1>1, <1>4 DEF ClearGate, RejectCheck, RejectWrite, ActivateLoan, PayoutNext, GatewaySettles,
              GatewayUpdate, PayoutLockExpires, JobNext, FindOrphan, RebuildSchedule,
              RebuildAmounts, CrashJob, LockExpires
<1>5. ASSUME NEW q \in Requests, RequestNext(q)
      PROVE  payoutOf'[r] = payoutOf[r] /\ (rec'[r] = "INITIATED" => rec[r] = "INITIATED")
  <2>1. CASE MarkInitiated(q) \/ MerchantCommit(q)
    <3>1. q # r
      BY <2>1 DEF MarkInitiated, MerchantCommit, IInv, RowFollowsPc
    <3> QED
      BY <2>1, <3>1 DEF MarkInitiated, MerchantCommit, IInv, TypeOK
  <2>2. CASE DisburseToMerchant(q) \/ CreateRecord(q) \/ FailRecord(q)
    BY <2>2 DEF DisburseToMerchant, CreateRecord, FailRecord, IInv, TypeOK
  <2>3. CASE \/ InitiateDisbursement(q) \/ \E failed \in Requests : RetryDisbursement(q, failed)
             \/ CheckApproved(q) \/ CheckGates(q) \/ UnlockRequest(q) \/ CrashRequest(q)
    BY <1>1, <2>3 DEF InitiateDisbursement, RetryDisbursement, CheckApproved, CheckGates, UnlockRequest,
                CrashRequest
  <2>4. CASE \/ \E s \in {"queued", "processed", "failed"}, utr \in BOOLEAN : PayoutReply(q, s, utr)
             \/ \E accepted \in BOOLEAN : PayoutError(q, accepted)
    BY <1>1, <2>4 DEF PayoutReply, PayoutError
  <2> QED
    BY <1>2, <1>5, <2>1, <2>2, <2>3, <2>4 DEF RequestNext, InitiationStep, Procs
<1>6. ASSUME NEW w \in Workers, WorkerNext(w)
      PROVE  payoutOf'[r] = payoutOf[r] /\ (rec'[r] = "INITIATED" => rec[r] = "INITIATED")
  <2>1. CASE MarkReversed(w) \/ MarkFailed(w)
    BY <2>1 DEF MarkReversed, MarkFailed, IInv, TypeOK
  <2>2. CASE \/ \E e \in Event : Deliver(w, e)
             \/ LockPayout(w) \/ ReadRecord(w) \/ UnlockWorker(w) \/ Acknowledge(w) \/ Refuse(w)
             \/ CrashWorker(w)
    BY <1>1, <2>2 DEF Deliver, LockPayout, ReadRecord, UnlockWorker, Acknowledge, Refuse, CrashWorker
  <2> QED
    BY <1>2, <1>6, <2>1, <2>2 DEF WorkerNext, WebhookStep, Procs
<1> QED
  BY <1>3, <1>4, <1>5, <1>6 DEF Next

LEMMA HeardStays ==
    ASSUME IInv, [Next]_vars, NEW e \in Event, Heard(e)
    PROVE  Heard(e)'
<1>1. e.payout \in PayoutId /\ e.payout.req \in Requests
  BY DEF Event, PayoutId
<1>2. payoutOf[e.payout.req] # None
  BY <1>1, NoneAssumption DEF Heard
<1> QED
  BY <1>1, <1>2, RowStays DEF Heard

\* A step by which the workers neither move nor take, answer or note an event
LEMMA OthersHeard ==
    ASSUME IInv, HeardInv, [Next]_vars, UNCHANGED <<acked, unheard, delivery>>,
           \A w \in Workers : pc'[w] = pc[w]
    PROVE  HeardInv'
<1>1. HeardBeforeAck'
  <2> SUFFICES ASSUME NEW w \in Workers
               PROVE  /\ pc'[w] = "turnedAway" => delivery'[w] \in unheard'
                      /\ pc'[w] \in {"ack", "unlockOk", "schedule", "amounts", "announce"}
                            => \/ delivery'[w].kind = "updated"
                               \/ Heard(delivery[w])'
                               \/ delivery'[w] \in unheard'
    BY DEF HeardBeforeAck
  <2>1. pc[w] \in {"ack", "unlockOk", "schedule", "amounts", "announce"} => delivery[w] \in Event
    BY DeliveryType DEF IInv
  <2> QED
    BY <2>1, HeardStays DEF HeardInv, HeardBeforeAck
<1>2. AcknowledgedIsHeard'
  BY HeardStays DEF HeardInv, AcknowledgedIsHeard, IInv, TypeOK
<1> QED
  BY <1>1, <1>2 DEF HeardInv

\* A step of worker v that keeps its event and leaves it settled or unheard
LEMMA WorkerHeard ==
    ASSUME IInv, HeardInv, [Next]_vars, NEW v \in Workers,
           UNCHANGED <<acked, delivery>>, unheard \subseteq unheard',
           pc[v] # "idle",
           \A w \in Workers \ {v} : pc'[w] = pc[w],
           pc'[v] = "turnedAway" => delivery[v] \in unheard',
           pc'[v] \in {"ack", "unlockOk", "schedule", "amounts", "announce"}
               => \/ delivery[v].kind = "updated"
                  \/ Heard(delivery[v])'
                  \/ delivery[v] \in unheard'
    PROVE  HeardInv'
<1>1. HeardBeforeAck'
  <2> SUFFICES ASSUME NEW w \in Workers
               PROVE  /\ pc'[w] = "turnedAway" => delivery'[w] \in unheard'
                      /\ pc'[w] \in {"ack", "unlockOk", "schedule", "amounts", "announce"}
                            => \/ delivery'[w].kind = "updated"
                               \/ Heard(delivery[w])'
                               \/ delivery'[w] \in unheard'
    BY DEF HeardBeforeAck
  <2>1. CASE w = v
    BY <2>1
  <2>2. CASE w # v
    <3>1. pc[w] \in {"ack", "unlockOk", "schedule", "amounts", "announce"} => delivery[w] \in Event
      BY DeliveryType DEF IInv
    <3> QED
      BY <2>2, <3>1, HeardStays DEF HeardInv, HeardBeforeAck
  <2> QED
    BY <2>1, <2>2
<1>2. AcknowledgedIsHeard'
  BY HeardStays DEF HeardInv, AcknowledgedIsHeard, IInv, TypeOK
<1> QED
  BY <1>1, <1>2 DEF HeardInv

\* The webhook's own steps, and those of the completion it may run: a write of the
\* row is what hears the event.
LEMMA HookHeard ==
    ASSUME IInv, HeardInv, [Next]_vars, NEW w \in Workers, WebhookStep(w)
    PROVE  HeardInv'
<1> USE ProcessAssumption DEF loanVars, bankVars, callVars, hookVars
<1>1. pc \in [Procs -> RequestPc \cup WorkerPc] /\ w \in Procs
  BY DEF IInv, TypeOK, Procs
<1>2. pc[w] # "idle"
  BY DEF WebhookStep, LockPayout, ReadRecord, MarkReversed, MarkFailed, UnlockWorker, Acknowledge, Refuse, UnlockPc
<1>3. delivery[w] \in Event /\ delivery[w].payout \in PayoutId /\ Target(w) = delivery[w].payout.req
      /\ Target(w) \in Requests
  BY <1>2, DeliveryType DEF IInv, Target
<1>4. CASE LockPayout(w)
  <2>1. /\ \E next \in {"reading", "turnedAway"} : pc' = [pc EXCEPT ![w] = next]
        /\ pc'[w] = "turnedAway" => delivery[w] \in unheard'
    BY <1>1, <1>4 DEF LockPayout, Goto
  <2>2. pc'[w] \in {"reading", "turnedAway"} /\ \A v \in Workers \ {w} : pc'[v] = pc[v]
    BY <1>1, <2>1
  <2>3. UNCHANGED <<acked, delivery>> /\ unheard \subseteq unheard'
    BY <1>4 DEF LockPayout
  <2> QED
    BY <1>2, <2>1, <2>2, <2>3, WorkerHeard
<1>5. CASE ReadRecord(w)
  <2>1. ~FoundByPayoutId(w) => delivery[w] \in unheard'
    BY <1>5 DEF ReadRecord
  <2>2. pc'[w] = "unlockOk" /\ FoundByPayoutId(w) /\ delivery[w].kind # "updated" => Heard(delivery[w])'
    <3>1. SUFFICES ASSUME pc'[w] = "unlockOk", FoundByPayoutId(w), delivery[w].kind # "updated"
                   PROVE  rec[Target(w)] \in {"COMPLETED", "REVERSED"}
      BY <1>3, <1>5 DEF ReadRecord, Heard, FoundByPayoutId
    <3> QED
      BY <1>1, <1>5, <3>1 DEF ReadRecord, Goto
  <2>3. pc'[w] \in {"complete", "reverse", "fail", "unlockOk"} /\ \A v \in Workers \ {w} : pc'[v] = pc[v]
    <3>1. \E next \in {"complete", "reverse", "fail", "unlockOk"} : pc' = [pc EXCEPT ![w] = next]
      BY <1>5 DEF ReadRecord, Goto
    <3> QED
      BY <1>1, <3>1
  <2>4. UNCHANGED <<acked, delivery>> /\ unheard \subseteq unheard'
    BY <1>5 DEF ReadRecord
  <2> QED
    BY <1>2, <2>1, <2>2, <2>3, <2>4, WorkerHeard
<1>6. CASE MarkReversed(w) \/ MarkFailed(w)
  <2>1. payoutOf[Target(w)] = delivery[w].payout
    BY <1>3, <1>6 DEF MarkReversed, MarkFailed, IInv, WorkerTarget
  <2>2. Heard(delivery[w])'
    BY <1>3, <1>6, <2>1 DEF MarkReversed, MarkFailed, Heard, IInv, TypeOK
  <2>3. /\ UNCHANGED <<acked, delivery, unheard>>
        /\ pc'[w] = "unlockOk" /\ \A v \in Workers \ {w} : pc'[v] = pc[v]
    <3>1. pc' = [pc EXCEPT ![w] = "unlockOk"]
      BY <1>6 DEF MarkReversed, MarkFailed, Goto
    <3> QED
      BY <1>1, <1>6, <3>1 DEF MarkReversed, MarkFailed
  <2> QED
    BY <1>2, <2>2, <2>3, WorkerHeard
<1>7. CASE UnlockWorker(w)
  <2>1. /\ UNCHANGED <<acked, delivery, unheard, rec, payoutOf>>
        /\ pc[w] \in UnlockPc /\ pc'[w] = IF pc[w] = "unlockOk" THEN "ack" ELSE "nack"
        /\ \A v \in Workers \ {w} : pc'[v] = pc[v]
    BY <1>1, <1>7 DEF UnlockWorker, Goto
  <2>2. pc'[w] = "ack" => \/ delivery[w].kind = "updated"
                          \/ Heard(delivery[w])'
                          \/ delivery[w] \in unheard'
    BY <2>1 DEF HeardInv, HeardBeforeAck, Heard
  <2> QED
    BY <1>2, <2>1, <2>2, WorkerHeard
<1>8. CASE Acknowledge(w)
  <2>1. /\ acked' = acked \cup {delivery[w]} /\ UNCHANGED <<unheard, rec, payoutOf>>
        /\ pc[w] \in {"ack", "turnedAway"} /\ pc'[w] = "idle"
        /\ \A v \in Workers \ {w} : pc'[v] = pc[v] /\ delivery'[v] = delivery[v]
    BY <1>1, <1>8 DEF Acknowledge, Goto, IInv, TypeOK
  <2>2. delivery[w].kind = "updated" \/ Heard(delivery[w]) \/ delivery[w] \in unheard
    BY <2>1 DEF HeardInv, HeardBeforeAck
  <2>3. AcknowledgedIsHeard'
    BY <2>1, <2>2 DEF HeardInv, AcknowledgedIsHeard, Heard
  <2>4. HeardBeforeAck'
    BY <2>1 DEF HeardInv, HeardBeforeAck, Heard
  <2> QED
    BY <2>3, <2>4 DEF HeardInv
<1>9. CASE Refuse(w)
  BY <1>1, <1>9 DEF Refuse, Goto, IInv, TypeOK, HeardInv, HeardBeforeAck, AcknowledgedIsHeard, Heard
<1> QED
  BY <1>4, <1>5, <1>6, <1>7, <1>8, <1>9 DEF WebhookStep

LEMMA CompletionHeard ==
    ASSUME IInv, HeardInv, [Next]_vars, NEW p \in Procs, CompletionStep(p)
    PROVE  HeardInv'
<1> USE ProcessAssumption DEF loanVars, bankVars, callVars, hookVars
<1>1. /\ UNCHANGED <<acked, delivery, unheard>> /\ pc \in [Procs -> RequestPc \cup WorkerPc]
      /\ pc[p] \in CompletionPc
      /\ \E next \in CompletionPc \cup UnlockPc : pc' = [pc EXCEPT ![p] = next]
  BY DEF CompletionStep, FindAccount, CompleteExisting, CompleteByCreating, CreateSchedule, SetAmounts,
         Announce, Goto, CompletionPc, UnlockPc, IInv, TypeOK
<1>2. CASE p \in Requests
  BY <1>1, <1>2, OthersHeard
<1>3. CASE p \in Workers
  <2>1. /\ pc[p] # "idle" /\ pc'[p] # "turnedAway"
        /\ \A v \in Workers \ {p} : pc'[v] = pc[v]
    BY <1>1, <1>3 DEF CompletionPc, UnlockPc
  <2>2. /\ delivery[p] \in Event /\ delivery[p].payout \in PayoutId
        /\ Target(p) = delivery[p].payout.req /\ Target(p) \in Requests
    BY <1>3, <2>1, DeliveryType DEF IInv, Target
  <2>3. payoutOf[Target(p)] = delivery[p].payout
    BY <1>1, <1>3, <2>2 DEF IInv, WorkerTarget
  <2>4. pc'[p] \in {"ack", "unlockOk", "schedule", "amounts", "announce"}
            => \/ delivery[p].kind = "updated"
               \/ Heard(delivery[p])'
               \/ delivery[p] \in unheard'
    <3>1. ASSUME rec' = [rec EXCEPT ![Target(p)] = "COMPLETED"], UNCHANGED payoutOf
          PROVE  Heard(delivery[p])'
      BY <1>1, <2>2, <2>3, <3>1 DEF Heard, IInv, TypeOK
    <3>2. CASE FindAccount(p)
      BY <1>1, <3>2 DEF FindAccount, Goto
    <3>3. CASE CompleteExisting(p)
      BY <3>1, <3>3 DEF CompleteExisting, Book
    <3>4. CASE CompleteByCreating(p)
      BY <1>1, <3>1, <3>4 DEF CompleteByCreating, Book, Goto
    <3>5. CASE CreateSchedule(p) \/ SetAmounts(p) \/ Announce(p)
      BY <1>1, <1>3, <3>5 DEF CreateSchedule, SetAmounts, Announce, HeardInv, HeardBeforeAck, Heard
    <3> QED
      BY <3>2, <3>3, <3>4, <3>5 DEF CompletionStep
  <2> QED
    BY <1>1, <1>3, <2>1, <2>4, WorkerHeard
<1> QED
  BY <1>2, <1>3 DEF Procs

LEMMA NextHeard == IInv /\ HeardInv /\ [Next]_vars => HeardInv'
<1> SUFFICES ASSUME IInv, HeardInv, [Next]_vars PROVE HeardInv'
  OBVIOUS
<1> USE ProcessAssumption DEF loanVars, bankVars, callVars, hookVars
<1>1. pc \in [Procs -> RequestPc \cup WorkerPc]
  BY DEF IInv, TypeOK
<1>2. CASE \/ UNCHANGED vars
           \/ \E g \in Gates : ClearGate(g)
           \/ RejectCheck \/ RejectWrite \/ ActivateLoan
           \/ JobNext \/ LockExpires
  <2>1. UNCHANGED <<acked, unheard, delivery, pc>>
    BY <1>2 DEF vars, ClearGate, RejectCheck, RejectWrite, ActivateLoan, JobNext, FindOrphan, RebuildSchedule,
                RebuildAmounts, CrashJob, LockExpires
  <2> QED
    BY <2>1, OthersHeard
<1>3. ASSUME NEW p \in PayoutId, PayoutNext(p) PROVE HeardInv'
  BY <1>3, OthersHeard DEF PayoutNext, GatewaySettles, GatewayUpdate, PayoutLockExpires
<1>4. ASSUME NEW r \in Requests, RequestNext(r) PROVE HeardInv'
  <2>1. CASE CompletionStep(r)
    BY <2>1, CompletionHeard DEF Procs
  <2>2. CASE \/ InitiateDisbursement(r) \/ \E failed \in Requests : RetryDisbursement(r, failed)
             \/ DisburseToMerchant(r) \/ InitiationStep(r) \/ CrashRequest(r)
    <3>1. /\ UNCHANGED <<acked, unheard, delivery>>
          /\ pc' = pc \/ \E next \in RequestPc : pc' = [pc EXCEPT ![r] = next]
      <4>1. CASE \/ \E s \in {"queued", "processed", "failed"}, utr \in BOOLEAN : PayoutReply(r, s, utr)
                 \/ \E accepted \in BOOLEAN : PayoutError(r, accepted)
        BY <4>1 DEF PayoutReply, PayoutError, Goto, RequestPc, InitiationPc
      <4>2. CASE CheckApproved(r) \/ CheckGates(r) \/ CreateRecord(r) \/ FailRecord(r) \/ UnlockRequest(r)
                 \/ MarkInitiated(r) \/ MerchantCommit(r)
        BY <4>2 DEF CheckApproved, CheckGates, CreateRecord, FailRecord, UnlockRequest, MarkInitiated,
                    MerchantCommit, Goto, RequestPc, InitiationPc, CompletionPc, UnlockPc
      <4>3. CASE \/ InitiateDisbursement(r) \/ \E failed \in Requests : RetryDisbursement(r, failed)
                 \/ DisburseToMerchant(r) \/ CrashRequest(r)
        BY <4>3 DEF InitiateDisbursement, RetryDisbursement, DisburseToMerchant, CrashRequest, Goto,
                    RequestPc, InitiationPc
      <4> QED
        BY <2>2, <4>1, <4>2, <4>3 DEF InitiationStep
    <3>2. \A w \in Workers : pc'[w] = pc[w]
      <4> SUFFICES ASSUME NEW w \in Workers PROVE pc'[w] = pc[w]
        OBVIOUS
      <4>1. w # r /\ w \in Procs
        BY DEF Procs
      <4> QED
        BY <1>1, <3>1, <4>1
    <3> QED
      BY <3>1, <3>2, OthersHeard
  <2> QED
    BY <1>4, <2>1, <2>2 DEF RequestNext
<1>5. ASSUME NEW w \in Workers, WorkerNext(w) PROVE HeardInv'
  <2>1. ASSUME NEW e \in Event, Deliver(w, e) PROVE HeardInv'
    BY <1>1, <2>1 DEF Deliver, Goto, IInv, TypeOK, HeardInv, HeardBeforeAck, AcknowledgedIsHeard, Heard, Procs
  <2>2. CASE CrashWorker(w)
    BY <1>1, <2>2 DEF CrashWorker, Goto, IInv, TypeOK, HeardInv, HeardBeforeAck, AcknowledgedIsHeard, Heard, Procs
  <2>3. CASE CompletionStep(w)
    BY <2>3, CompletionHeard DEF Procs
  <2> QED
    BY <1>5, <2>1, <2>2, <2>3, HookHeard DEF WorkerNext
<1> QED
  BY <1>2, <1>3, <1>4, <1>5 DEF Next

\* Whatever the interleaving of calls, workers, crashes and lock expiries, an event of
\* a settled payout is acknowledged only once its row does not wait for it, or unheard:
\* turned away by the payout's lock, or before a row named the payout.
THEOREM NothingHeardIsLost == Spec => []AcknowledgedIsHeard
<1>1. Init => HeardInv
  BY DEF Init, HeardInv, HeardBeforeAck, AcknowledgedIsHeard, Procs
<1>2. IInv /\ HeardInv /\ [Next]_vars => HeardInv'
  BY NextHeard
<1>3. HeardInv => AcknowledgedIsHeard
  BY DEF HeardInv
<1> QED
  BY <1>1, <1>2, <1>3, Invariance, PTL DEF Spec

-----------------------------------------------------------------------------
(* One payout                                                               *)

\* Calls that keep within the TTL of their locks, a gateway whose failures are
\* failures, no crash, and a loan that only the finance route pays
NothingIsLost == ~SlowCalls /\ ~LostReplies /\ ~Crashes /\ Product # "CDL"

\* Past gate 2 a request may still send a payout, or its row says that it has one
Booked    == {"INITIATED", "COMPLETED"}
PastGates == {"create", "paying", "replied"} \cup CompletionPc
Holds(r)  == rec[r] \in Booked \/ pc[r] \in PastGates
OneHolds  == \A r1, r2 \in Requests : Holds(r1) /\ Holds(r2) => r1 = r2

\* A payout on its way or paid is that of the last attempt, and its row will say so
\* or says so
Live(p) == payout[p] \in {"queued", "processed"}
LiveIsOpen ==
    \A p \in PayoutId :
        Live(p) => p.try = attempt[p.req] /\ (pc[p.req] = "replied" \/ rec[p.req] \in Booked)

\* What is written on a row comes from its last attempt, and a row is only failed
\* with its payout
PayoutIsCurrent == \A r \in Requests : payoutOf[r] # None => payoutOf[r] = CurrentPayout(r)
FailedIsFailed ==
    \A r \in Requests : rec[r] = "FAILED" /\ payoutOf[r] # None => payout[payoutOf[r]] = "failed"

\* The gateway takes neither a failure nor a reversal back
SentIsFinal == \A e \in sent : e.kind \in {"failed", "reversed"} => payout[e.payout] = e.kind

\* A webhook execution between its lock and its write
KindFollowsPc ==
    \A w \in Workers : /\ pc[w] = "fail" => delivery[w].kind = "failed"
                       /\ pc[w] = "reverse" => delivery[w].kind = "reversed"
HookLock == \A w \in Workers, p \in PayoutId : InHook(w, p) => whLock[p] = w
WorkerHolds ==
    \A w \in Workers : pc[w] \in {"complete", "pathA", "pathB"} => rec[Target(w)] \in Booked

RouteIsFinance == \A r \in Requests : pc[r] \notin {"idle", "done"} => route[r] = "finance"

PayoutInv ==
    /\ OneHolds
    /\ LiveIsOpen
    /\ PayoutIsCurrent
    /\ FailedIsFailed
    /\ SentIsFinal
    /\ KindFollowsPc
    /\ HookLock
    /\ WorkerHolds
    /\ RouteIsFinance

\* A request that is past gate 2 has the lock
LEMMA PastGatesHasLock ==
    ASSUME IInv, NothingIsLost, PayoutInv, NEW r \in Requests, pc[r] \in PastGates \cup {"gates"}
    PROVE  lock = r
<1>1. pc[r] \in InitiationPc \cup CompletionPc \cup UnlockPc
  BY DEF PastGates, InitiationPc
<1>2. route[r] = "finance"
  BY DEF PayoutInv, RouteIsFinance, PastGates, CompletionPc
<1> QED
  BY <1>1, <1>2 DEF IInv, LockFollowsPc, InLock, NothingIsLost

\* Two payouts that are out would be the same
LEMMA OneIsOut ==
    ASSUME IInv, PayoutInv
    PROVE  OnePayoutOut
<1> DEFINE Out == {p \in PayoutId : payout[p] \in {"queued", "processed"}}
<1>1. \A p, q \in Out : p = q
  <2> SUFFICES ASSUME NEW p \in Out, NEW q \in Out PROVE p = q
    OBVIOUS
  <2>1. Holds(p.req) /\ Holds(q.req) /\ p.try = attempt[p.req] /\ q.try = attempt[q.req]
    BY DEF PayoutInv, LiveIsOpen, Live, Holds, PastGates, PayoutId
  <2>2. p.req = q.req
    BY <2>1 DEF PayoutInv, OneHolds, PayoutId
  <2> QED
    BY <2>1, <2>2 DEF PayoutId
<1>2. Cardinality(Out) <= 1
  <2>1. CASE Out = {}
    BY <2>1, FS_EmptySet
  <2>2. ASSUME NEW p \in Out PROVE Cardinality(Out) = 1
    <3>1. Out = {p}
      BY <1>1
    <3> HIDE DEF Out
    <3> QED
      BY <3>1, FS_Singleton
  <2> QED
    BY <2>1, <2>2
<1> QED
  BY <1>2 DEF OnePayoutOut

LEMMA InitPayout == Init => PayoutInv
BY DEF Init, PayoutInv, OneHolds, Holds, Booked, PastGates, CompletionPc, LiveIsOpen, Live, PayoutIsCurrent,
       FailedIsFailed, SentIsFinal, KindFollowsPc, HookLock, InHook, UnlockPc, WorkerHolds, RouteIsFinance, Procs

\* The steps of the application, of time and of the settlement job
LEMMA SurroundingsPayout ==
    ASSUME IInv, NothingIsLost, PayoutInv,
           \/ \E g \in Gates : ClearGate(g)
           \/ RejectCheck \/ RejectWrite \/ ActivateLoan
           \/ \E p \in PayoutId : PayoutNext(p)
           \/ JobNext
           \/ LockExpires
           \/ UNCHANGED vars
    PROVE  PayoutInv'
<1> USE DEF PayoutInv, OneHolds, Holds, LiveIsOpen, Live, PayoutIsCurrent, CurrentPayout, FailedIsFailed, SentIsFinal,
            KindFollowsPc, HookLock, InHook, WorkerHolds, Target, RouteIsFinance,
            loanVars, bankVars, callVars, hookVars
<1>1. CASE UNCHANGED <<rec, pc, payout, attempt, payoutOf, sent, delivery, whLock, route>>
  BY <1>1
<1>2. CASE \/ \E g \in Gates : ClearGate(g)
           \/ RejectCheck \/ RejectWrite \/ ActivateLoan
           \/ JobNext \/ LockExpires \/ UNCHANGED vars
  <2>1. UNCHANGED <<rec, pc, payout, attempt, payoutOf, sent, delivery, whLock, route>>
    BY <1>2 DEF ClearGate, RejectCheck, RejectWrite, ActivateLoan, JobNext, FindOrphan, RebuildSchedule,
       RebuildAmounts, CrashJob, LockExpires, vars
  <2> QED
    BY <1>1, <2>1
<1>3. ASSUME NEW p \in PayoutId, NEW s \in {"processed", "failed", "reversed"}, GatewaySettles(p, s)
      PROVE  PayoutInv'
  <2>1. /\ UNCHANGED <<rec, pc, attempt, payoutOf, delivery, whLock, route>>
        /\ \A q \in PayoutId : payout'[q] # payout[q] => q = p /\ payout[p] \in {"queued", "processed"} /\ payout'[p] = s
        /\ sent' \subseteq sent \cup {[payout |-> p, kind |-> s]}
        /\ payout[p] \in {"queued", "processed"} /\ payout'[p] = s
    BY <1>3 DEF GatewaySettles, Sends, IInv, TypeOK
  <2>2. SentIsFinal'
    BY <2>1 DEF IInv, TypeOK, Event
  <2>3. FailedIsFailed'
    BY <2>1 DEF IInv, TypeOK
  <2> QED
    BY <2>1, <2>2, <2>3
<1>4. ASSUME NEW p \in PayoutId, GatewayUpdate(p) PROVE PayoutInv'
  <2>1. /\ UNCHANGED <<rec, pc, attempt, payoutOf, payout, delivery, whLock, route>>
        /\ sent' \subseteq sent \cup {[payout |-> p, kind |-> "updated"]}
    BY <1>4 DEF GatewayUpdate, Sends
  <2> QED
    BY <2>1
<1>5. ASSUME NEW p \in PayoutId, PayoutLockExpires(p) PROVE PayoutInv'
  BY <1>5 DEF PayoutLockExpires, NothingIsLost, IInv, TypeOK
<1> QED
  BY <1>2, <1>3, <1>4, <1>5 DEF PayoutNext

\* The completion paths write COMPLETED over a row that already has its payout
LEMMA CompletionPayout ==
    ASSUME IInv, NothingIsLost, PayoutInv, NEW p \in Procs, CompletionStep(p)
    PROVE  PayoutInv'
<1> USE ProcessAssumption
<1>1. /\ pc \in [Procs -> RequestPc \cup WorkerPc] /\ pc[p] \in CompletionPc
      /\ UNCHANGED <<attempt, payoutOf, payout, sent, delivery, whLock, route>>
      /\ \E next \in (CompletionPc \ {"complete"}) \cup UnlockPc : pc' = [pc EXCEPT ![p] = next]
      /\ pc[p] # "complete" => pc'[p] \notin {"pathA", "pathB"}
      /\ \/ UNCHANGED rec
         \/ pc[p] \in {"pathA", "pathB"} /\ rec' = [rec EXCEPT ![Target(p)] = "COMPLETED"]
  BY DEF CompletionStep, FindAccount, CompleteExisting, CompleteByCreating, Book, CreateSchedule, SetAmounts, Announce,
     Goto, CompletionPc, UnlockPc, IInv, TypeOK, loanVars, bankVars, callVars, hookVars
<1>2. Target(p) \in Requests /\ rec \in [Requests -> RecStatus]
  BY <1>1, TargetHasPayout DEF IInv, TypeOK
<1>3. pc[p] \in {"pathA", "pathB"} => Holds(Target(p))
  BY <1>1 DEF PayoutInv, WorkerHolds, Holds, Target, PastGates, Procs
<1>4. \A r \in Requests : rec[r] \in Booked => rec'[r] \in Booked
  BY <1>1, <1>2 DEF Booked
<1>5. \A r \in Requests : Holds(r)' => Holds(r)
  BY <1>1, <1>2, <1>3 DEF Holds, PastGates, CompletionPc, UnlockPc, Procs, Booked
<1>6. \A q \in Procs : q # p => pc'[q] = pc[q]
  BY <1>1
<1>7. OneHolds'
  BY <1>5 DEF PayoutInv, OneHolds
<1>8. LiveIsOpen'
  BY <1>1, <1>4, <1>6 DEF PayoutInv, LiveIsOpen, Live, PayoutId, Procs, CompletionPc
<1>9. PayoutIsCurrent' /\ SentIsFinal'
  BY <1>1 DEF PayoutInv, PayoutIsCurrent, CurrentPayout, SentIsFinal
<1>10. FailedIsFailed'
  BY <1>1, <1>2 DEF PayoutInv, FailedIsFailed
<1>11. KindFollowsPc'
  BY <1>1, <1>6 DEF PayoutInv, KindFollowsPc, Procs, CompletionPc, UnlockPc
<1>12. HookLock'
  BY <1>1, <1>6 DEF PayoutInv, HookLock, InHook, Procs, CompletionPc, UnlockPc
<1>13. WorkerHolds'
  <2> SUFFICES ASSUME NEW w \in Workers, pc'[w] \in {"complete", "pathA", "pathB"}
               PROVE  rec'[Target(w)'] \in Booked
    BY DEF WorkerHolds
  <2>1. pc[w] \in {"complete", "pathA", "pathB"}
    BY <1>1, <1>6 DEF Procs, CompletionPc, UnlockPc
  <2>2. rec[Target(w)] \in Booked
    BY <2>1 DEF PayoutInv, WorkerHolds
  <2>3. Target(w) \in Requests
    BY <2>1, TargetHasPayout DEF CompletionPc, Procs
  <2>4. Target(w)' = Target(w)
    BY <1>1 DEF Target
  <2> QED
    BY <1>4, <2>2, <2>3, <2>4
<1>14. RouteIsFinance'
  BY <1>1, <1>6 DEF PayoutInv, RouteIsFinance, Procs, CompletionPc
<1> QED
  BY <1>7, <1>8, <1>9, <1>10, <1>11, <1>12, <1>13, <1>14 DEF PayoutInv

\* The steps of a request that neither send a payout nor write on its row
LEMMA RequestPayout ==
    ASSUME IInv, NothingIsLost, PayoutInv, NEW r \in Requests, RequestNext(r)
    PROVE  PayoutInv'
<1> USE ProcessAssumption
<1>1. /\ pc \in [Procs -> RequestPc \cup WorkerPc] /\ rec \in [Requests -> RecStatus]
      /\ payoutOf \in [Requests -> PayoutId \cup {None}] /\ payout \in [PayoutId -> PayoutStatus]
      /\ attempt \in [Requests -> 1..MaxAttempts] /\ route \in [Requests -> {"none", "finance", "merchant"}]
      /\ r \in Procs /\ CurrentPayout(r) \in PayoutId
  BY CurrentPayoutType DEF IInv, TypeOK, Procs
<1>2. CASE CompletionStep(r)
  BY <1>1, <1>2, CompletionPayout
<1>3. ASSUME UNCHANGED <<delivery, whLock>>, \A q \in Procs : q # r => pc'[q] = pc[q]
      PROVE  KindFollowsPc' /\ HookLock'
  BY <1>3 DEF PayoutInv, KindFollowsPc, HookLock, InHook, Procs
<1>4. ASSUME UNCHANGED <<delivery>>, \A q \in Procs : q # r => pc'[q] = pc[q],
             \A q \in Requests : rec[q] \in Booked => rec'[q] \in Booked
      PROVE  WorkerHolds'
  <2> SUFFICES ASSUME NEW w \in Workers, pc'[w] \in {"complete", "pathA", "pathB"}
               PROVE  rec'[Target(w)'] \in Booked
    BY DEF WorkerHolds
  <2>1. pc[w] \in {"complete", "pathA", "pathB"}
    BY <1>1, <1>4 DEF Procs
  <2>2. rec[Target(w)] \in Booked /\ Target(w) \in Requests
    BY <2>1, TargetHasPayout DEF PayoutInv, WorkerHolds, CompletionPc, Procs
  <2>3. Target(w)' = Target(w)
    BY <1>4 DEF Target
  <2> QED
    BY <1>4, <2>2, <2>3
\* taking the lock
<1>5. ASSUME InitiateDisbursement(r) PROVE PayoutInv'
  <2>1. /\ pc[r] = "idle" /\ pc' = [pc EXCEPT ![r] = "gate1"] /\ route' = [route EXCEPT ![r] = "finance"]
        /\ UNCHANGED <<rec, payoutOf, payout, sent, attempt, delivery, whLock>>
    BY <1>5 DEF InitiateDisbursement, Goto, bankVars, hookVars
  <2>2. \A q \in Procs : q # r => pc'[q] = pc[q]
    BY <1>1, <2>1
  <2>3. OneHolds' /\ RouteIsFinance'
    BY <1>1, <2>1, <2>2 DEF PayoutInv, OneHolds, Holds, PastGates, CompletionPc, RouteIsFinance, Procs
  <2>4. LiveIsOpen' /\ PayoutIsCurrent' /\ FailedIsFailed' /\ SentIsFinal'
    BY <1>1, <2>1, <2>2 DEF PayoutInv, LiveIsOpen, Live, PayoutIsCurrent, CurrentPayout, FailedIsFailed, SentIsFinal,
       PayoutId, Procs
  <2> QED
    BY <1>3, <1>4, <2>1, <2>2, <2>3, <2>4 DEF PayoutInv
<1>6. CASE \E failed \in Requests : RetryDisbursement(r, failed)
  BY <1>5, <1>6 DEF RetryDisbursement
<1>7. CASE DisburseToMerchant(r) \/ CrashRequest(r)
  BY <1>7 DEF DisburseToMerchant, CrashRequest, NothingIsLost
\* gates, and the end of the call
<1>8. ASSUME CheckApproved(r) \/ CheckGates(r) \/ UnlockRequest(r) PROVE PayoutInv'
  <2>1. /\ UNCHANGED <<rec, payoutOf, payout, sent, attempt, delivery, whLock, route>>
        /\ pc[r] \in {"gate1", "gates"} \cup UnlockPc
        /\ \E next \in {"idle", "gates", "create", "unlockErr", "done"} :
              /\ pc' = [pc EXCEPT ![r] = next]
              /\ next = "create" => CheckGates(r) /\ ~ ExistsCompletedForLoan
    BY <1>8 DEF CheckApproved, CheckGates, UnlockRequest, Goto, bankVars, callVars, hookVars
  <2>2. \A q \in Procs : q # r => pc'[q] = pc[q]
    BY <1>1, <2>1
  <2>3. OneHolds'
    <3>1. CASE pc'[r] # "create"
      <4>1. \A q \in Requests : Holds(q)' => Holds(q)
        BY <1>1, <2>1, <2>2, <3>1 DEF Holds, PastGates, CompletionPc, Procs
      <4> QED
        BY <4>1 DEF PayoutInv, OneHolds
    <3>2. CASE pc'[r] = "create"
      <4>1. pc[r] = "gates" /\ ~ ExistsCompletedForLoan
        BY <1>1, <2>1, <3>2 DEF CheckGates
      <4>2. lock = r
        BY <4>1, PastGatesHasLock
      <4>3. \A q \in Requests : Holds(q) => pc[q] \in PastGates
        BY <4>1 DEF Holds, ExistsCompletedForLoan, Booked
      <4>4. \A q \in Requests : Holds(q) => q = r
        BY <4>2, <4>3, PastGatesHasLock
      <4>5. \A q \in Requests : Holds(q)' => q = r
        BY <2>1, <2>2, <4>4 DEF Holds, Procs
      <4> QED
        BY <4>5 DEF OneHolds
    <3> QED
      BY <3>1, <3>2
  <2>4. LiveIsOpen'
    BY <1>1, <2>1, <2>2 DEF PayoutInv, LiveIsOpen, Live, PayoutId, Procs, UnlockPc
  <2>5. PayoutIsCurrent' /\ FailedIsFailed' /\ SentIsFinal'
    BY <2>1 DEF PayoutInv, PayoutIsCurrent, CurrentPayout, FailedIsFailed, SentIsFinal
  <2>6. RouteIsFinance'
    BY <1>1, <2>1, <2>2 DEF PayoutInv, RouteIsFinance, Procs, UnlockPc
  <2> QED
    BY <1>3, <1>4, <2>1, <2>2, <2>3, <2>4, <2>5, <2>6 DEF PayoutInv
\* the row
<1>9. ASSUME CreateRecord(r) \/ FailRecord(r) \/ MarkInitiated(r) PROVE PayoutInv'
  <2>1. /\ UNCHANGED <<payout, sent, attempt, delivery, whLock, route>>
        /\ \/ /\ pc[r] = "create" /\ pc' = [pc EXCEPT ![r] = "paying"]
              /\ rec' = [rec EXCEPT ![r] = "PENDING"] /\ UNCHANGED payoutOf
           \/ /\ pc[r] = "payoutError" /\ pc' = [pc EXCEPT ![r] = "unlockErr"]
              /\ rec' = [rec EXCEPT ![r] = "FAILED"] /\ UNCHANGED payoutOf
           \/ /\ pc[r] = "replied" /\ \E next \in {"complete", "unlockOk"} : pc' = [pc EXCEPT ![r] = next]
              /\ rec' = [rec EXCEPT ![r] = "INITIATED"] /\ payoutOf' = [payoutOf EXCEPT ![r] = CurrentPayout(r)]
    BY <1>9 DEF CreateRecord, FailRecord, MarkInitiated, Goto, bankVars, callVars, hookVars
  <2>2. \A q \in Procs : q # r => pc'[q] = pc[q]
    BY <1>1, <2>1
  <2>3. /\ pc[r] = "create" => rec[r] = "NONE"
        /\ pc[r] \in {"payoutError", "replied"} => rec[r] = "PENDING"
        /\ rec[r] \in {"NONE", "PENDING"} => payoutOf[r] = None
    BY DEF IInv, RowFollowsPc
  <2>4. OneHolds'
    <3>1. \A q \in Requests : Holds(q)' => Holds(q)
      BY <1>1, <2>1, <2>2 DEF Holds, PastGates, CompletionPc, Procs, Booked
    <3> QED
      BY <3>1 DEF PayoutInv, OneHolds
  <2>5. LiveIsOpen'
    BY <1>1, <2>1, <2>2, <2>3 DEF PayoutInv, LiveIsOpen, Live, PayoutId, Procs, Booked
  <2>6. PayoutIsCurrent' /\ FailedIsFailed' /\ SentIsFinal'
    BY <1>1, <2>1, <2>3 DEF PayoutInv, PayoutIsCurrent, CurrentPayout, FailedIsFailed, SentIsFinal
  <2>7. RouteIsFinance'
    BY <1>1, <2>1, <2>2 DEF PayoutInv, RouteIsFinance, Procs
  <2>8. \A q \in Requests : rec[q] \in Booked => rec'[q] \in Booked
    BY <1>1, <2>1, <2>3 DEF Booked
  <2> QED
    BY <1>3, <1>4, <2>1, <2>2, <2>4, <2>5, <2>6, <2>7, <2>8 DEF PayoutInv
<1>10. CASE MerchantCommit(r)
  BY <1>10 DEF MerchantCommit, PayoutInv, RouteIsFinance
\* the gateway answers: until then there was no payout of this attempt
<1>11. ASSUME NEW s \in {"queued", "processed", "failed"}, NEW utr \in BOOLEAN, PayoutReply(r, s, utr)
       PROVE  PayoutInv'
  <2>1. /\ UNCHANGED <<rec, payoutOf, attempt, delivery, whLock, route>>
        /\ pc[r] = "paying" /\ pc' = [pc EXCEPT ![r] = "replied"]
        /\ payout' = [payout EXCEPT ![CurrentPayout(r)] = s]
        /\ sent' \subseteq sent \cup {[payout |-> CurrentPayout(r), kind |-> s]}
    BY <1>11 DEF PayoutReply, Sends, Goto, hookVars
  <2>2. \A q \in Procs : q # r => pc'[q] = pc[q]
    BY <1>1, <2>1
  <2>3. payout[CurrentPayout(r)] = "none" /\ payoutOf[r] = None
    BY <1>1, <2>1 DEF IInv, NoPayoutYet, RowFollowsPc, CurrentPayout
  <2>4. OneHolds'
    <3>1. \A q \in Requests : Holds(q)' => Holds(q)
      BY <1>1, <2>1, <2>2 DEF Holds, PastGates, CompletionPc, Procs
    <3> QED
      BY <3>1 DEF PayoutInv, OneHolds
  <2>5. LiveIsOpen'
    <3> SUFFICES ASSUME NEW p \in PayoutId, Live(p)'
                 PROVE  p.try = attempt[p.req] /\ (pc'[p.req] = "replied" \/ rec[p.req] \in Booked)
      BY <2>1 DEF LiveIsOpen
    <3>1. CASE p = CurrentPayout(r)
      BY <1>1, <2>1, <3>1 DEF CurrentPayout
    <3>2. CASE p # CurrentPayout(r)
      BY <1>1, <2>1, <2>2, <3>2 DEF PayoutInv, LiveIsOpen, Live, PayoutId, Procs
    <3> QED
      BY <3>1, <3>2
  <2>6. PayoutIsCurrent'
    BY <2>1 DEF PayoutInv, PayoutIsCurrent, CurrentPayout
  <2>7. FailedIsFailed'
    BY <1>1, <2>1, <2>3 DEF PayoutInv, FailedIsFailed
  <2>8. SentIsFinal'
    BY <1>1, <2>1, <2>3 DEF PayoutInv, SentIsFinal
  <2>9. RouteIsFinance'
    BY <1>1, <2>1, <2>2 DEF PayoutInv, RouteIsFinance, Procs
  <2> QED
    BY <1>3, <1>4, <2>1, <2>2, <2>4, <2>5, <2>6, <2>7, <2>8, <2>9 DEF PayoutInv
\* the attempt fails, and with it the payout
<1>12. ASSUME NEW accepted \in BOOLEAN, PayoutError(r, accepted)
       PROVE  PayoutInv'
  <2>1. /\ UNCHANGED <<rec, payoutOf, sent, delivery, whLock, route>> /\ pc[r] = "paying"
        /\ \/ pc' = pc /\ attempt' = [attempt EXCEPT ![r] = @ + 1]
           \/ pc' = [pc EXCEPT ![r] = "payoutError"] /\ UNCHANGED attempt
    BY <1>12 DEF PayoutError, Goto, hookVars
  <2>2. UNCHANGED payout
    BY <1>1, <1>12 DEF PayoutError, NothingIsLost
  <2>3. \A q \in Procs : q # r => pc'[q] = pc[q]
    BY <1>1, <2>1
  <2>4. /\ \A p \in PayoutId : p.req = r /\ p.try = attempt[r] => payout[p] = "none"
        /\ payoutOf[r] = None /\ rec[r] = "PENDING"
    BY <2>1 DEF IInv, NoPayoutYet, RowFollowsPc
  <2>5. OneHolds'
    <3>1. \A q \in Requests : Holds(q)' => Holds(q)
      BY <1>1, <2>1, <2>3 DEF Holds, PastGates, CompletionPc, Procs
    <3> QED
      BY <3>1 DEF PayoutInv, OneHolds
  <2>6. LiveIsOpen'
    <3> SUFFICES ASSUME NEW p \in PayoutId, Live(p)
                 PROVE  p.try = attempt'[p.req] /\ (pc'[p.req] = "replied" \/ rec[p.req] \in Booked)
      BY <2>1, <2>2 DEF LiveIsOpen, Live
    <3>1. p.req # r /\ p.req \in Requests
      BY <2>4 DEF PayoutInv, LiveIsOpen, Live, PayoutId
    <3> QED
      BY <1>1, <2>1, <2>3, <3>1 DEF PayoutInv, LiveIsOpen, Procs
  <2>7. PayoutIsCurrent'
    BY <1>1, <2>1, <2>4 DEF PayoutInv, PayoutIsCurrent, CurrentPayout
  <2>8. FailedIsFailed' /\ SentIsFinal'
    BY <2>1, <2>2 DEF PayoutInv, FailedIsFailed, SentIsFinal
  <2>9. RouteIsFinance'
    BY <1>1, <2>1, <2>3 DEF PayoutInv, RouteIsFinance, Procs
  <2> QED
    BY <1>3, <1>4, <2>1, <2>3, <2>5, <2>6, <2>7, <2>8, <2>9 DEF PayoutInv
<1> QED
  BY <1>2, <1>5, <1>6, <1>7, <1>8, <1>9, <1>10, <1>11, <1>12 DEF RequestNext, InitiationStep


\* What a webhook execution writes on a row, its payout has come to, and nobody else
\* is handling that payout
LEMMA WorkerPayout ==
    ASSUME IInv, NothingIsLost, PayoutInv, NEW w \in Workers, WorkerNext(w)
    PROVE  PayoutInv'
<1> USE ProcessAssumption
<1>1. /\ pc \in [Procs -> RequestPc \cup WorkerPc] /\ rec \in [Requests -> RecStatus]
      /\ payoutOf \in [Requests -> PayoutId \cup {None}] /\ payout \in [PayoutId -> PayoutStatus]
      /\ delivery \in [Workers -> Event \cup {None}] /\ whLock \in [PayoutId -> Workers \cup {None}]
      /\ w \in Procs /\ \A v \in Workers : v \in Procs
      /\ \A r \in Requests : r # w /\ r \in Procs
  BY DEF IInv, TypeOK, Procs
<1>2. CASE CompletionStep(w)
  BY <1>1, <1>2, CompletionPayout
<1>3. CASE CrashWorker(w)
  BY <1>3 DEF CrashWorker, NothingIsLost
\* what depends on the requests and rows only
<1>4. ASSUME UNCHANGED <<rec, payoutOf, payout, attempt, sent, route>>, \A q \in Procs : q # w => pc'[q] = pc[q]
      PROVE  /\ OneHolds' /\ LiveIsOpen' /\ PayoutIsCurrent' /\ FailedIsFailed' /\ SentIsFinal' /\ RouteIsFinance'
  <2>1. \A r \in Requests : pc'[r] = pc[r]
    BY <1>1, <1>4
  <2> QED
    BY <1>4, <2>1 DEF PayoutInv, OneHolds, Holds, LiveIsOpen, Live, PayoutId, PayoutIsCurrent, CurrentPayout,
       FailedIsFailed, SentIsFinal, RouteIsFinance
<1>5. ASSUME NEW e \in Event, Deliver(w, e) PROVE PayoutInv'
  <2>1. /\ UNCHANGED <<rec, payoutOf, payout, attempt, sent, route, whLock>>
        /\ pc' = [pc EXCEPT ![w] = "checked"] /\ delivery' = [delivery EXCEPT ![w] = e]
    BY <1>5 DEF Deliver, Goto, bankVars, callVars
  <2>2. /\ \A q \in Procs : q # w => pc'[q] = pc[q]
        /\ \A v \in Workers : v # w => delivery'[v] = delivery[v]
        /\ pc'[w] = "checked"
    BY <1>1, <2>1
  <2>3. KindFollowsPc' /\ HookLock' /\ WorkerHolds'
    BY <1>1, <2>1, <2>2 DEF PayoutInv, KindFollowsPc, HookLock, InHook, CompletionPc, UnlockPc, WorkerHolds, Target
  <2> QED
    BY <1>4, <2>1, <2>2, <2>3 DEF PayoutInv
<1>6. ASSUME LockPayout(w) PROVE PayoutInv'
  <2>1. /\ UNCHANGED <<rec, payoutOf, payout, attempt, sent, route, delivery>> /\ pc[w] = "checked"
        /\ \/ /\ whLock[delivery[w].payout] = None /\ whLock' = [whLock EXCEPT ![delivery[w].payout] = w]
              /\ pc' = [pc EXCEPT ![w] = "reading"]
           \/ UNCHANGED whLock /\ pc' = [pc EXCEPT ![w] = "turnedAway"]
    BY <1>6 DEF LockPayout, Goto, bankVars, callVars
  <2>2. /\ \A q \in Procs : q # w => pc'[q] = pc[q]
        /\ pc'[w] \in {"reading", "turnedAway"}
    BY <1>1, <2>1
  <2>3. KindFollowsPc' /\ WorkerHolds'
    BY <1>1, <2>1, <2>2 DEF PayoutInv, KindFollowsPc, WorkerHolds, Target
  <2>4. HookLock'
    BY <1>1, <2>1, <2>2, NoneAssumption DEF PayoutInv, HookLock, InHook, CompletionPc, UnlockPc, Procs
  <2> QED
    BY <1>4, <2>1, <2>2, <2>3, <2>4 DEF PayoutInv
<1>7. ASSUME ReadRecord(w) PROVE PayoutInv'
  <2>1. /\ UNCHANGED <<rec, payoutOf, payout, attempt, sent, route, delivery, whLock>> /\ pc[w] = "reading"
        /\ \E next \in {"complete", "reverse", "fail", "unlockOk"} :
              /\ pc' = [pc EXCEPT ![w] = next]
              /\ next = "complete" => delivery[w].kind = "processed"
              /\ next = "reverse" => delivery[w].kind = "reversed"
              /\ next = "fail" => delivery[w].kind = "failed"
              /\ next # "unlockOk" => /\ payoutOf[Target(w)] = delivery[w].payout
                                      /\ rec[Target(w)] \notin {"COMPLETED", "REVERSED"}
    BY <1>7 DEF ReadRecord, FoundByPayoutId, Goto, bankVars, callVars, hookVars
  <2>2. /\ \A q \in Procs : q # w => pc'[q] = pc[q]
        /\ pc'[w] \in {"complete", "reverse", "fail", "unlockOk"}
    BY <1>1, <2>1
  <2>3. KindFollowsPc'
    BY <1>1, <2>1, <2>2 DEF PayoutInv, KindFollowsPc
  <2>4. HookLock'
    BY <1>1, <2>1, <2>2 DEF PayoutInv, HookLock, InHook, CompletionPc, UnlockPc
  <2>5. WorkerHolds'
    <3>1. CASE pc'[w] = "complete"
      <4>1. /\ delivery[w].kind = "processed" /\ payoutOf[Target(w)] = delivery[w].payout
            /\ rec[Target(w)] \notin {"COMPLETED", "REVERSED"}
        BY <1>1, <2>1, <3>1
      <4>2. Target(w) \in Requests /\ delivery[w].payout \in PayoutId /\ delivery[w] \in Event
        BY <2>1, DeliveryType, TargetType DEF IInv, Procs
      <4>3. delivery[w] \in sent /\ payoutOf[Target(w)] # None
        BY <4>1, <4>2, NoneAssumption DEF IInv, WorkerTarget
      <4>4. Funded(delivery[w].payout)
        BY <4>1, <4>3 DEF IInv, SentIsTrue
      <4>5. rec[Target(w)] # "FAILED"
        BY <4>1, <4>2, <4>3, <4>4 DEF PayoutInv, FailedIsFailed, Funded
      <4>6. rec[Target(w)] \notin {"NONE", "PENDING"}
        BY <4>2, <4>3 DEF IInv, RowFollowsPc
      <4>7. rec[Target(w)] \in Booked
        BY <1>1, <4>1, <4>2, <4>5, <4>6 DEF RecStatus, Booked
      <4> QED
        BY <2>1, <2>2, <4>7 DEF PayoutInv, WorkerHolds, Target, Procs
    <3>2. CASE pc'[w] # "complete"
      BY <2>1, <2>2, <3>2 DEF PayoutInv, WorkerHolds, Target, Procs
    <3> QED
      BY <3>1, <3>2
  <2> QED
    BY <1>4, <2>1, <2>2, <2>3, <2>4, <2>5 DEF PayoutInv
<1>8. ASSUME MarkReversed(w) \/ MarkFailed(w) PROVE PayoutInv'
  <2>1. /\ UNCHANGED <<payoutOf, payout, attempt, sent, route, delivery, whLock>>
        /\ pc[w] \in {"reverse", "fail"} /\ pc' = [pc EXCEPT ![w] = "unlockOk"]
        /\ \/ pc[w] = "reverse" /\ rec' = [rec EXCEPT ![Target(w)] = "REVERSED"]
           \/ pc[w] = "fail" /\ rec' = [rec EXCEPT ![Target(w)] = "FAILED"]
    BY <1>8 DEF MarkReversed, MarkFailed, Goto, bankVars, callVars, hookVars
  <2>2. /\ \A q \in Procs : q # w => pc'[q] = pc[q]
        /\ pc'[w] = "unlockOk"
    BY <1>1, <2>1
  <2>3. /\ Target(w) \in Requests /\ Target(w) = delivery[w].payout.req
        /\ payoutOf[Target(w)] # None /\ payoutOf[Target(w)] \in PayoutId
        /\ payoutOf[Target(w)] = delivery[w].payout /\ delivery[w] \in sent
    BY <1>1, <2>1, TargetHasPayout, DeliveryType, NoneAssumption DEF IInv, WorkerTarget, Target
  <2>4. payout[payoutOf[Target(w)]] = IF pc[w] = "fail" THEN "failed" ELSE "reversed"
    <3>1. delivery[w].kind = IF pc[w] = "fail" THEN "failed" ELSE "reversed"
      BY <2>1 DEF PayoutInv, KindFollowsPc
    <3> QED
      BY <2>3, <3>1 DEF PayoutInv, SentIsFinal
  <2>5. OneHolds'
    <3>1. \A q \in Requests : Holds(q)' => Holds(q)
      BY <1>1, <2>1, <2>2, <2>3 DEF Holds, Booked
    <3> QED
      BY <3>1 DEF PayoutInv, OneHolds
  <2>6. LiveIsOpen'
    <3> SUFFICES ASSUME NEW p \in PayoutId, Live(p)
                 PROVE  p.try = attempt[p.req] /\ (pc'[p.req] = "replied" \/ rec'[p.req] \in Booked)
      BY <2>1 DEF LiveIsOpen, Live
    <3>1. p.try = attempt[p.req] /\ (pc[p.req] = "replied" \/ rec[p.req] \in Booked) /\ p.req \in Requests
      BY DEF PayoutInv, LiveIsOpen, PayoutId
    <3>2. p.req # Target(w)
      <4>1. payoutOf[Target(w)] = CurrentPayout(Target(w))
        BY <2>3 DEF PayoutInv, PayoutIsCurrent
      <4>2. p # payoutOf[Target(w)]
        BY <2>4 DEF Live
      <4>3. p.req = Target(w) => p = CurrentPayout(Target(w))
        BY <3>1 DEF CurrentPayout, PayoutId
      <4> QED
        BY <4>1, <4>2, <4>3
    <3> QED
      BY <1>1, <2>1, <2>2, <3>1, <3>2
  <2>7. PayoutIsCurrent' /\ SentIsFinal'
    BY <2>1 DEF PayoutInv, PayoutIsCurrent, CurrentPayout, SentIsFinal
  <2>8. FailedIsFailed'
    <3> SUFFICES ASSUME NEW r \in Requests, rec'[r] = "FAILED", payoutOf[r] # None
                 PROVE  payout[payoutOf[r]] = "failed"
      BY <2>1 DEF FailedIsFailed
    <3>1. CASE r = Target(w)
      BY <1>1, <2>1, <2>3, <2>4, <3>1
    <3>2. CASE r # Target(w)
      BY <1>1, <2>1, <3>2 DEF PayoutInv, FailedIsFailed
    <3> QED
      BY <3>1, <3>2
  <2>9. KindFollowsPc' /\ HookLock'
    BY <1>1, <2>1, <2>2 DEF PayoutInv, KindFollowsPc, HookLock, InHook, CompletionPc, UnlockPc
  <2>10. WorkerHolds'
    <3> SUFFICES ASSUME NEW v \in Workers, pc'[v] \in {"complete", "pathA", "pathB"}
                 PROVE  rec'[Target(v)'] \in Booked
      BY DEF WorkerHolds
    <3>1. v # w /\ pc[v] \in {"complete", "pathA", "pathB"} /\ Target(v)' = Target(v)
      BY <1>1, <2>1, <2>2 DEF Target
    <3>2. /\ Target(v) \in Requests /\ rec[Target(v)] \in Booked
          /\ payoutOf[Target(v)] = delivery[v].payout
      BY <1>1, <3>1, TargetHasPayout DEF PayoutInv, WorkerHolds, CompletionPc, IInv, WorkerTarget, Target
    <3>3. Target(v) # Target(w)
      <4>1. Target(v) = Target(w) => InHook(v, delivery[w].payout) /\ InHook(w, delivery[w].payout)
        BY <2>1, <2>3, <3>1, <3>2 DEF InHook, CompletionPc
      <4> QED
        BY <2>3, <3>1, <4>1 DEF PayoutInv, HookLock
    <3> QED
      BY <1>1, <2>1, <3>1, <3>2, <3>3
  <2>11. RouteIsFinance'
    BY <1>1, <2>1, <2>2 DEF PayoutInv, RouteIsFinance
  <2> QED
    BY <2>5, <2>6, <2>7, <2>8, <2>9, <2>10, <2>11 DEF PayoutInv
<1>9. ASSUME UnlockWorker(w) PROVE PayoutInv'
  <2>1. /\ UNCHANGED <<rec, payoutOf, payout, attempt, sent, route, delivery>> /\ pc[w] \in UnlockPc
        /\ whLock' = [whLock EXCEPT ![delivery[w].payout] = IF @ = w THEN None ELSE @]
        /\ \E next \in {"ack", "nack"} : pc' = [pc EXCEPT ![w] = next]
    BY <1>9 DEF UnlockWorker, Goto, bankVars, callVars
  <2>2. /\ \A q \in Procs : q # w => pc'[q] = pc[q]
        /\ pc'[w] \in {"ack", "nack"}
    BY <1>1, <2>1
  <2>3. KindFollowsPc' /\ WorkerHolds'
    BY <1>1, <2>1, <2>2 DEF PayoutInv, KindFollowsPc, WorkerHolds, Target
  <2>4. HookLock'
    BY <1>1, <2>1, <2>2 DEF PayoutInv, HookLock, InHook, CompletionPc, UnlockPc
  <2> QED
    BY <1>4, <2>1, <2>2, <2>3, <2>4 DEF PayoutInv
<1>10. ASSUME Acknowledge(w) \/ Refuse(w) PROVE PayoutInv'
  <2>1. /\ UNCHANGED <<rec, payoutOf, payout, attempt, sent, route, whLock>>
        /\ pc' = [pc EXCEPT ![w] = "idle"] /\ delivery' = [delivery EXCEPT ![w] = None]
    BY <1>10 DEF Acknowledge, Refuse, Goto, bankVars, callVars
  <2>2. /\ \A q \in Procs : q # w => pc'[q] = pc[q]
        /\ \A v \in Workers : v # w => delivery'[v] = delivery[v]
        /\ pc'[w] = "idle"
    BY <1>1, <2>1
  <2>3. KindFollowsPc' /\ HookLock' /\ WorkerHolds'
    BY <1>1, <2>1, <2>2 DEF PayoutInv, KindFollowsPc, HookLock, InHook, CompletionPc, UnlockPc, WorkerHolds, Target
  <2> QED
    BY <1>4, <2>1, <2>2, <2>3 DEF PayoutInv
<1> QED
  BY <1>2, <1>3, <1>5, <1>6, <1>7, <1>8, <1>9, <1>10 DEF WorkerNext, WebhookStep

\* At most one payout of a loan is on its way or paid, whatever calls, retries and
\* webhooks interleave, as long as no call outlasts its lock, no reply is lost, no
\* instance dies and only the finance route pays.
THEOREM OnePayoutOnly == NothingIsLost => (Spec => []OnePayoutOut)
<1>1. NothingIsLost /\ Init => NothingIsLost /\ PayoutInv
  BY InitPayout
<1>2. IInv /\ NothingIsLost /\ PayoutInv /\ [Next]_vars => (NothingIsLost /\ PayoutInv)'
  <2> SUFFICES ASSUME IInv, NothingIsLost, PayoutInv, [Next]_vars PROVE PayoutInv'
    BY DEF NothingIsLost
  <2>1. CASE UNCHANGED vars
    BY <2>1, SurroundingsPayout
  <2>2. CASE Next
    BY <2>2, SurroundingsPayout, RequestPayout, WorkerPayout DEF Next
  <2> QED
    BY <2>1, <2>2
<1>3. IInv /\ NothingIsLost /\ PayoutInv => OnePayoutOut
  BY OneIsOut
<1> QED
  BY <1>1, <1>2, <1>3, Invariance, PTL DEF Spec

=============================================================================
