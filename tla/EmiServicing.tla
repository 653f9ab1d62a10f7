---------------------------- MODULE EmiServicing ----------------------------
(***************************************************************************)
(* The collection of the EMIs of ONE loan account: the eNACH debits of     *)
(* nachDebit.job and debitRetry.job (payments.service.processNachDebit),   *)
(* the gateway webhooks that confirm them, payment links, cash, waivers,   *)
(* the nightly jobs, and the in-process event handlers that write to the   *)
(* same rows.                                                              *)
(*                                                                         *)
(* Calls interleave at every await.  A run of a debit job is a member of   *)
(* Jobs and goes through the EMIs of its query, an execution of the webhook*)
(* endpoint is a member of Workers, a cash or waiver call a member of      *)
(* Clerks.  Runs of one job exclude each other by a Redis lock of 10       *)
(* minutes that is not renewed, so a long run may overlap the next.        *)
(* Amounts are abstracted to what a payment covers: all that is due, part  *)
(* of principal and interest, or no more than (part of) the penalty.       *)
(***************************************************************************)
EXTENDS Naturals, FiniteSets

CONSTANTS
    LastEmi,      \* EMIs are 1..LastEmi; EMI e falls due on day e
    LastDay,      \* bound on the days modelled
    RetryLimit,   \* ENACH_RETRY_LIMIT
    RetryDays,    \* ENACH_RETRY_INTERVAL_DAYS, in modelled days
    NpaDays,      \* NPA_TRIGGER_DAYS, in modelled days
    MaxAttempts,  \* bound on debit_attempt_no
    NachRuns,     \* runs of nachDebit.job that overlap
    RetryRuns,    \* runs of debitRetry.job that overlap
    Workers, Clerks,
    Links,        \* gateway payments made through a payment link
    None,
    SyncCapture,  \* may the gateway answer a debit "captured" at once?
    LostReplies,  \* may a debit reach the gateway and still throw?
    Amounts,      \* what payments may cover
    Crashes       \* may the instance die with calls and events in flight, and a posting fail?

ASSUME BoundsAssumption ==
    /\ LastEmi \in Nat \ {0} /\ LastDay \in Nat \ {0} /\ MaxAttempts \in Nat \ {0}
    /\ RetryLimit \in Nat /\ RetryDays \in Nat /\ NpaDays \in Nat
Jobs == NachRuns \cup RetryRuns

ASSUME ProcessAssumption ==
    /\ NachRuns \cap RetryRuns = {}
    /\ Jobs \cap Workers = {} /\ Jobs \cap Clerks = {} /\ Workers \cap Clerks = {}
ASSUME SwitchesAssumption ==
    /\ SyncCapture \in BOOLEAN /\ LostReplies \in BOOLEAN
    /\ Amounts \subseteq {"all", "part", "penalty"} /\ Crashes \in BOOLEAN

Emis    == 1..LastEmi
Days    == 1..LastDay
Procs   == Jobs \cup Workers \cup Clerks
\* An ENACH payments row by its unique key (emi_id, debit_attempt_no), and also
\* the gateway payment that processNachDebit asked for under that key
Debit   == Emis \X (1..MaxAttempts)
Event   == [kind : {"charged"}, of : Debit] \cup [kind : {"captured", "failed"}, of : Links]
\* Event-bus listeners waiting to run, or half-way through
Retry   == 0..(LastDay + RetryDays)
Task    == [do : {"mark-paid", "check-closure", "close", "check-npa", "set-npa"}, emi : Emis]
           \cup [do : {"apply-bounce", "write-bounce"}, emi : Emis, retry : Retry]

ASSUME NoneAssumption == None \notin Procs \cup Emis \cup Debit \cup Links \cup Event
ASSUME LinksAssumption == Links \cap Debit = {}

VARIABLES
    today,
    account,     \* loan_accounts.status
    mandate,     \* the account's mandate id is set and its mandate row ACTIVE
    emi,         \* emi_schedule.status
    bounces,     \* emi_schedule.bounce_count
    retryAt,     \* emi_schedule.next_retry_at as a day, 0 for null
    debit,       \* payments.status of the ENACH rows
    born,        \* rank of an ENACH row by initiated_at, 0 if a webhook made it
    txn,         \* payments.gateway_txn_id of the ENACH rows
    link,        \* payments.status of the row of a link payment
    linkOf,      \* the EMI in the notes of the link
    processed,   \* link payments whose Redis key webhookProcessed is set
    cash,        \* number of CASH rows of each EMI
    gl,          \* number of EMI_COLLECTION postings of each EMI
    gateway,     \* what the gateway did with a debit
    asked,       \* number of debitMandate calls for each debit
    sent,        \* events the gateway has sent
    acked,       \* events answered 200
    bus,         \* number of listeners of each Task that are due
    pc, at,      \* next step of a call and the EMI it works on
    visited,     \* EMIs a run has already come to today
    batch,       \* EMIs its query returned and it has not come to yet
    no,          \* attempt, later the bounce count, a debit call has read
    event, row,  \* the event and the payments row of a webhook execution
    watching,    \* EMIs npaWatch.job has read and not yet marked
    stale,       \* rows the settlement job has read and not yet resolved
    resolving    \* the link row it resolves, and whether it found the EMI paid

loanVars  == <<today, account, mandate>>
emiVars   == <<emi, bounces, retryAt>>
debitVars == <<debit, born, txn>>
linkVars  == <<link, linkOf, processed>>
bookVars  == <<cash, gl>>
rowVars   == <<debitVars, linkVars, bookVars>>
bankVars  == <<gateway, asked, sent>>
localVars == <<at, visited, no, event, row>>
callVars  == <<pc, localVars>>
\* What the scheduled jobs have read and not yet acted upon
readVars == <<batch, watching, stale, resolving>>
vars == <<loanVars, emiVars, rowVars, bankVars, acked, bus, callVars, readVars>>

EmiStatus == {"PENDING", "PAID", "PARTIAL", "OVERDUE", "BOUNCED", "WAIVED"}
RowStatus == {"NONE", "PENDING", "SUCCESS", "FAILED"}
SettlePc  == {"settle", "write", "post", "postNone", "announce"}
JobPc     == {"idle", "selected", "check", "create", "send", "waiting", "captured",
              "refused", "applyBounce", "markBounced"}
WorkerPc  == {"idle", "findTxn", "findPending", "migrate", "findLink", "linkEmi",
              "createLink", "success", "failure", "ack", "nack"} \cup SettlePc
ClerkPc   == {"idle", "cash", "waive", "done"} \cup SettlePc

TypeOK ==
    /\ today \in Days
    /\ account \in {"ACTIVE", "NPA", "CLOSED"}
    /\ mandate \in BOOLEAN
    /\ emi \in [Emis -> EmiStatus]
    /\ bounces \in [Emis -> Nat] /\ retryAt \in [Emis -> Retry]
    /\ debit \in [Debit -> RowStatus]
    /\ born \in [Debit -> Nat]
    /\ txn \in [Debit -> Debit \cup {None}]
    /\ link \in [Links -> RowStatus] /\ linkOf \in [Links -> Emis \cup {None}]
    /\ processed \subseteq Links
    /\ cash \in [Emis -> Nat] /\ gl \in [Emis -> Nat]
    /\ gateway \in [Debit -> {"none", "asked", "charged", "refused"}]
    /\ asked \in [Debit -> Nat]
    /\ sent \subseteq Event /\ acked \subseteq Event
    /\ bus \in [Task -> Nat]
    /\ pc \in [Procs -> JobPc \cup WorkerPc \cup ClerkPc]
    /\ at \in [Procs -> Emis \cup {None}]
    /\ visited \in [Jobs -> SUBSET Emis]
    /\ no \in [Jobs -> Nat]
    /\ event \in [Workers -> Event \cup {None}]
    /\ row \in [Workers -> Debit \cup Links \cup {None}]
    /\ watching \subseteq Emis
    /\ batch \in [Jobs -> SUBSET Emis]
    /\ stale \subseteq Debit \cup Links
    /\ resolving \in (Links \X BOOLEAN) \cup {None}

Init ==
    /\ today = 1
    /\ account = "ACTIVE" /\ mandate = TRUE
    /\ emi = [e \in Emis |-> "PENDING"]
    /\ bounces = [e \in Emis |-> 0] /\ retryAt = [e \in Emis |-> 0]
    /\ debit = [d \in Debit |-> "NONE"]
    /\ born = [d \in Debit |-> 0]
    /\ txn = [d \in Debit |-> None]
    /\ link = [l \in Links |-> "NONE"] /\ linkOf = [l \in Links |-> None]
    /\ processed = {}
    /\ cash = [e \in Emis |-> 0] /\ gl = [e \in Emis |-> 0]
    /\ gateway = [d \in Debit |-> "none"] /\ asked = [d \in Debit |-> 0]
    /\ sent = {} /\ acked = {}
    /\ bus = [t \in Task |-> 0]
    /\ pc = [p \in Procs |-> "idle"] /\ at = [p \in Procs |-> None]
    /\ visited = [j \in Jobs |-> {}]
    /\ no = [j \in Jobs |-> 0]
    /\ event = [w \in Workers |-> None] /\ row = [w \in Workers |-> None]
    /\ batch = [j \in Jobs |-> {}]
    /\ watching = {} /\ stale = {} /\ resolving = None

Goto(p, next) == pc' = [pc EXCEPT ![p] = next]
\* A debit call returns, and the job goes on to its next EMI
Return(j) ==
    Goto(j, "idle") /\ at' = [at EXCEPT ![j] = None] /\ no' = [no EXCEPT ![j] = 0]
Continue(j, next) == Goto(j, next) /\ UNCHANGED <<at, no>>

SetEmi(e, status) == emi' = [emi EXCEPT ![e] = status]

\* payment.received and emi.bounced: emit queues one run of each listener
Received(e) == {[do |-> "mark-paid", emi |-> e], [do |-> "check-closure", emi |-> e]}
Emit(tasks) == bus' = [t \in Task |-> IF t \in tasks THEN bus[t] + 1 ELSE bus[t]]
-----------------------------------------------------------------------------
(* The calendar, and the jobs that select EMIs to debit                    *)

\* A day ends when its debit runs are through and its listeners have run: both
\* take minutes at most.  Webhooks may arrive on any day.
NextDay ==
    /\ today < LastDay
    /\ \A j \in Jobs : pc[j] = "idle" /\ batch[j] = {}
    /\ \A t \in Task : bus[t] = 0
    /\ watching = {} /\ stale = {} /\ resolving = None
    /\ today' = today + 1
    /\ visited' = [j \in Jobs |-> {}]
    /\ UNCHANGED <<account, mandate, emiVars, rowVars, bankVars, acked, bus, pc, at,
                   no, event, row, readVars>>

CancelMandate ==
    /\ mandate
    /\ mandate' = FALSE
    /\ UNCHANGED <<today, account, emiVars, rowVars, bankVars, acked, bus, callVars,
                   readVars>>

\* nachDebit.job: the batch query
DueToday == {e \in Emis : emi[e] \in {"PENDING", "PARTIAL"} /\ e = today}

\* Mutant of DueForRetry: one bounce too many
DueForRetryOnceMore ==
    {e \in Emis : emi[e] = "BOUNCED" /\ retryAt[e] # 0 /\ retryAt[e] <= today /\ bounces[e] <= RetryLimit}

\* debitRetry.job
DueForRetry ==
    {e \in Emis : /\ emi[e] = "BOUNCED"
                  /\ retryAt[e] # 0 /\ retryAt[e] <= today
                  /\ bounces[e] < RetryLimit}

\* The query of a run, once a day.  Both jobs test the account and the mandate of each
\* row as the query returned it, so that neither is looked at again.
ReadBatch(j) ==
    /\ pc[j] = "idle" /\ batch[j] = {} /\ visited[j] = {}
    /\ account = "ACTIVE" /\ mandate
    /\ batch' = [batch EXCEPT ![j] = IF j \in NachRuns THEN DueToday ELSE DueForRetry]
    /\ UNCHANGED <<loanVars, emiVars, rowVars, bankVars, acked, bus, callVars, watching,
                   stale, resolving>>

\* The run comes to one EMI of its batch
Select(j, e) ==
    /\ pc[j] = "idle"
    /\ e \in batch[j]
    /\ Goto(j, "selected")
    /\ at' = [at EXCEPT ![j] = e]
    /\ visited' = [visited EXCEPT ![j] = @ \cup {e}]
    /\ batch' = [batch EXCEPT ![j] = @ \ {e}]
    /\ UNCHANGED <<loanVars, emiVars, rowVars, bankVars, acked, bus, no, event, row,
                   watching, stale, resolving>>

-----------------------------------------------------------------------------
(* processNachDebit                                                        *)

Key(j) == <<at[j], no[j]>>

\* The jobs catch EmiAlreadyPaidError and go on to the next EMI
ReadEmi(j) ==
    /\ pc[j] = "selected"
    /\ bounces[at[j]] < MaxAttempts
    /\ IF emi[at[j]] = "PAID"
       THEN Return(j)
       ELSE /\ Goto(j, "check") /\ UNCHANGED at
            /\ no' = [no EXCEPT ![j] = bounces[at[j]] + 1]
    /\ UNCHANGED <<loanVars, emiVars, rowVars, bankVars, acked, bus, visited, event,
                   row, readVars>>

FindExistingDebit(j) ==
    /\ pc[j] = "check"
    /\ IF debit[Key(j)] = "NONE" THEN Continue(j, "create") ELSE Return(j)
    /\ UNCHANGED <<loanVars, emiVars, rowVars, bankVars, acked, bus, visited, event,
                   row, readVars>>

Rows == {d \in Debit : debit[d] # "NONE"}

\* Mutant of CreateDebit: no unique index
CreateDebitAgain(j) ==
    /\ pc[j] = "create"
    /\ debit' = [debit EXCEPT ![Key(j)] = "PENDING"]
    /\ born' = [born EXCEPT ![Key(j)] = Cardinality(Rows) + 1]
    /\ Continue(j, "send")
    /\ UNCHANGED <<loanVars, emiVars, txn, linkVars, bookVars, bankVars, acked, bus,
                   visited, event, row, readVars>>

\* The unique index turns the insert of a concurrent call into a P2002, after
\* which that call returns the row it finds
CreateDebit(j) ==
    /\ pc[j] = "create"
    /\ IF debit[Key(j)] # "NONE"
       THEN Return(j) /\ UNCHANGED <<debit, born>>
       ELSE /\ debit' = [debit EXCEPT ![Key(j)] = "PENDING"]
            /\ born' = [born EXCEPT ![Key(j)] = Cardinality(Rows) + 1]
            /\ Continue(j, "send")
    /\ UNCHANGED <<loanVars, emiVars, txn, linkVars, bookVars, bankVars, acked, bus,
                   visited, event, row, readVars>>

\* debitMandate, with maxAttempts 1
SendDebit(j) ==
    /\ pc[j] = "send"
    /\ gateway' = [gateway EXCEPT ![Key(j)] = "asked"]
    /\ asked' = [asked EXCEPT ![Key(j)] = @ + 1]
    /\ Goto(j, "waiting")
    /\ UNCHANGED <<loanVars, emiVars, rowVars, sent, acked, bus, localVars,
                   readVars>>

\* Mutant of DebitReply: a debit that was accepted is taken as made
AcceptedReply(j, reply) ==
    /\ pc[j] = "waiting"
    /\ \/ reply = "pending" /\ Continue(j, "captured")
       \/ reply = "error" /\ (LostReplies \/ gateway[Key(j)] = "refused") /\ Continue(j, "refused")
    /\ UNCHANGED <<loanVars, emiVars, rowVars, bankVars, acked, bus, visited, event,
                   row, readVars>>

\* Replies "PENDING" and "FAILED" both leave the row PENDING
DebitReply(j, reply) ==
    /\ pc[j] = "waiting"
    /\ \/ reply = "pending" /\ Return(j)
       \/ reply = "captured" /\ SyncCapture /\ gateway[Key(j)] = "charged" /\ Continue(j, "captured")
       \/ reply = "error" /\ (LostReplies \/ gateway[Key(j)] = "refused") /\ Continue(j, "refused")
    /\ UNCHANGED <<loanVars, emiVars, rowVars, bankVars, acked, bus, visited, event,
                   row, readVars>>

\* markPaymentSuccess without a gateway transaction id
MarkCaptured(j) ==
    /\ pc[j] = "captured"
    /\ debit' = [debit EXCEPT ![Key(j)] = "SUCCESS"]
    /\ Return(j)
    /\ UNCHANGED <<loanVars, emiVars, born, txn, linkVars, bookVars, bankVars, acked,
                   bus, visited, event, row, readVars>>

MarkDebitFailed(j) ==
    /\ pc[j] = "refused"
    /\ debit' = [debit EXCEPT ![Key(j)] = "FAILED"]
    /\ Goto(j, "applyBounce")
    /\ UNCHANGED <<loanVars, emiVars, born, txn, linkVars, bookVars, bankVars, acked,
                   bus, localVars, readVars>>

\* applyBounce reads the EMI ...
ApplyBounce(j) ==
    /\ pc[j] = "applyBounce"
    /\ IF emi[at[j]] = "PAID"
       THEN Return(j)
       ELSE /\ Goto(j, "markBounced") /\ UNCHANGED at
            /\ no' = [no EXCEPT ![j] = bounces[at[j]] + 1]
    /\ UNCHANGED <<loanVars, emiVars, rowVars, bankVars, acked, bus, visited, event,
                   row, readVars>>

\* Mutant of NextRetry: the interval grows with each bounce
NextRetryBackoff(count) == IF count < RetryLimit THEN today + RetryDays * (count + 1) ELSE 0

\* ... and, after the write of the penalty, writes it and emits emi.bounced with
\* the count it computed from what it read
NextRetry(count) == IF count < RetryLimit THEN today + RetryDays ELSE 0

Bounced(e, count) ==
    {[do |-> "apply-bounce", emi |-> e, retry |-> NextRetry(count)]}
    \cup (IF count >= RetryLimit THEN {[do |-> "check-npa", emi |-> e]} ELSE {})

MarkBounced(j) ==
    /\ pc[j] = "markBounced"
    /\ SetEmi(at[j], "BOUNCED")
    /\ bounces' = [bounces EXCEPT ![at[j]] = @ + 1]
    /\ retryAt' = [retryAt EXCEPT ![at[j]] = NextRetry(no[j])]
    /\ Emit(Bounced(at[j], no[j]))
    /\ Return(j)
    /\ UNCHANGED <<loanVars, rowVars, bankVars, acked, visited, event, row,
                   readVars>>

-----------------------------------------------------------------------------
(* The gateway                                                             *)

GatewayCharges(d) ==
    /\ gateway[d] = "asked"
    /\ gateway' = [gateway EXCEPT ![d] = "charged"]
    /\ sent' = sent \cup {[kind |-> "charged", of |-> d]}
    /\ UNCHANGED <<loanVars, emiVars, rowVars, asked, acked, bus, callVars,
                   readVars>>

\* No webhook tells of it: payment.failed is looked up by a gateway transaction
\* id, which an ENACH row awaiting its confirmation does not have
GatewayRefuses(d) ==
    /\ gateway[d] = "asked"
    /\ gateway' = [gateway EXCEPT ![d] = "refused"]
    /\ UNCHANGED <<loanVars, emiVars, rowVars, asked, sent, acked, bus, callVars,
                   readVars>>

\* createPaymentLink, and the customer's payment through that link
CreatePaymentLink(l, e) ==
    /\ linkOf[l] = None
    /\ emi[e] # "PAID"
    /\ linkOf' = [linkOf EXCEPT ![l] = e]
    /\ UNCHANGED <<loanVars, emiVars, debitVars, link, processed, bookVars, bankVars,
                   acked, bus, callVars, readVars>>

CustomerPays(l, kind) ==
    /\ linkOf[l] # None
    /\ [kind |-> kind, of |-> l] \notin sent
    /\ kind = "failed" \/ kind = "captured"
    /\ sent' = sent \cup {[kind |-> kind, of |-> l]}
    /\ UNCHANGED <<loanVars, emiVars, rowVars, gateway, asked, acked, bus, callVars,
                   readVars>>

-----------------------------------------------------------------------------
(* processRazorpayWebhook                                                  *)

\* The gateway delivers again until it is answered 200, and the copies of an
\* event may be handled at the same time
Deliver(w, ev) ==
    /\ pc[w] = "idle"
    /\ ev \in sent \ acked
    /\ event' = [event EXCEPT ![w] = ev]
    /\ Goto(w, CASE ev.kind = "charged"  -> "findTxn"
                 [] ev.kind = "captured" -> "findLink"
                 [] ev.kind = "failed"   -> "failure")
    /\ UNCHANGED <<loanVars, emiVars, rowVars, bankVars, acked, bus, at, visited, no,
                   row, readVars>>

\* _handleNachCharged
FindByGatewayTxnId(w) ==
    /\ pc[w] = "findTxn"
    /\ LET found == {d \in Debit : txn[d] = event[w].of}
       IN  \/ /\ \E d \in found : debit[d] = "SUCCESS"
              /\ Goto(w, "ack") /\ UNCHANGED row
           \/ \E d \in found :
              /\ debit[d] # "SUCCESS"
              /\ row' = [row EXCEPT ![w] = d] /\ Goto(w, "success")
           \/ found = {} /\ Goto(w, "findPending") /\ UNCHANGED row
    /\ UNCHANGED <<loanVars, emiVars, rowVars, bankVars, acked, bus, at, visited, no,
                   event, readVars>>

\* findLatestPendingByMandateId: rows made for a migrated mandate carry the id
\* of the mandate's row, not the gateway's, and are not found
Awaiting == {d \in Debit : debit[d] = "PENDING" /\ born[d] > 0}

FindLatestPending(w) ==
    /\ pc[w] = "findPending"
    /\ \/ /\ Awaiting = {}
          /\ Goto(w, "migrate") /\ UNCHANGED row
       \/ \E d \in Awaiting :
          /\ \A other \in Awaiting : born[other] <= born[d]
          /\ row' = [row EXCEPT ![w] = d] /\ Goto(w, "success")
    /\ UNCHANGED <<loanVars, emiVars, rowVars, bankVars, acked, bus, at, visited, no,
                   event, readVars>>

Due == {e \in Emis : emi[e] \in {"PENDING", "BOUNCED", "PARTIAL"}}

\* The branch for migrated mandates: findNextDueEmi and an ENACH row for its
\* first attempt; the insert throws when that attempt already has its row.  The
\* debits of this system carry no notes that could name another EMI.
CreateForNextDue(w) ==
    /\ pc[w] = "migrate"
    /\ \/ /\ Due = {}
          /\ Goto(w, "ack") /\ UNCHANGED <<debit, row>>
       \/ \E e \in Due :
          /\ \A other \in Due : e <= other
          /\ IF debit[<<e, 1>>] # "NONE"
             THEN Goto(w, "nack") /\ UNCHANGED <<debit, row>>
             ELSE /\ debit' = [debit EXCEPT ![<<e, 1>>] = "PENDING"]
                  /\ row' = [row EXCEPT ![w] = <<e, 1>>]
                  /\ Goto(w, "success")
    /\ UNCHANGED <<loanVars, emiVars, born, txn, linkVars, bookVars, bankVars, acked,
                   bus, at, visited, no, event, readVars>>

\* Mutant of ConfirmDebit: gateway_txn_id is not unique
ConfirmDebitAgain(w) ==
    /\ pc[w] = "success" /\ event[w].kind = "charged"
    /\ debit' = [debit EXCEPT ![row[w]] = "SUCCESS"]
    /\ txn' = [txn EXCEPT ![row[w]] = event[w].of]
    /\ Goto(w, "settle")
    /\ UNCHANGED <<loanVars, emiVars, born, linkVars, bookVars, bankVars, acked, bus,
                   localVars, readVars>>

\* markPaymentSuccess with the gateway's id, which is unique
ConfirmDebit(w) ==
    /\ pc[w] = "success" /\ event[w].kind = "charged"
    /\ IF \E d \in Debit \ {row[w]} : txn[d] = event[w].of
       THEN Goto(w, "nack") /\ UNCHANGED <<debit, txn>>
       ELSE /\ debit' = [debit EXCEPT ![row[w]] = "SUCCESS"]
            /\ txn' = [txn EXCEPT ![row[w]] = event[w].of]
            /\ Goto(w, "settle")
    /\ UNCHANGED <<loanVars, emiVars, born, linkVars, bookVars, bankVars, acked, bus,
                   localVars, readVars>>

\* _handlePaymentCaptured: the Redis key and the row ...
FindLinkPayment(w) ==
    /\ pc[w] = "findLink"
    /\ LET l == event[w].of IN
       /\ IF l \in processed \/ link[l] = "SUCCESS"
          THEN Goto(w, "ack") /\ UNCHANGED row
          ELSE /\ Goto(w, "linkEmi")
               /\ row' = [row EXCEPT ![w] = IF link[l] = "NONE" THEN None ELSE l]
       /\ processed' = IF link[l] = "SUCCESS" THEN processed \cup {l} ELSE processed
    /\ UNCHANGED <<loanVars, emiVars, debitVars, link, linkOf, bookVars, bankVars,
                   acked, bus, at, visited, no, event, readVars>>

\* ... and the EMI's status
CheckLinkEmi(w) ==
    /\ pc[w] = "linkEmi"
    /\ LET l == event[w].of IN
       IF emi[linkOf[l]] = "PAID"
       THEN Goto(w, "ack") /\ processed' = processed \cup {l}
       ELSE Goto(w, IF row[w] = None THEN "createLink" ELSE "success") /\ UNCHANGED processed
    /\ UNCHANGED <<loanVars, emiVars, debitVars, link, linkOf, bookVars, bankVars,
                   acked, bus, localVars, readVars>>

\* A P2002 means that a concurrent delivery made the row: taken as processed
CreateLinkPayment(w) ==
    /\ pc[w] = "createLink"
    /\ LET l == event[w].of IN
       IF link[l] # "NONE"
       THEN Goto(w, "ack") /\ processed' = processed \cup {l} /\ UNCHANGED <<link, row>>
       ELSE /\ link' = [link EXCEPT ![l] = "PENDING"] /\ row' = [row EXCEPT ![w] = l]
            /\ Goto(w, "success") /\ UNCHANGED processed
    /\ UNCHANGED <<loanVars, emiVars, debitVars, linkOf, bookVars, bankVars, acked,
                   bus, at, visited, no, event, readVars>>

ConfirmLinkPayment(w) ==
    /\ pc[w] = "success" /\ event[w].kind = "captured"
    /\ link' = [link EXCEPT ![row[w]] = "SUCCESS"]
    /\ Goto(w, "settle")
    /\ UNCHANGED <<loanVars, emiVars, debitVars, linkOf, processed, bookVars,
                   bankVars, acked, bus, localVars, readVars>>

\* _handlePaymentFailed: whatever the status of the row it finds
PaymentFailed(w) ==
    /\ pc[w] = "failure"
    /\ LET l == event[w].of IN
       link' = IF link[l] = "NONE" THEN link ELSE [link EXCEPT ![l] = "FAILED"]
    /\ Goto(w, "ack")
    /\ UNCHANGED <<loanVars, emiVars, debitVars, linkOf, processed, bookVars,
                   bankVars, acked, bus, localVars, readVars>>

Answer(w) ==
    Goto(w, "idle") /\ event' = [event EXCEPT ![w] = None] /\ row' = [row EXCEPT ![w] = None]

Acknowledge(w) ==
    /\ pc[w] = "ack"
    /\ acked' = acked \cup {event[w]}
    /\ Answer(w)
    /\ UNCHANGED <<loanVars, emiVars, rowVars, bankVars, bus, at, visited, no,
                   readVars>>

\* The handler threw: 500, and the gateway will deliver again
Refuse(w) ==
    /\ pc[w] = "nack"
    /\ Answer(w)
    /\ UNCHANGED <<loanVars, emiVars, rowVars, bankVars, acked, bus, at, visited, no,
                   readVars>>

-----------------------------------------------------------------------------
(* recordCashPayment and waiveEmi                                          *)

Clerk(c, e, call) ==
    /\ pc[c] = "idle"
    /\ emi[e] # "PAID"
    /\ at' = [at EXCEPT ![c] = e]
    /\ Goto(c, call)
    /\ UNCHANGED <<loanVars, emiVars, rowVars, bankVars, acked, bus, visited, no,
                   event, row, readVars>>

RecordCashPayment(c) ==
    /\ pc[c] = "cash"
    /\ cash' = [cash EXCEPT ![at[c]] = @ + 1]
    /\ Goto(c, "settle")
    /\ UNCHANGED <<loanVars, emiVars, debitVars, linkVars, gl, bankVars, acked, bus,
                   localVars, readVars>>

WaiveEmi(c) ==
    /\ pc[c] = "waive"
    /\ SetEmi(at[c], "WAIVED")
    /\ Goto(c, "done")
    /\ UNCHANGED <<loanVars, bounces, retryAt, rowVars, bankVars, acked, bus,
                   localVars, readVars>>

-----------------------------------------------------------------------------
(* emiService.markPaid, for a webhook or a clerk                           *)

\* Mutant of EmiOf: a debit settles the next due EMI, not that of its row
NextDueEmiOf(p) ==
    IF p \in Clerks THEN at[p]
    ELSE IF Due # {} THEN CHOOSE e \in Due : \A other \in Due : e <= other ELSE row[p][1]

EmiOf(p) ==
    IF p \in Clerks THEN at[p]
    ELSE IF row[p] \in Debit THEN row[p][1] ELSE linkOf[row[p]]

Thrown(p) == IF p \in Workers THEN "nack" ELSE "done"

\* Mutant of CheckUnpaid: a bounced EMI takes no payment
CheckNotBounced(p) ==
    /\ pc[p] = "settle"
    /\ Goto(p, IF emi[EmiOf(p)] \notin {"PAID", "WAIVED", "BOUNCED"} THEN "write" ELSE Thrown(p))
    /\ UNCHANGED <<loanVars, emiVars, rowVars, bankVars, acked, bus, localVars,
                   readVars>>

CheckUnpaid(p) ==
    /\ pc[p] = "settle"
    /\ Goto(p, IF emi[EmiOf(p)] \notin {"PAID", "WAIVED"} THEN "write" ELSE Thrown(p))
    /\ UNCHANGED <<loanVars, emiVars, rowVars, bankVars, acked, bus, localVars,
                   readVars>>

\* allocatePartialPayment settles penalty, interest and principal in this order and
\* decides between the two writes ...
MarkPaid(p, covers) ==
    /\ pc[p] = "write"
    /\ SetEmi(EmiOf(p), IF covers = "all" THEN "PAID" ELSE "PARTIAL")
    /\ Goto(p, IF covers = "penalty" THEN "postNone" ELSE "post")
    /\ UNCHANGED <<loanVars, bounces, retryAt, rowVars, bankVars, acked, bus,
                   localVars, readVars>>

\* Mutant of PostEmiCollection: a partial payment is not posted
PostFullCollection(p) ==
    /\ pc[p] \in {"post", "postNone"}
    /\ gl' = IF emi[EmiOf(p)] = "PAID" THEN [gl EXCEPT ![EmiOf(p)] = @ + 1] ELSE gl
    /\ Emit(Received(EmiOf(p)))
    /\ Goto(p, "announce")
    /\ UNCHANGED <<loanVars, emiVars, debitVars, linkVars, cash, bankVars, acked,
                   localVars, readVars>>

\* ... and the GL entry, of principal and interest, and the first payment.received
\* follow; postEntry swallows a failure of the database
PostEmiCollection(p) ==
    /\ pc[p] \in {"post", "postNone"}
    /\ \/ pc[p] = "post" /\ gl' = [gl EXCEPT ![EmiOf(p)] = @ + 1]
       \/ (pc[p] = "postNone" \/ Crashes) /\ UNCHANGED gl
    /\ Emit(Received(EmiOf(p)))
    /\ Goto(p, "announce")
    /\ UNCHANGED <<loanVars, emiVars, debitVars, linkVars, cash, bankVars, acked,
                   localVars, readVars>>

\* The caller sets the Redis key of a link payment and emits payment.received a
\* second time
Announce(p) ==
    /\ pc[p] = "announce"
    /\ processed' = IF p \in Workers THEN processed \cup ({row[p]} \cap Links) ELSE processed
    /\ Emit(Received(EmiOf(p)))
    /\ Goto(p, IF p \in Workers THEN "ack" ELSE "done")
    /\ UNCHANGED <<loanVars, emiVars, debitVars, link, linkOf, bookVars, bankVars,
                   acked, localVars, readVars>>

-----------------------------------------------------------------------------
(* The listeners of payment.received and emi.bounced                       *)

Ran(t) == bus' = [bus EXCEPT ![t] = @ - 1]

\* emi:mark-paid
MarkPaidListener(e) ==
    LET t == [do |-> "mark-paid", emi |-> e] IN
    /\ bus[t] > 0
    /\ SetEmi(e, "PAID")
    /\ Ran(t)
    /\ UNCHANGED <<loanVars, bounces, retryAt, rowVars, bankVars, acked, callVars,
                   readVars>>

\* A listener goes on after what it has read
Proceed(t, u) == bus' = [bus EXCEPT ![t] = @ - 1, ![u] = @ + 1]

\* loan:check-closure counts ...
CheckClosure(e) ==
    LET t == [do |-> "check-closure", emi |-> e] IN
    /\ bus[t] > 0
    /\ IF \E x \in Emis : emi[x] \in {"PENDING", "OVERDUE"}
       THEN Ran(t) ELSE Proceed(t, [t EXCEPT !.do = "close"])
    /\ UNCHANGED <<loanVars, emiVars, rowVars, bankVars, acked, callVars, readVars>>

\* ... and closes
CloseAccount(e) ==
    LET t == [do |-> "close", emi |-> e] IN
    /\ bus[t] > 0
    /\ account' = "CLOSED"
    /\ Ran(t)
    /\ UNCHANGED <<today, mandate, emiVars, rowVars, bankVars, acked, callVars,
                   readVars>>

\* emi:apply-bounce-penalty reads the EMI ...
ApplyBounceListener(e, r) ==
    LET t == [do |-> "apply-bounce", emi |-> e, retry |-> r] IN
    /\ bus[t] > 0
    /\ IF emi[e] = "PAID" THEN Ran(t) ELSE Proceed(t, [t EXCEPT !.do = "write-bounce"])
    /\ UNCHANGED <<loanVars, emiVars, rowVars, bankVars, acked, callVars, readVars>>

\* ... and then counts the bounce again
WriteBounceListener(e, r) ==
    LET t == [do |-> "write-bounce", emi |-> e, retry |-> r] IN
    /\ bus[t] > 0
    /\ SetEmi(e, "BOUNCED")
    /\ bounces' = [bounces EXCEPT ![e] = @ + 1]
    /\ retryAt' = [retryAt EXCEPT ![e] = r]
    /\ Ran(t)
    /\ UNCHANGED <<loanVars, rowVars, bankVars, acked, callVars, readVars>>

LongOverdue(e, statuses) == emi[e] \in statuses /\ e + NpaDays <= today

\* loan:check-npa-threshold, whatever the account's status by then
CheckNpa(e) ==
    LET t == [do |-> "check-npa", emi |-> e] IN
    /\ bus[t] > 0
    /\ IF \E x \in Emis : LongOverdue(x, {"OVERDUE", "BOUNCED"})
       THEN Proceed(t, [t EXCEPT !.do = "set-npa"]) ELSE Ran(t)
    /\ UNCHANGED <<loanVars, emiVars, rowVars, bankVars, acked, callVars, readVars>>

SetNpa(e) ==
    LET t == [do |-> "set-npa", emi |-> e] IN
    /\ bus[t] > 0
    /\ account' = "NPA"
    /\ Ran(t)
    /\ UNCHANGED <<today, mandate, emiVars, rowVars, bankVars, acked, callVars,
                   readVars>>

-----------------------------------------------------------------------------
(* npaWatch.job and settlement.job                                         *)

ReadOverdue(e) ==
    /\ account = "ACTIVE"
    /\ e < today
    /\ emi[e] \in {"PENDING", "PARTIAL"}
    /\ watching' = watching \cup {e}
    /\ UNCHANGED <<loanVars, emiVars, rowVars, bankVars, acked, bus, callVars,
                   batch, stale, resolving>>

MarkOverdue(e) ==
    /\ e \in watching
    /\ SetEmi(e, "OVERDUE")
    /\ watching' = watching \ {e}
    /\ UNCHANGED <<loanVars, bounces, retryAt, rowVars, bankVars, acked, bus,
                   callVars, batch, stale, resolving>>

MarkNpa ==
    /\ account = "ACTIVE"
    /\ \E e \in Emis : LongOverdue(e, {"OVERDUE", "BOUNCED", "PENDING", "PARTIAL"})
    /\ account' = "NPA"
    /\ UNCHANGED <<today, mandate, emiVars, rowVars, bankVars, acked, bus, callVars,
                   readVars>>

\* Step 1 of the settlement job, at 22:00, reads the rows pending for 10 minutes, some
\* of them in the hands of a delivery; the day's debit calls have returned
FindStale ==
    /\ stale = {} /\ resolving = None
    /\ \A j \in Jobs : pc[j] = "idle"
    /\ stale' = {d \in Debit : debit[d] = "PENDING"} \cup {l \in Links : link[l] = "PENDING"}
    /\ stale' # {}
    /\ UNCHANGED <<loanVars, emiVars, rowVars, bankVars, acked, bus, callVars,
                   batch, watching, resolving>>

\* A row without a gateway transaction id when it was read
FailStaleDebit(d) ==
    /\ d \in stale \cap Debit
    /\ resolving = None
    /\ debit' = [debit EXCEPT ![d] = "FAILED"]
    /\ stale' = stale \ {d}
    /\ UNCHANGED <<loanVars, emiVars, born, txn, linkVars, bookVars, bankVars, acked,
                   bus, callVars, batch, watching, resolving>>

\* The row of a link payment: the status of its EMI ...
ReadStaleLink(l) ==
    /\ l \in stale \cap Links
    /\ resolving = None
    /\ resolving' = <<l, emi[linkOf[l]] = "PAID">>
    /\ stale' = stale \ {l}
    /\ UNCHANGED <<loanVars, emiVars, rowVars, bankVars, acked, bus, callVars, batch,
                   watching>>

\* ... decides what is written over whatever the row has become
ResolveStaleLink ==
    /\ resolving # None
    /\ link' = [link EXCEPT ![resolving[1]] = IF resolving[2] THEN "SUCCESS" ELSE "FAILED"]
    /\ resolving' = None
    /\ UNCHANGED <<loanVars, emiVars, debitVars, linkOf, processed, bookVars,
                   bankVars, acked, bus, callVars, batch, watching, stale>>

-----------------------------------------------------------------------------
\* The instance dies: calls, queued listeners and job runs are gone
Crash ==
    /\ Crashes
    /\ pc' = [p \in Procs |-> IF p \in Clerks /\ pc[p] # "idle" THEN "done" ELSE "idle"]
    /\ at' = [p \in Procs |-> None] /\ no' = [j \in Jobs |-> 0]
    /\ event' = [w \in Workers |-> None] /\ row' = [w \in Workers |-> None]
    /\ bus' = [t \in Task |-> 0]
    /\ batch' = [j \in Jobs |-> {}]
    /\ watching' = {} /\ stale' = {} /\ resolving' = None
    /\ UNCHANGED <<loanVars, emiVars, rowVars, bankVars, acked, visited>>

DebitStep(j) ==
    \/ ReadEmi(j) \/ FindExistingDebit(j) \/ CreateDebit(j) \/ SendDebit(j)
    \/ \E reply \in {"pending", "captured", "error"} : DebitReply(j, reply)
    \/ MarkCaptured(j) \/ MarkDebitFailed(j) \/ ApplyBounce(j) \/ MarkBounced(j)

SettleStep(p) ==
    \/ CheckUnpaid(p)
    \/ \E covers \in Amounts : MarkPaid(p, covers)
    \/ PostEmiCollection(p) \/ Announce(p)

WebhookStep(w) ==
    \/ FindByGatewayTxnId(w) \/ FindLatestPending(w) \/ CreateForNextDue(w)
    \/ ConfirmDebit(w) \/ FindLinkPayment(w) \/ CheckLinkEmi(w)
    \/ CreateLinkPayment(w) \/ ConfirmLinkPayment(w) \/ PaymentFailed(w) \/ Acknowledge(w) \/ Refuse(w)
    \/ SettleStep(w)

ClerkStep(c) == RecordCashPayment(c) \/ WaiveEmi(c) \/ SettleStep(c)

Listen(e) ==
    \/ MarkPaidListener(e) \/ CheckClosure(e) \/ CloseAccount(e) \/ CheckNpa(e) \/ SetNpa(e)
    \/ \E r \in Retry : ApplyBounceListener(e, r) \/ WriteBounceListener(e, r)

GatewayNext ==
    \/ \E d \in Debit : GatewayCharges(d) \/ GatewayRefuses(d)
    \/ \E l \in Links, e \in Emis : CreatePaymentLink(l, e)
    \/ \E l \in Links, kind \in {"captured", "failed"} : CustomerPays(l, kind)

ResolveStale ==
    \/ \E d \in Debit : FailStaleDebit(d)
    \/ \E l \in Links : ReadStaleLink(l)
    \/ ResolveStaleLink

NightJobs ==
    \/ \E e \in Emis : ReadOverdue(e) \/ MarkOverdue(e)
    \/ MarkNpa
    \/ FindStale \/ ResolveStale

Next ==
    \/ NextDay \/ CancelMandate \/ Crash
    \/ \E j \in Jobs : DebitStep(j) \/ ReadBatch(j) \/ \E e \in Emis : Select(j, e)
    \/ \E w \in Workers : WebhookStep(w) \/ \E ev \in Event : Deliver(w, ev)
    \/ \E c \in Clerks : ClerkStep(c) \/ \E e \in Emis : Clerk(c, e, "cash") \/ Clerk(c, e, "waive")
    \/ \E e \in Emis : Listen(e)
    \/ GatewayNext
    \/ NightJobs

Spec == Init /\ [][Next]_vars

\* A debit call or a webhook execution under way goes on, and the gateway
\* delivers what is not acknowledged
Fairness ==
    /\ \A j \in Jobs : WF_vars(DebitStep(j))
    /\ \A w \in Workers : WF_vars(WebhookStep(w))
    /\ \A ev \in Event : SF_vars(\E w \in Workers : Deliver(w, ev))

FairSpec == Spec /\ Fairness

-----------------------------------------------------------------------------
(* Properties                                                              *)

\* An attempt to debit an EMI is sent to the bank once, whatever runs of the
\* jobs overlap and whenever the instance dies: the row is written first and
\* its key is unique.
OneDebitPerAttempt == \A d \in Debit : asked[d] <= 1

\* ENACH_RETRY_LIMIT: no attempt beyond it is sent to the bank.
WithinRetryLimit == \A d \in Debit : asked[d] > 0 => d[2] <= RetryLimit

Charged(d) == txn[d] # None /\ gateway[txn[d]] = "charged"

PaidByLink(e) == \E l \in Links : linkOf[l] = e /\ [kind |-> "captured", of |-> l] \in sent

Collected(e) ==
    \/ cash[e] > 0
    \/ \E d \in Debit : d[1] = e /\ Charged(d)
    \/ PaidByLink(e)

\* An EMI that is PAID, or has a posting in the ledger, received money: cash, a
\* captured link payment, or a charge the gateway made that its row names.
PaidIsBacked == \A e \in Emis : emi[e] = "PAID" \/ gl[e] > 0 => Collected(e)

\* A debit recorded as a success is one the bank made.
SuccessIsCharged ==
    \A d \in Debit : debit[d] = "SUCCESS" => Charged(d) \/ gateway[d] = "charged"

Booked(e) == gl[e] > 0 \/ emi[e] = "WAIVED"

\* A debit the bank has confirmed by webhook reaches the ledger, unless the EMI
\* is waived, as long as no instance dies in between and payments cover more than
\* the penalty, which nothing posts: also when the copies of the webhook are handled
\* at the same time and one of them fails.
ChargedIsBooked == \A d \in Debit : txn[d] # None ~> Booked(d[1])

\* A captured link payment answered 200 reaches the ledger, unless the EMI is
\* waived, as long as no instance dies in between: also when the answer came from
\* a delivery that found the row of a concurrent one and left the rest to it.
CapturedIsBooked ==
    \A l \in Links, e \in Emis :
        linkOf[l] = e /\ [kind |-> "captured", of |-> l] \in acked ~> Booked(e)

Collection ==
    INSTANCE LoanCollection WITH
        Attempts <- 1..MaxAttempts, bank <- gateway, status <- debit, charge <- txn, posted <- gl,
        received <- {e \in Emis : cash[e] > 0 \/ PaidByLink(e)},
        paid     <- {e \in Emis : emi[e] = "PAID"}

\* Jobs, webhooks, listeners, clerks and crashes implement LoanCollection: the bank is
\* asked once and for a recorded debit, two rows never share a charge, and an EMI is
\* paid or posted only when money of its own came in.
ImplementsCollection == Collection!Spec
=============================================================================
