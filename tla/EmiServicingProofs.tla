------------------------- MODULE EmiServicingProofs -------------------------
(***************************************************************************)
(* Safety of EmiServicing for every number of EMIs, days and attempts, any *)
(* jobs, workers, clerks and links, and every combination of the switches. *)
(***************************************************************************)
EXTENDS EmiServicing, FiniteSetTheorems, TLAPS

\* What a debit call knows: the EMI it works on and, from its first read until
\* the bank has answered, the attempt
JobsKnow ==
    \A j \in Jobs :
        /\ pc[j] \in JobPc
        /\ pc[j] # "idle" => at[j] \in Emis
        /\ pc[j] \in {"check", "create", "send", "waiting", "captured", "refused"}
               => no[j] \in 1..MaxAttempts

\* A clerk's payment is on record before it is settled
ClerksKnow ==
    \A c \in Clerks :
        /\ pc[c] \in ClerkPc
        /\ pc[c] \notin {"idle", "done"} => at[c] \in Emis
        /\ pc[c] \in SettlePc => cash[at[c]] > 0

\* What a webhook execution knows of its event and of the row it handles
HandlesCharge(w) == event[w].kind = "charged" /\ row[w] \in Debit
HandlesLink(w)   == event[w].kind = "captured" /\ row[w] = event[w].of

Knows(w) ==
    /\ pc[w] \in WorkerPc
    /\ pc[w] # "idle" => event[w] \in sent
    /\ pc[w] \in {"findTxn", "findPending", "migrate"} => event[w].kind = "charged"
    /\ pc[w] \in {"findLink", "linkEmi", "createLink"} => event[w].kind = "captured"
    /\ pc[w] = "linkEmi" => row[w] \in {None, event[w].of}
    /\ pc[w] = "createLink" => row[w] = None
    /\ pc[w] = "failure" => event[w].kind = "failed"
    /\ pc[w] = "success" => HandlesCharge(w) \/ HandlesLink(w)
    /\ pc[w] \in SettlePc => HandlesLink(w) \/ (HandlesCharge(w) /\ Charged(row[w]))

WorkersKnow == \A w \in Workers : Knows(w)

\* The row and its unique key come before the call to the bank, and of two calls
\* about to make it the keys differ
SentOnce ==
    /\ \A d \in Debit : /\ asked[d] > 0 => debit[d] # "NONE"
                        /\ gateway[d] # "none" => asked[d] > 0
    /\ \A j \in Jobs :
        /\ pc[j] = "send" => debit[Key(j)] # "NONE" /\ asked[Key(j)] = 0
        /\ pc[j] = "captured" => gateway[Key(j)] = "charged"
    /\ \A j, k \in Jobs : j # k /\ pc[j] = "send" /\ pc[k] = "send" => Key(j) # Key(k)

\* The gateway only announces what it did, and a row only names such a charge
SentIsTrue ==
    /\ \A ev \in sent : ev.kind = "charged" => gateway[ev.of] = "charged"
    /\ \A ev \in sent : ev.kind # "charged" => linkOf[ev.of] # None
    /\ \A d \in Debit : txn[d] # None => gateway[txn[d]] = "charged"

\* A listener is only due to mark paid what was collected
BusIsBacked == \A e \in Emis : bus[[do |-> "mark-paid", emi |-> e]] > 0 => Collected(e)

IInv ==
    /\ TypeOK
    /\ JobsKnow /\ ClerksKnow /\ WorkersKnow
    /\ SentOnce
    /\ SentIsTrue
    /\ BusIsBacked
    /\ OneDebitPerAttempt
    /\ PaidIsBacked
    /\ SuccessIsCharged
-----------------------------------------------------------------------------
(* Types                                                                   *)

\* The key of an ENACH row is an EMI and an attempt
LEMMA DebitType == \A d \in Debit : d[1] \in Emis /\ d[2] \in 1..MaxAttempts /\ d = <<d[1], d[2]>>
BY DEF Debit

\* An event is of a debit or of a link, by its kind
LEMMA EventType ==
    ASSUME NEW ev \in Event
    PROVE  /\ ev.kind \in {"charged", "captured", "failed"}
           /\ ev.kind = "charged" => ev.of \in Debit
           /\ ev.kind # "charged" => ev.of \in Links
BY DEF Event

\* The listeners of an EMI are tasks of the bus
LEMMA TaskType ==
    /\ \A e \in Emis, do \in {"mark-paid", "check-closure", "close", "check-npa", "set-npa"} :
           [do |-> do, emi |-> e] \in Task
    /\ \A e \in Emis, r \in Retry, do \in {"apply-bounce", "write-bounce"} :
           [do |-> do, emi |-> e, retry |-> r] \in Task
BY DEF Task

\* There are finitely many ENACH rows, so born is a number
LEMMA RowsAreCounted == Cardinality(Rows) \in Nat
<1>1. IsFiniteSet(Debit)
  <2>1. IsFiniteSet(Emis) /\ IsFiniteSet(1..MaxAttempts)
    BY BoundsAssumption, FS_Interval DEF Emis
  <2> QED
    BY <2>1, FS_Product DEF Debit
<1>2. IsFiniteSet(Rows)
  BY <1>1, FS_Subset DEF Rows
<1> QED
  BY <1>2, FS_CardinalityType

\* The invariant holds at first
LEMMA InitIInv == Init => IInv
<1> SUFFICES ASSUME Init PROVE IInv
  OBVIOUS
<1>1. TypeOK
  <2>1. mandate \in BOOLEAN
    BY Zenon DEF Init
  <2>2. today \in Days /\ retryAt \in [Emis -> Retry]
    BY BoundsAssumption DEF Init, Days, Retry
  <2>3. pc \in [Procs -> JobPc \cup WorkerPc \cup ClerkPc]
    BY DEF Init, JobPc
  <2>4. emi \in [Emis -> EmiStatus] /\ debit \in [Debit -> RowStatus] /\ link \in [Links -> RowStatus]
    BY DEF Init, EmiStatus, RowStatus
  <2>5. /\ account \in {"ACTIVE", "NPA", "CLOSED"}
        /\ bounces \in [Emis -> Nat] /\ born \in [Debit -> Nat] /\ txn \in [Debit -> Debit \cup {None}]
        /\ linkOf \in [Links -> Emis \cup {None}] /\ processed \subseteq Links
        /\ cash \in [Emis -> Nat] /\ gl \in [Emis -> Nat] /\ asked \in [Debit -> Nat]
        /\ gateway \in [Debit -> {"none", "asked", "charged", "refused"}]
    BY DEF Init
  <2>6. /\ sent \subseteq Event /\ acked \subseteq Event /\ bus \in [Task -> Nat]
        /\ at \in [Procs -> Emis \cup {None}]
        /\ visited \in [Jobs -> SUBSET Emis] /\ no \in [Jobs -> Nat]
        /\ event \in [Workers -> Event \cup {None}] /\ row \in [Workers -> Debit \cup Links \cup {None}]
        /\ watching \subseteq Emis /\ stale \subseteq Debit \cup Links
        /\ batch \in [Jobs -> SUBSET Emis] /\ resolving \in (Links \X BOOLEAN) \cup {None}
    BY DEF Init
  <2> QED
    BY <2>1, <2>2, <2>3, <2>4, <2>5, <2>6 DEF TypeOK
<1>2. JobsKnow /\ ClerksKnow /\ WorkersKnow
  BY DEF Init, JobsKnow, ClerksKnow, WorkersKnow, Knows, JobPc, ClerkPc, WorkerPc, SettlePc, Procs
<1>3. SentOnce /\ SentIsTrue /\ OneDebitPerAttempt
  BY DEF Init, SentOnce, SentIsTrue, OneDebitPerAttempt, Procs
<1>4. PaidIsBacked /\ SuccessIsCharged
  BY DEF Init, PaidIsBacked, SuccessIsCharged
<1>5. BusIsBacked
  <2>1. \A t \in Task : bus[t] = 0
    BY DEF Init
  <2>2. \A e \in Emis : [do |-> "mark-paid", emi |-> e] \in Task
    BY TaskType
  <2> QED
    BY <2>1, <2>2 DEF BusIsBacked
<1> QED
  BY <1>1, <1>2, <1>3, <1>4, <1>5 DEF IInv
-----------------------------------------------------------------------------
(* What a step keeps because of what it leaves alone                       *)

\* A step that leaves rows, events and charges alone keeps what they say
LEMMA KeepMoney ==
    ASSUME IInv, UNCHANGED <<gateway, sent, linkOf, txn, debit>>
    PROVE  SentIsTrue' /\ SuccessIsCharged'
BY DEF IInv, SentIsTrue, SuccessIsCharged, Charged

\* One that asks the bank for nothing keeps the count of what was asked
LEMMA KeepSent ==
    ASSUME IInv, UNCHANGED <<asked, gateway, debit>>, UNCHANGED <<at, no>>,
           \A j \in Jobs : pc'[j] \in {"send", "captured"} => pc'[j] = pc[j]
    PROVE  SentOnce' /\ OneDebitPerAttempt'
BY DEF IInv, SentOnce, OneDebitPerAttempt, Key

\* One that neither pays an EMI, posts, nor queues a listener
LEMMA KeepBooks ==
    ASSUME IInv, UNCHANGED <<cash, txn, gateway, linkOf, sent, emi, gl, bus>>
    PROVE  BusIsBacked' /\ PaidIsBacked'
BY DEF IInv, BusIsBacked, PaidIsBacked, Collected, PaidByLink, Charged

\* One that leaves the debit calls where they are,
LEMMA KeepJobs ==
    ASSUME IInv, \A j \in Jobs : pc'[j] = pc[j] /\ at'[j] = at[j], UNCHANGED no
    PROVE  JobsKnow'
BY DEF IInv, JobsKnow

\* the clerks' calls,
LEMMA KeepClerks ==
    ASSUME IInv, \A c \in Clerks : pc'[c] = pc[c] /\ at'[c] = at[c], UNCHANGED cash
    PROVE  ClerksKnow'
BY DEF IInv, ClerksKnow

\* or the webhook executions
LEMMA KeepWorkers ==
    ASSUME IInv, \A w \in Workers : pc'[w] = pc[w], UNCHANGED <<event, row, txn, gateway>>,
           sent \subseteq sent'
    PROVE  WorkersKnow'
BY DEF IInv, WorkersKnow, Knows, HandlesCharge, HandlesLink, Charged

\* A step of one call leaves the others at their program counters
LEMMA Goes ==
    ASSUME TypeOK, NEW p \in Procs, NEW next \in JobPc \cup WorkerPc \cup ClerkPc, Goto(p, next)
    PROVE  /\ pc' \in [Procs -> JobPc \cup WorkerPc \cup ClerkPc]
           /\ pc'[p] = next
           /\ \A q \in Procs : q # p => pc'[q] = pc[q]
BY DEF TypeOK, Goto

\* Where a job stands after a step of its call
JobAt(j, next) ==
    /\ Goto(j, next)
    /\ \/ UNCHANGED <<at, no>>
       \/ at' = [at EXCEPT ![j] = None] /\ no' = [no EXCEPT ![j] = 0] /\ next = "idle"
       \/ at[j] \in Emis /\ UNCHANGED at /\ no' = [no EXCEPT ![j] = bounces[at[j]] + 1]

\* Where a debit call goes, and what it has read by then
LEMMA DebitCallPc ==
    ASSUME IInv, NEW j \in Jobs, DebitStep(j)
    PROVE  \E next \in JobPc :
              /\ JobAt(j, next)
              /\ next # "idle" => at'[j] \in Emis
              /\ next \in {"check", "create", "send", "waiting", "captured", "refused"}
                     => no'[j] \in 1..MaxAttempts
              /\ next = "captured" => pc[j] = "waiting" /\ gateway[Key(j)] = "charged" /\ UNCHANGED <<at, no>>
              /\ next = "send" => CreateDebit(j) /\ debit[Key(j)] = "NONE" /\ UNCHANGED <<at, no>>
<1> USE DEF IInv, JobAt, Return, Continue, JobPc
<1>0. /\ pc[j] \in JobPc
      /\ pc[j] # "idle" => at[j] \in Emis
      /\ pc[j] \in {"check", "create", "send", "waiting", "captured", "refused"}
               => no[j] \in 1..MaxAttempts
      /\ at \in [Procs -> Emis \cup {None}] /\ no \in [Jobs -> Nat] /\ bounces \in [Emis -> Nat]
      /\ j \in Procs
  BY DEF JobsKnow, TypeOK, Procs
<1>1. CASE ReadEmi(j)
  BY <1>0, <1>1, BoundsAssumption DEF ReadEmi
<1>2. CASE FindExistingDebit(j)
  BY <1>0, <1>2 DEF FindExistingDebit
<1>3. CASE CreateDebit(j)
  BY <1>0, <1>3 DEF CreateDebit
<1>4. CASE SendDebit(j)
  BY <1>0, <1>4 DEF SendDebit, localVars
<1>5. ASSUME NEW reply \in {"pending", "captured", "error"}, DebitReply(j, reply)
      PROVE  \E next \in {"idle", "captured", "refused"} :
                /\ JobAt(j, next)
                /\ next # "idle" => pc[j] = "waiting" /\ UNCHANGED <<at, no>>
                /\ next = "captured" => gateway[Key(j)] = "charged"
  BY <1>0, <1>5 DEF DebitReply
<1>6. CASE MarkCaptured(j)
  BY <1>0, <1>6 DEF MarkCaptured
<1>7. CASE MarkDebitFailed(j)
  BY <1>0, <1>7 DEF MarkDebitFailed, localVars
<1>8. CASE ApplyBounce(j)
  BY <1>0, <1>8 DEF ApplyBounce
<1>9. CASE MarkBounced(j)
  BY <1>0, <1>9 DEF MarkBounced
<1> QED
  BY <1>0, <1>1, <1>2, <1>3, <1>4, <1>5, <1>6, <1>7, <1>8, <1>9 DEF DebitStep

\* The steps of a debit call keep the types
LEMMA DebitCallTypes ==
    ASSUME IInv, NEW j \in Jobs, DebitStep(j)
    PROVE  TypeOK'
<1>1. /\ pc' \in [Procs -> JobPc \cup WorkerPc \cup ClerkPc]
      /\ at' \in [Procs -> Emis \cup {None}]
      /\ no' \in [Jobs -> Nat]
  <2>1. PICK next \in JobPc : JobAt(j, next)
    BY DebitCallPc
  <2>2. /\ TypeOK /\ j \in Procs
        /\ at \in [Procs -> Emis \cup {None}] /\ no \in [Jobs -> Nat] /\ bounces \in [Emis -> Nat]
    BY DEF IInv, TypeOK, Procs
  <2>3. pc' \in [Procs -> JobPc \cup WorkerPc \cup ClerkPc]
    BY <2>1, <2>2, Goes DEF JobAt
  <2> QED
    BY <2>1, <2>2, <2>3 DEF JobAt
<1>2. UNCHANGED <<loanVars, txn, linkVars, bookVars, sent, acked, visited, event, row, readVars>>
  BY DEF DebitStep, ReadEmi, FindExistingDebit, CreateDebit, SendDebit, DebitReply, MarkCaptured,
         MarkDebitFailed, ApplyBounce, MarkBounced, rowVars, debitVars, bankVars, localVars
<1>3. CASE UNCHANGED <<emiVars, rowVars, bankVars, bus>>
  BY <1>1, <1>2, <1>3 DEF IInv, TypeOK, loanVars, emiVars, rowVars, debitVars, linkVars, bookVars,
         bankVars, readVars
<1>4. CASE CreateDebit(j) \/ MarkCaptured(j) \/ MarkDebitFailed(j)
  <2>1. debit' \in [Debit -> RowStatus] /\ born' \in [Debit -> Nat]
    BY <1>4, RowsAreCounted DEF IInv, TypeOK, RowStatus, CreateDebit, MarkCaptured, MarkDebitFailed
  <2>2. UNCHANGED <<emiVars, bankVars, bus>>
    BY <1>4 DEF CreateDebit, MarkCaptured, MarkDebitFailed
  <2> QED
    BY <1>1, <1>2, <2>1, <2>2 DEF IInv, TypeOK, loanVars, emiVars, linkVars, bookVars, bankVars, readVars
<1>5. CASE SendDebit(j)
  <2>1. /\ gateway' \in [Debit -> {"none", "asked", "charged", "refused"}]
        /\ asked' \in [Debit -> Nat]
    <3>1. Key(j) \in Debit
      BY <1>5 DEF IInv, JobsKnow, SendDebit, Key, Debit
    <3> QED
      BY <1>5, <3>1 DEF IInv, TypeOK, SendDebit
  <2>2. UNCHANGED <<emiVars, debitVars, bus>>
    BY <1>5 DEF SendDebit, rowVars
  <2> QED
    BY <1>1, <1>2, <2>1, <2>2 DEF IInv, TypeOK, loanVars, emiVars, debitVars, linkVars, bookVars, readVars
<1>6. CASE MarkBounced(j)
  <2>1. at[j] \in Emis /\ no[j] \in Nat
    BY <1>6 DEF IInv, JobsKnow, TypeOK, MarkBounced
  <2>2. NextRetry(no[j]) \in Retry
    BY BoundsAssumption DEF IInv, TypeOK, NextRetry, Retry, Days
  <2>3. emi' \in [Emis -> EmiStatus] /\ bounces' \in [Emis -> Nat] /\ retryAt' \in [Emis -> Retry]
    BY <1>6, <2>1, <2>2 DEF IInv, TypeOK, EmiStatus, MarkBounced, SetEmi
  <2>4. bus' \in [Task -> Nat]
    BY <1>6 DEF IInv, TypeOK, MarkBounced, Emit
  <2>5. UNCHANGED <<debitVars, bankVars>>
    BY <1>6 DEF MarkBounced, rowVars
  <2> QED
    BY <1>1, <1>2, <2>3, <2>4, <2>5 DEF IInv, TypeOK, loanVars, debitVars, linkVars, bookVars, bankVars, readVars
<1> QED
  BY <1>3, <1>4, <1>5, <1>6 DEF DebitStep, ReadEmi, FindExistingDebit, DebitReply, ApplyBounce

\* The steps of a debit call keep the invariant
LEMMA DebitCalls ==
    ASSUME IInv, NEW j \in Jobs, DebitStep(j)
    PROVE  IInv'
<1>1. TypeOK'
  BY DebitCallTypes
<1>2. PICK next \in JobPc :
        /\ JobAt(j, next)
        /\ next # "idle" => at'[j] \in Emis
        /\ next \in {"check", "create", "send", "waiting", "captured", "refused"}
               => no'[j] \in 1..MaxAttempts
        /\ next = "captured" => pc[j] = "waiting" /\ gateway[Key(j)] = "charged" /\ UNCHANGED <<at, no>>
        /\ next = "send" => CreateDebit(j) /\ debit[Key(j)] = "NONE" /\ UNCHANGED <<at, no>>
  BY DebitCallPc
<1>3. /\ pc'[j] = next
      /\ \A p \in Procs : p # j => pc'[p] = pc[p] /\ at'[p] = at[p]
      /\ \A k \in Jobs : k # j => no'[k] = no[k]
  BY <1>2, Goes DEF JobAt, Procs, IInv, TypeOK
<1>4. UNCHANGED <<loanVars, txn, linkVars, bookVars, sent, event, row>>
  BY DEF DebitStep, ReadEmi, FindExistingDebit, CreateDebit, SendDebit, DebitReply, MarkCaptured,
         MarkDebitFailed, ApplyBounce, MarkBounced, rowVars, debitVars, bankVars, localVars
<1>5. JobsKnow'
  BY <1>2, <1>3 DEF IInv, JobsKnow, Procs
<1>6. ClerksKnow'
  BY <1>3, <1>4, ProcessAssumption, KeepClerks DEF Procs, bookVars
<1>7. CASE UNCHANGED <<emiVars, rowVars, bankVars, bus>>
  <2>1. WorkersKnow' /\ SentIsTrue' /\ SuccessIsCharged' /\ BusIsBacked' /\ PaidIsBacked'
    BY <1>3, <1>4, <1>7, ProcessAssumption, KeepWorkers, KeepMoney, KeepBooks
       DEF Procs, emiVars, rowVars, debitVars, linkVars, bookVars, bankVars
  <2>2. SentOnce' /\ OneDebitPerAttempt'
    <3>1. next # "send"
      BY <1>2, <1>7 DEF CreateDebit, JobsKnow, IInv, TypeOK, Key, Debit, rowVars, debitVars
    <3>2. \A k \in Jobs : k # j => Key(k)' = Key(k) /\ pc'[k] = pc[k]
      BY <1>3 DEF Key, Procs
    <3>3. next = "captured" => Key(j)' = Key(j)
      BY <1>2 DEF Key
    <3>4. UNCHANGED <<asked, gateway, debit>>
      BY <1>7 DEF rowVars, debitVars, bankVars
    <3> QED
      BY <1>2, <1>3, <3>1, <3>2, <3>3, <3>4 DEF IInv, SentOnce, OneDebitPerAttempt
  <2> QED
    BY <1>1, <1>5, <1>6, <2>1, <2>2 DEF IInv

<1>8. CASE CreateDebit(j)
  <2>1. UNCHANGED <<emiVars, txn, linkVars, bookVars, bankVars, bus>>
    BY <1>8 DEF CreateDebit
  <2>2. WorkersKnow' /\ BusIsBacked' /\ PaidIsBacked'
    BY <1>3, <1>4, <2>1, ProcessAssumption, KeepWorkers, KeepBooks
       DEF Procs, emiVars, linkVars, bookVars, bankVars
  <2>3. SentIsTrue' /\ SuccessIsCharged'
    BY <1>8, <2>1 DEF CreateDebit, IInv, TypeOK, SentIsTrue, SuccessIsCharged, Charged, linkVars, bankVars
  <2>4. SentOnce' /\ OneDebitPerAttempt'
    <3>1. Key(j) \in Debit
      BY <1>8 DEF IInv, JobsKnow, CreateDebit, Key, Debit
    <3>2. CASE debit[Key(j)] = "NONE"
      <4>1. /\ debit' = [debit EXCEPT ![Key(j)] = "PENDING"] /\ pc'[j] = "send"
            /\ UNCHANGED <<at, no, asked, gateway>>
        BY <1>8, <2>1, <3>2 DEF CreateDebit, Continue, Goto, IInv, TypeOK, bankVars, Procs
      <4>2. \A k \in Jobs : Key(k)' = Key(k) /\ (k # j => pc'[k] = pc[k])
        BY <1>3, <4>1 DEF Key, Procs
      <4>3. \A d \in Debit : debit'[d] # "NONE" <=> debit[d] # "NONE" \/ d = Key(j)
        BY <4>1 DEF IInv, TypeOK
      <4>4. asked[Key(j)] = 0
        BY <3>1, <3>2 DEF IInv, TypeOK, SentOnce
      <4>5. \A k \in Jobs : pc[k] = "send" => Key(k) # Key(j) /\ Key(k) \in Debit
        BY <3>2 DEF IInv, SentOnce, JobsKnow, Key, Debit
      <4> QED
        BY <3>1, <4>1, <4>2, <4>3, <4>4, <4>5 DEF IInv, SentOnce, OneDebitPerAttempt
    <3>3. CASE debit[Key(j)] # "NONE"
      <4>1. UNCHANGED debit /\ next # "send" /\ next # "captured"
        BY <1>2, <1>8, <3>3 DEF CreateDebit
      <4> QED
        BY <1>3, <2>1, <4>1 DEF IInv, SentOnce, OneDebitPerAttempt, Key, Procs, bankVars
    <3> QED
      BY <3>2, <3>3
  <2> QED
    BY <1>1, <1>5, <1>6, <2>2, <2>3, <2>4 DEF IInv
<1>9. CASE MarkCaptured(j) \/ MarkDebitFailed(j)
  <2>1. UNCHANGED <<emiVars, txn, linkVars, bookVars, bankVars, bus>>
    BY <1>9 DEF MarkCaptured, MarkDebitFailed
  <2>2. WorkersKnow' /\ BusIsBacked' /\ PaidIsBacked'
    BY <1>3, <1>4, <2>1, ProcessAssumption, KeepWorkers, KeepBooks
       DEF Procs, emiVars, linkVars, bookVars, bankVars
  <2>3. SentIsTrue' /\ SuccessIsCharged'
    BY <1>9, <2>1 DEF MarkCaptured, MarkDebitFailed, IInv, TypeOK, SentIsTrue, SentOnce, SuccessIsCharged,
       Charged, linkVars, bankVars
  <2>4. SentOnce' /\ OneDebitPerAttempt'
    <3>1. \A d \in Debit : debit[d] # "NONE" => debit'[d] # "NONE"
      BY <1>9 DEF MarkCaptured, MarkDebitFailed, IInv, TypeOK
    <3>2. \A k \in Jobs : pc[k] = "send" => Key(k) \in Debit
      BY DEF IInv, JobsKnow, Key, Debit
    <3>3. next # "send" /\ next # "captured"
      BY <1>2, <1>3, <1>9 DEF MarkCaptured, MarkDebitFailed, CreateDebit
    <3> QED
      BY <1>3, <2>1, <3>1, <3>2, <3>3 DEF IInv, SentOnce, OneDebitPerAttempt, Key, Procs, bankVars
  <2> QED
    BY <1>1, <1>5, <1>6, <2>2, <2>3, <2>4 DEF IInv
<1>10. CASE SendDebit(j)
  <2>1. UNCHANGED <<emiVars, debitVars, linkVars, bookVars, sent, bus>>
    BY <1>10 DEF SendDebit, rowVars
  <2>2. /\ Key(j) \in Debit /\ gateway[Key(j)] = "none" /\ debit[Key(j)] # "NONE" /\ asked[Key(j)] = 0
    BY <1>10 DEF SendDebit, IInv, TypeOK, JobsKnow, SentOnce, Key, Debit
  <2>3. /\ gateway' = [gateway EXCEPT ![Key(j)] = "asked"]
        /\ asked' = [asked EXCEPT ![Key(j)] = @ + 1]
        /\ next = "waiting" /\ UNCHANGED <<at, no>>
    BY <1>3, <1>10 DEF SendDebit, localVars, Goto, IInv, TypeOK, Procs
  <2>4. \A d \in Debit : gateway[d] = "charged" <=> gateway'[d] = "charged"
    BY <2>2, <2>3 DEF IInv, TypeOK
  <2>5. SentIsTrue' /\ SuccessIsCharged'
    <3>1. \A ev \in sent : ev.kind = "charged" => gateway'[ev.of] = "charged"
      BY <2>4, EventType DEF IInv, TypeOK, SentIsTrue
    <3>2. \A d \in Debit : txn[d] # None => gateway'[txn[d]] = "charged"
      BY <2>4 DEF IInv, TypeOK, SentIsTrue
    <3>3. SuccessIsCharged'
      BY <2>1, <2>4, <3>2 DEF IInv, SuccessIsCharged, Charged, debitVars
    <3> QED
      BY <2>1, <3>1, <3>2, <3>3 DEF IInv, SentIsTrue, linkVars, debitVars
  <2>6. BusIsBacked' /\ PaidIsBacked'
    <3>1. \A d \in Debit : Charged(d) => Charged(d)'
      BY <2>1, <2>4 DEF IInv, TypeOK, Charged, debitVars
    <3>2. \A e \in Emis : Collected(e) => Collected(e)'
      BY <2>1, <3>1 DEF Collected, PaidByLink, linkVars, bookVars
    <3> QED
      BY <2>1, <3>2 DEF IInv, BusIsBacked, PaidIsBacked, emiVars, bookVars
  <2>7. WorkersKnow'
    BY <1>3, <1>4, <2>1, <2>4, ProcessAssumption DEF IInv, TypeOK, WorkersKnow, Knows, HandlesCharge, HandlesLink,
       Charged, Procs, debitVars
  <2>8. SentOnce' /\ OneDebitPerAttempt'
    <3>1. \A k \in Jobs : pc[k] \in {"send", "captured"} => Key(k) \in Debit
      BY DEF IInv, JobsKnow, Key, Debit
    <3>2. /\ asked \in [Debit -> Nat] /\ gateway \in [Debit -> {"none", "asked", "charged", "refused"}]
          /\ SentOnce /\ OneDebitPerAttempt /\ pc[j] = "send" /\ UNCHANGED debit
      BY <1>10, <2>1 DEF SendDebit, IInv, TypeOK, debitVars
    <3>3. \A k \in Jobs : /\ Key(k)' = Key(k)
                          /\ k # j => pc'[k] = pc[k]
                          /\ k = j => pc'[k] = "waiting"
      BY <1>3, <2>3 DEF Key, Procs
    <3>4. /\ asked'[Key(j)] = 1 /\ gateway'[Key(j)] = "asked"
          /\ \A d \in Debit : d # Key(j) => asked'[d] = asked[d] /\ gateway'[d] = gateway[d]
      BY <2>2, <2>3, <3>2
    <3>5. OneDebitPerAttempt'
      BY <3>2, <3>4 DEF OneDebitPerAttempt
    <3>6. \A k \in Jobs : k # j /\ pc[k] = "send" => Key(k) # Key(j)
      BY <3>2 DEF SentOnce
    <3>7. \A k \in Jobs : pc[k] = "captured" => Key(k) # Key(j)
      BY <2>2, <3>2 DEF SentOnce
    <3> QED
      BY <2>2, <3>1, <3>2, <3>3, <3>4, <3>5, <3>6, <3>7 DEF SentOnce
  <2> QED
    BY <1>1, <1>5, <1>6, <2>5, <2>6, <2>7, <2>8 DEF IInv
<1>11. CASE MarkBounced(j)
  <2>1. UNCHANGED <<rowVars, bankVars>>
    BY <1>11 DEF MarkBounced
  <2>2. WorkersKnow' /\ SentIsTrue' /\ SuccessIsCharged'
    BY <1>3, <1>4, <2>1, ProcessAssumption, KeepWorkers, KeepMoney
       DEF Procs, rowVars, debitVars, linkVars, bankVars
  <2>3. SentOnce' /\ OneDebitPerAttempt'
    <3>1. next # "send" /\ next # "captured"
      BY <1>2, <1>11 DEF MarkBounced, CreateDebit
    <3> QED
      BY <1>3, <2>1, <3>1 DEF IInv, SentOnce, OneDebitPerAttempt, Key, Procs, rowVars, debitVars, bankVars
  <2>4. \A e \in Emis : emi'[e] = "PAID" => emi[e] = "PAID"
    BY <1>11 DEF MarkBounced, SetEmi, IInv, TypeOK
  <2>5. \A e \in Emis : bus'[[do |-> "mark-paid", emi |-> e]] = bus[[do |-> "mark-paid", emi |-> e]]
    <3>1. \A e \in Emis : [do |-> "mark-paid", emi |-> e] \notin Bounced(at[j], no[j])
      BY DEF Bounced
    <3> QED
      BY <1>11, <3>1, TaskType DEF MarkBounced, Emit
  <2>6. BusIsBacked' /\ PaidIsBacked'
    BY <2>1, <2>4, <2>5 DEF IInv, BusIsBacked, PaidIsBacked, Collected, PaidByLink, Charged, rowVars, linkVars,
       bookVars, debitVars, bankVars
  <2> QED
    BY <1>1, <1>5, <1>6, <2>2, <2>3, <2>6 DEF IInv
<1> QED
  BY <1>7, <1>8, <1>9, <1>10, <1>11 DEF DebitStep, ReadEmi, FindExistingDebit, DebitReply, ApplyBounce

-----------------------------------------------------------------------------
(* The calendar, the nightly jobs and the listeners                        *)

\* Collected speaks of cash, charges, links and events alone
LEMMA CollectedStays ==
    ASSUME UNCHANGED <<cash, txn, gateway, linkOf, sent>>
    PROVE  \A e \in Emis : Collected(e) <=> Collected(e)'
BY DEF Collected, PaidByLink, Charged

\* PAID, postings and listeners appear where money was collected
LEMMA Backed ==
    ASSUME IInv,
           \A e \in Emis : Collected(e) => Collected(e)',
           \A e \in Emis : emi'[e] = "PAID" => emi[e] = "PAID" \/ Collected(e),
           \A e \in Emis : gl'[e] > 0 => gl[e] > 0 \/ Collected(e),
           \A e \in Emis : LET t == [do |-> "mark-paid", emi |-> e]
                           IN  bus'[t] > 0 => bus[t] > 0 \/ Collected(e)
    PROVE  BusIsBacked' /\ PaidIsBacked'
BY DEF IInv, BusIsBacked, PaidIsBacked

\* A step outside every call keeps what the calls know
LEMMA KeepCalls ==
    ASSUME IInv, UNCHANGED <<callVars, rowVars, bankVars>>
    PROVE  /\ JobsKnow' /\ ClerksKnow' /\ WorkersKnow'
           /\ SentOnce' /\ OneDebitPerAttempt'
           /\ SentIsTrue' /\ SuccessIsCharged'
BY KeepJobs, KeepClerks, KeepWorkers, KeepSent, KeepMoney
   DEF callVars, localVars, rowVars, debitVars, linkVars, bookVars, bankVars

\* A new day, a cancelled mandate and what the jobs read keep the invariant
LEMMA Surroundings ==
    ASSUME IInv, \/ NextDay \/ CancelMandate \/ MarkNpa \/ FindStale
                 \/ \E e \in Emis : ReadOverdue(e)
                 \/ \E j \in Jobs : ReadBatch(j)
    PROVE  IInv'
<1>1. UNCHANGED <<emiVars, rowVars, bankVars, bus, acked, pc, at, no, event, row>>
  BY DEF NextDay, CancelMandate, MarkNpa, FindStale, ReadOverdue, ReadBatch, callVars, localVars
<1>2. TypeOK'
  <2>1. /\ today' \in Days /\ mandate' \in BOOLEAN /\ account' \in {"ACTIVE", "NPA", "CLOSED"}
        /\ visited' \in [Jobs -> SUBSET Emis]
    <3>1. today' \in Days
      BY BoundsAssumption DEF IInv, TypeOK, NextDay, CancelMandate, MarkNpa, FindStale, ReadOverdue, ReadBatch, loanVars, Days
    <3>2. mandate' \in BOOLEAN
      BY Zenon DEF IInv, TypeOK, NextDay, CancelMandate, MarkNpa, FindStale, ReadOverdue, ReadBatch, loanVars
    <3>3. account' \in {"ACTIVE", "NPA", "CLOSED"}
      BY DEF IInv, TypeOK, NextDay, CancelMandate, MarkNpa, FindStale, ReadOverdue, ReadBatch, loanVars
    <3>4. visited' \in [Jobs -> SUBSET Emis]
      BY DEF IInv, TypeOK, NextDay, CancelMandate, MarkNpa, FindStale, ReadOverdue, ReadBatch, callVars, localVars
    <3> QED
      BY <3>1, <3>2, <3>3, <3>4
  <2>2. watching' \subseteq Emis /\ stale' \subseteq Debit \cup Links
    BY DEF IInv, TypeOK, NextDay, CancelMandate, MarkNpa, FindStale, ReadOverdue, ReadBatch, readVars
  <2>3. batch' \in [Jobs -> SUBSET Emis]
    BY DEF IInv, TypeOK, NextDay, CancelMandate, MarkNpa, FindStale, ReadOverdue, ReadBatch, readVars,
           DueToday, DueForRetry
  <2>4. resolving' \in (Links \X BOOLEAN) \cup {None}
    BY DEF IInv, TypeOK, NextDay, CancelMandate, MarkNpa, FindStale, ReadOverdue, ReadBatch, readVars
  <2> QED
    BY <1>1, <2>1, <2>2, <2>3, <2>4 DEF IInv, TypeOK, emiVars, rowVars, debitVars, linkVars, bookVars, bankVars
<1>3. JobsKnow' /\ ClerksKnow' /\ WorkersKnow' /\ SentOnce' /\ OneDebitPerAttempt'
  BY <1>1, KeepJobs, KeepClerks, KeepWorkers, KeepSent DEF rowVars, debitVars, linkVars, bookVars, bankVars
<1>4. SentIsTrue' /\ SuccessIsCharged' /\ BusIsBacked' /\ PaidIsBacked'
  BY <1>1, KeepMoney, KeepBooks DEF emiVars, rowVars, debitVars, linkVars, bookVars, bankVars
<1> QED
  BY <1>2, <1>3, <1>4 DEF IInv

\* The selection of an EMI by a job
LEMMA Selection ==
    ASSUME IInv, NEW j \in Jobs, NEW e \in Emis, Select(j, e)
    PROVE  IInv'
<1>1. UNCHANGED <<loanVars, emiVars, rowVars, bankVars, acked, bus, no, event, row, watching, stale, resolving>>
  BY DEF Select
<1>2. /\ pc' \in [Procs -> JobPc \cup WorkerPc \cup ClerkPc] /\ pc'[j] = "selected"
      /\ at' \in [Procs -> Emis \cup {None}] /\ at'[j] = e
      /\ visited' \in [Jobs -> SUBSET Emis] /\ batch' \in [Jobs -> SUBSET Emis]
      /\ \A p \in Procs : p # j => pc'[p] = pc[p] /\ at'[p] = at[p]
  BY Goes DEF Select, IInv, TypeOK, JobPc, Procs
<1>3. TypeOK'
  BY <1>1, <1>2 DEF IInv, TypeOK, loanVars, emiVars, rowVars, debitVars, linkVars, bookVars, bankVars, readVars
<1>4. JobsKnow'
  BY <1>1, <1>2 DEF IInv, JobsKnow, JobPc, Procs
<1>5. ClerksKnow' /\ WorkersKnow'
  BY <1>1, <1>2, ProcessAssumption, KeepClerks, KeepWorkers
     DEF Procs, rowVars, debitVars, linkVars, bookVars, bankVars
<1>6. SentOnce' /\ OneDebitPerAttempt'
  BY <1>1, <1>2 DEF IInv, SentOnce, OneDebitPerAttempt, Key, Procs, rowVars, debitVars, bankVars
<1>7. SentIsTrue' /\ SuccessIsCharged' /\ BusIsBacked' /\ PaidIsBacked'
  BY <1>1, KeepMoney, KeepBooks DEF emiVars, rowVars, debitVars, linkVars, bookVars, bankVars
<1> QED
  BY <1>3, <1>4, <1>5, <1>6, <1>7 DEF IInv

\* The steps of npaWatch.job
LEMMA Overdue ==
    ASSUME IInv, NEW e \in Emis, MarkOverdue(e)
    PROVE  IInv'
<1>1. UNCHANGED <<loanVars, bounces, retryAt, rowVars, bankVars, acked, bus, callVars, batch, stale, resolving>>
  BY DEF MarkOverdue
<1>2. emi' = [emi EXCEPT ![e] = "OVERDUE"] /\ watching' \subseteq watching
  BY DEF MarkOverdue, SetEmi
<1>3. TypeOK'
  BY <1>1, <1>2 DEF IInv, TypeOK, EmiStatus, loanVars, rowVars, debitVars, linkVars, bookVars, bankVars,
     callVars, localVars
<1>4. BusIsBacked' /\ PaidIsBacked'
  BY <1>1, <1>2, CollectedStays, Backed DEF IInv, TypeOK, rowVars, debitVars, linkVars, bookVars, bankVars
<1> QED
  BY <1>1, <1>3, <1>4, KeepCalls DEF IInv

\* Rows resolved by the settlement job
LEMMA Resolution ==
    ASSUME IInv, ResolveStale
    PROVE  IInv'
<1>1. UNCHANGED <<loanVars, emiVars, born, txn, linkOf, processed, bookVars, bankVars, acked, bus,
                  callVars, batch, watching>>
  <2>1. CASE \E d \in Debit : FailStaleDebit(d)
    BY <2>1 DEF FailStaleDebit, linkVars
  <2>2. CASE ResolveStaleLink
    BY <2>2 DEF ResolveStaleLink, debitVars
  <2>3. CASE \E l \in Links : ReadStaleLink(l)
    BY <2>3 DEF ReadStaleLink, rowVars, debitVars, linkVars
  <2> QED
    BY <2>1, <2>2, <2>3 DEF ResolveStale
<1>2. /\ debit' \in [Debit -> RowStatus] /\ link' \in [Links -> RowStatus]
      /\ stale' \subseteq Debit \cup Links
      /\ resolving' \in (Links \X BOOLEAN) \cup {None}
      /\ \A d \in Debit : debit'[d] = "SUCCESS" => debit[d] = "SUCCESS"
      /\ \A d \in Debit : debit[d] # "NONE" => debit'[d] # "NONE"
  <2>1. CASE \E d \in Debit : FailStaleDebit(d)
    BY <2>1 DEF FailStaleDebit, linkVars, IInv, TypeOK, RowStatus
  <2>2. CASE ResolveStaleLink
    BY <2>2 DEF ResolveStaleLink, debitVars, IInv, TypeOK, RowStatus
  <2>3. ASSUME NEW l \in Links, ReadStaleLink(l)
        PROVE  UNCHANGED <<debit, link>> /\ stale' \subseteq stale /\ resolving' \in Links \X BOOLEAN
    BY <2>3 DEF ReadStaleLink, rowVars, debitVars, linkVars
  <2> QED
    BY <2>1, <2>2, <2>3 DEF ResolveStale, IInv, TypeOK
<1>3. TypeOK'
  BY <1>1, <1>2 DEF IInv, TypeOK, loanVars, emiVars, bookVars, bankVars, callVars, localVars
<1>4. JobsKnow' /\ ClerksKnow' /\ WorkersKnow'
  BY <1>1, KeepJobs, KeepClerks, KeepWorkers DEF callVars, localVars, bookVars, bankVars
<1>5. SentOnce' /\ OneDebitPerAttempt'
  <2>1. \A j \in Jobs : pc[j] \in {"send", "captured"} => Key(j) \in Debit
    BY DEF IInv, JobsKnow, Key, Debit
  <2> QED
    BY <1>1, <1>2, <2>1 DEF IInv, SentOnce, OneDebitPerAttempt, Key, callVars, localVars, bankVars
<1>6. SentIsTrue' /\ SuccessIsCharged'
  BY <1>1, <1>2 DEF IInv, SentIsTrue, SuccessIsCharged, Charged, bankVars
<1>7. BusIsBacked' /\ PaidIsBacked'
  BY <1>1, KeepBooks DEF emiVars, bookVars, bankVars
<1> QED
  BY <1>3, <1>4, <1>5, <1>6, <1>7 DEF IInv

\* A crash: the calls are gone and what the rows say stays
LEMMA Crashed ==
    ASSUME IInv, Crash
    PROVE  IInv'
<1>1. UNCHANGED <<loanVars, emiVars, rowVars, bankVars, acked, visited>>
  BY DEF Crash
<1>2. /\ \A p \in Procs : pc'[p] = "idle" \/ (p \in Clerks /\ pc'[p] = "done")
      /\ pc' \in [Procs -> JobPc \cup WorkerPc \cup ClerkPc]
      /\ \A t \in Task : bus'[t] = 0
  BY DEF Crash, JobPc, ClerkPc
<1>3. TypeOK'
  <2>1. /\ at' \in [Procs -> Emis \cup {None}] /\ no' \in [Jobs -> Nat]
        /\ event' \in [Workers -> Event \cup {None}] /\ row' \in [Workers -> Debit \cup Links \cup {None}]
        /\ bus' \in [Task -> Nat] /\ watching' \subseteq Emis /\ stale' \subseteq Debit \cup Links
        /\ batch' \in [Jobs -> SUBSET Emis] /\ resolving' \in (Links \X BOOLEAN) \cup {None}
    BY DEF Crash
  <2> QED
    BY <1>1, <1>2, <2>1 DEF IInv, TypeOK, loanVars, emiVars, rowVars, debitVars, linkVars, bookVars, bankVars
<1>4. JobsKnow' /\ ClerksKnow' /\ WorkersKnow'
  BY <1>2, ProcessAssumption DEF JobsKnow, ClerksKnow, WorkersKnow, Knows, Procs, JobPc, ClerkPc, WorkerPc, SettlePc
<1>5. SentOnce' /\ OneDebitPerAttempt'
  BY <1>1, <1>2, ProcessAssumption DEF IInv, SentOnce, OneDebitPerAttempt, Procs, rowVars, debitVars, bankVars
<1>6. SentIsTrue' /\ SuccessIsCharged'
  BY <1>1, KeepMoney DEF rowVars, debitVars, linkVars, bankVars
<1>7. BusIsBacked' /\ PaidIsBacked'
  <2>1. \A e \in Emis : [do |-> "mark-paid", emi |-> e] \in Task
    BY TaskType
  <2> QED
    BY <1>1, <1>2, <2>1, CollectedStays, Backed DEF IInv, TypeOK, emiVars, rowVars, debitVars, linkVars,
       bookVars, bankVars
<1> QED
  BY <1>3, <1>4, <1>5, <1>6, <1>7 DEF IInv

\* A listener that has run, or goes on
LEMMA BusSteps ==
    ASSUME IInv, NEW t \in Task, bus[t] > 0,
           Ran(t) \/ (\E u \in Task : u.do # "mark-paid" /\ u # t /\ Proceed(t, u))
    PROVE  /\ bus' \in [Task -> Nat]
           /\ \A e \in Emis : LET m == [do |-> "mark-paid", emi |-> e] IN bus'[m] > 0 => bus[m] > 0
<1>1. bus \in [Task -> Nat] /\ bus[t] - 1 \in Nat
  BY DEF IInv, TypeOK
<1>2. CASE Ran(t)
  BY <1>1, <1>2, TaskType DEF Ran
<1>3. ASSUME NEW u \in Task, u.do # "mark-paid", u # t, Proceed(t, u)
      PROVE  /\ bus' \in [Task -> Nat]
             /\ \A e \in Emis : LET m == [do |-> "mark-paid", emi |-> e] IN bus'[m] > 0 => bus[m] > 0
  <2>1. bus' = [bus EXCEPT ![t] = bus[t] - 1, ![u] = bus[u] + 1]
    BY <1>1, <1>3 DEF Proceed
  <2>2. \A e \in Emis : [do |-> "mark-paid", emi |-> e] \in Task /\ [do |-> "mark-paid", emi |-> e] # u
    <3>1. \A e \in Emis : [do |-> "mark-paid", emi |-> e].do = "mark-paid"
      OBVIOUS
    <3>2. \A e \in Emis : [do |-> "mark-paid", emi |-> e] \in Task
      BY TaskType
    <3> QED
      BY <1>3, <3>1, <3>2
  <2> QED
    BY <1>1, <2>1, <2>2
<1> QED
  BY <1>2, <1>3

\* The listeners of the event bus
LEMMA Listeners ==
    ASSUME IInv, NEW e \in Emis, Listen(e)
    PROVE  IInv'
<1>1. UNCHANGED <<today, mandate, rowVars, bankVars, acked, callVars, readVars>>
  BY DEF Listen, MarkPaidListener, CheckClosure, CloseAccount, CheckNpa, SetNpa, ApplyBounceListener,
         WriteBounceListener, loanVars
<1>2. /\ bus' \in [Task -> Nat]
      /\ \A x \in Emis : LET m == [do |-> "mark-paid", emi |-> x] IN bus'[m] > 0 => bus[m] > 0
  <2>1. CASE MarkPaidListener(e)
    <3> DEFINE t == [do |-> "mark-paid", emi |-> e]
    <3>1. t \in Task /\ bus[t] > 0 /\ Ran(t)
      BY <2>1, TaskType DEF MarkPaidListener
    <3> QED
      BY <3>1, BusSteps
  <2>2. CASE CheckClosure(e)
    <3> DEFINE t == [do |-> "check-closure", emi |-> e]
    <3> DEFINE u == [do |-> "close", emi |-> e]
    <3>1. t \in Task /\ u \in Task
      BY TaskType
    <3>2. u.do # "mark-paid" /\ u # t /\ u = [t EXCEPT !.do = "close"]
      OBVIOUS
    <3>3. bus[t] > 0 /\ (Ran(t) \/ Proceed(t, u))
      BY <2>2 DEF CheckClosure
    <3> HIDE DEF t, u
    <3> QED
      BY <3>1, <3>2, <3>3, BusSteps
  <2>3. CASE CloseAccount(e)
    BY <2>3, TaskType, BusSteps DEF CloseAccount
  <2>4. CASE CheckNpa(e)
    <3> DEFINE t == [do |-> "check-npa", emi |-> e]
    <3> DEFINE u == [do |-> "set-npa", emi |-> e]
    <3>1. t \in Task /\ u \in Task
      BY TaskType
    <3>2. u.do # "mark-paid" /\ u # t /\ u = [t EXCEPT !.do = "set-npa"]
      OBVIOUS
    <3>3. bus[t] > 0 /\ (Ran(t) \/ Proceed(t, u))
      BY <2>4 DEF CheckNpa
    <3> HIDE DEF t, u
    <3> QED
      BY <3>1, <3>2, <3>3, BusSteps
  <2>5. CASE SetNpa(e)
    BY <2>5, TaskType, BusSteps DEF SetNpa
  <2>6. ASSUME NEW r \in Retry, ApplyBounceListener(e, r)
        PROVE  /\ bus' \in [Task -> Nat]
               /\ \A x \in Emis : LET m == [do |-> "mark-paid", emi |-> x] IN bus'[m] > 0 => bus[m] > 0
    <3> DEFINE t == [do |-> "apply-bounce", emi |-> e, retry |-> r]
    <3> DEFINE u == [do |-> "write-bounce", emi |-> e, retry |-> r]
    <3>1. t \in Task /\ u \in Task
      BY TaskType
    <3>2. u.do # "mark-paid" /\ u # t /\ u = [t EXCEPT !.do = "write-bounce"]
      OBVIOUS
    <3>3. bus[t] > 0 /\ (Ran(t) \/ Proceed(t, u))
      BY <2>6 DEF ApplyBounceListener
    <3> HIDE DEF t, u
    <3> QED
      BY <3>1, <3>2, <3>3, BusSteps
  <2>7. ASSUME NEW r \in Retry, WriteBounceListener(e, r)
        PROVE  /\ bus' \in [Task -> Nat]
               /\ \A x \in Emis : LET m == [do |-> "mark-paid", emi |-> x] IN bus'[m] > 0 => bus[m] > 0
    BY <2>7, TaskType, BusSteps DEF WriteBounceListener
  <2> QED
    BY <2>1, <2>2, <2>3, <2>4, <2>5, <2>6, <2>7 DEF Listen
<1>3. /\ emi' \in [Emis -> EmiStatus]
      /\ \A x \in Emis : emi'[x] = "PAID" => emi[x] = "PAID" \/ Collected(x)
      /\ account' \in {"ACTIVE", "NPA", "CLOSED"}
      /\ bounces' \in [Emis -> Nat] /\ retryAt' \in [Emis -> Retry]
  <2>1. CASE MarkPaidListener(e)
    BY <2>1 DEF MarkPaidListener, SetEmi, IInv, TypeOK, BusIsBacked, EmiStatus, loanVars
  <2>2. CASE CheckClosure(e) \/ CheckNpa(e) \/ (\E r \in Retry : ApplyBounceListener(e, r))
    BY <2>2 DEF CheckClosure, CheckNpa, ApplyBounceListener, IInv, TypeOK, loanVars, emiVars
  <2>3. CASE CloseAccount(e) \/ SetNpa(e)
    BY <2>3 DEF CloseAccount, SetNpa, IInv, TypeOK, emiVars
  <2>4. ASSUME NEW r \in Retry, WriteBounceListener(e, r)
        PROVE  /\ emi' = [emi EXCEPT ![e] = "BOUNCED"] /\ UNCHANGED account
               /\ bounces' \in [Emis -> Nat] /\ retryAt' \in [Emis -> Retry]
    BY <2>4 DEF WriteBounceListener, SetEmi, IInv, TypeOK, loanVars
  <2> QED
    BY <2>1, <2>2, <2>3, <2>4 DEF Listen, IInv, TypeOK, EmiStatus
<1>4. TypeOK'
  BY <1>1, <1>2, <1>3 DEF IInv, TypeOK, rowVars, debitVars, linkVars, bookVars, bankVars, callVars, localVars,
     readVars
<1>5. BusIsBacked' /\ PaidIsBacked'
  BY <1>1, <1>2, <1>3, CollectedStays, Backed DEF rowVars, debitVars, linkVars, bookVars, bankVars
<1> QED
  BY <1>1, <1>4, <1>5, KeepCalls DEF IInv

-----------------------------------------------------------------------------
(* The gateway                                                             *)

\* What the gateway does to a debit, and the events it sends, undo nothing
LEMMA GatewayMoves ==
    ASSUME IInv, UNCHANGED <<emiVars, debitVars, bookVars, asked, bus, callVars>>,
           \A d \in Debit : gateway[d] = "charged" => gateway'[d] = "charged",
           \A d \in Debit : gateway'[d] # "none" => gateway[d] # "none",
           \A l \in Links : linkOf[l] # None => linkOf'[l] = linkOf[l],
           sent \subseteq sent',
           \A ev \in sent' \ sent : /\ ev.kind = "charged" => gateway'[ev.of] = "charged"
                                    /\ ev.kind # "charged" => linkOf'[ev.of] # None
    PROVE  /\ JobsKnow' /\ ClerksKnow' /\ WorkersKnow'
           /\ SentOnce' /\ OneDebitPerAttempt'
           /\ SentIsTrue' /\ SuccessIsCharged'
           /\ BusIsBacked' /\ PaidIsBacked'
<1>1. JobsKnow' /\ ClerksKnow'
  BY KeepJobs, KeepClerks DEF callVars, localVars, bookVars
<1>2. \A d \in Debit : Charged(d) => Charged(d)'
  BY DEF IInv, TypeOK, Charged, debitVars
<1>3. WorkersKnow'
  BY <1>2 DEF IInv, WorkersKnow, Knows, HandlesCharge, HandlesLink, callVars, localVars
<1>4. SentOnce' /\ OneDebitPerAttempt'
  <2>1. \A j \in Jobs : pc[j] \in {"send", "captured"} => Key(j) \in Debit
    BY DEF IInv, JobsKnow, Key, Debit
  <2> QED
    BY <2>1 DEF IInv, SentOnce, OneDebitPerAttempt, Key, callVars, localVars, debitVars
<1>5. SentIsTrue'
  <2>1. \A ev \in sent' : ev.kind = "charged" => gateway'[ev.of] = "charged"
    BY EventType DEF IInv, TypeOK, SentIsTrue
  <2>2. \A ev \in sent' : ev.kind # "charged" => linkOf'[ev.of] # None
    BY EventType DEF IInv, TypeOK, SentIsTrue
  <2>3. \A d \in Debit : txn[d] # None => gateway'[txn[d]] = "charged"
    BY DEF IInv, TypeOK, SentIsTrue
  <2> QED
    BY <2>1, <2>2, <2>3 DEF SentIsTrue, debitVars
<1>6. SuccessIsCharged'
  BY <1>2 DEF IInv, SuccessIsCharged, debitVars
<1>7. BusIsBacked' /\ PaidIsBacked'
  <2>1. \A e \in Emis : Collected(e) => Collected(e)'
    <3> SUFFICES ASSUME NEW e \in Emis, Collected(e) PROVE Collected(e)'
      OBVIOUS
    <3>1. CASE cash[e] > 0
      BY <3>1 DEF Collected, bookVars
    <3>2. CASE \E d \in Debit : d[1] = e /\ Charged(d)
      BY <1>2, <3>2 DEF Collected
    <3>3. CASE \E l \in Links : linkOf[l] = e /\ [kind |-> "captured", of |-> l] \in sent
      BY <3>3, NoneAssumption DEF Collected, PaidByLink
    <3> QED
      BY <3>1, <3>2, <3>3 DEF Collected, PaidByLink
  <2> QED
    BY <2>1, Backed DEF emiVars, bookVars
<1> QED
  BY <1>1, <1>3, <1>4, <1>5, <1>6, <1>7

\* The gateway's steps keep the invariant
LEMMA Gateway ==
    ASSUME IInv, GatewayNext
    PROVE  IInv'
<1>1. ASSUME NEW d \in Debit, GatewayCharges(d) PROVE IInv'
  <2> DEFINE ev == [kind |-> "charged", of |-> d]
  <2>1. /\ gateway' = [gateway EXCEPT ![d] = "charged"] /\ gateway[d] = "asked"
        /\ sent' = sent \cup {ev}
        /\ UNCHANGED <<loanVars, emiVars, rowVars, asked, acked, bus, callVars, readVars>>
    BY <1>1 DEF GatewayCharges
  <2>2. ev \in Event /\ ev.kind = "charged" /\ ev.of = d
    BY DEF Event
  <2>3. TypeOK'
    BY <2>1, <2>2 DEF IInv, TypeOK, loanVars, emiVars, rowVars, debitVars, linkVars, bookVars, callVars,
       localVars, readVars
  <2> QED
    BY <2>1, <2>2, <2>3, GatewayMoves DEF IInv, TypeOK, rowVars, linkVars
<1>2. ASSUME NEW d \in Debit, GatewayRefuses(d) PROVE IInv'
  <2>1. /\ gateway' = [gateway EXCEPT ![d] = "refused"] /\ gateway[d] = "asked"
        /\ UNCHANGED <<loanVars, emiVars, rowVars, asked, sent, acked, bus, callVars, readVars>>
    BY <1>2 DEF GatewayRefuses
  <2>2. TypeOK'
    BY <2>1 DEF IInv, TypeOK, loanVars, emiVars, rowVars, debitVars, linkVars, bookVars, callVars,
       localVars, readVars
  <2> QED
    BY <2>1, <2>2, GatewayMoves DEF IInv, TypeOK, rowVars, linkVars
<1>3. ASSUME NEW l \in Links, NEW e \in Emis, CreatePaymentLink(l, e) PROVE IInv'
  <2>1. /\ linkOf' = [linkOf EXCEPT ![l] = e] /\ linkOf[l] = None
        /\ UNCHANGED <<loanVars, emiVars, debitVars, link, processed, bookVars, bankVars, acked, bus, callVars,
                       readVars>>
    BY <1>3 DEF CreatePaymentLink
  <2>2. TypeOK'
    BY <2>1 DEF IInv, TypeOK, loanVars, emiVars, debitVars, bookVars, bankVars, callVars,
       localVars, readVars
  <2> QED
    BY <2>1, <2>2, GatewayMoves DEF IInv, TypeOK, bankVars
<1>4. ASSUME NEW l \in Links, NEW kind \in {"captured", "failed"}, CustomerPays(l, kind) PROVE IInv'
  <2> DEFINE ev == [kind |-> kind, of |-> l]
  <2>1. /\ linkOf[l] # None /\ sent' = sent \cup {ev}
        /\ UNCHANGED <<loanVars, emiVars, rowVars, gateway, asked, acked, bus, callVars, readVars>>
    BY <1>4 DEF CustomerPays
  <2>2. ev \in Event /\ ev.kind # "charged" /\ ev.of = l
    BY DEF Event
  <2>3. TypeOK'
    BY <2>1, <2>2 DEF IInv, TypeOK, loanVars, emiVars, rowVars, debitVars, linkVars, bookVars, callVars,
       localVars, readVars
  <2> QED
    BY <2>1, <2>2, <2>3, GatewayMoves DEF IInv, TypeOK, rowVars, linkVars
<1> QED
  BY <1>1, <1>2, <1>3, <1>4 DEF GatewayNext

-----------------------------------------------------------------------------
(* Webhook executions                                                      *)

\* A webhook execution holds an event that was sent
LEMMA EventInHand ==
    ASSUME IInv, NEW w \in Workers, pc[w] # "idle"
    PROVE  /\ event[w] \in sent /\ event[w] \in Event
           /\ event[w].kind \in {"charged", "captured", "failed"}
           /\ event[w].kind = "charged" => event[w].of \in Debit /\ gateway[event[w].of] = "charged"
           /\ event[w].kind # "charged" => event[w].of \in Links /\ linkOf[event[w].of] \in Emis
<1>1. event[w] \in sent /\ event[w] \in Event
  BY DEF IInv, WorkersKnow, Knows, TypeOK
<1> QED
  BY <1>1, EventType DEF IInv, SentIsTrue, TypeOK

\* A step of one execution leaves the others and their knowledge alone
LEMMA WorkerMoves ==
    ASSUME IInv, NEW w \in Workers, NEW next \in WorkerPc, Goto(w, next), Knows(w)',
           \A v \in Workers : v # w => event'[v] = event[v] /\ row'[v] = row[v],
           \A d \in Debit : Charged(d) => Charged(d)',
           \A d \in Debit : debit[d] # "NONE" => debit'[d] # "NONE",
           UNCHANGED <<at, no, cash, bankVars>>
    PROVE  JobsKnow' /\ ClerksKnow' /\ WorkersKnow' /\ SentOnce' /\ OneDebitPerAttempt'
<1>1. \A p \in Procs : p # w => pc'[p] = pc[p]
  BY Goes DEF IInv, Procs
<1>2. JobsKnow' /\ ClerksKnow'
  BY <1>1, ProcessAssumption, KeepJobs, KeepClerks DEF Procs
<1>3. WorkersKnow'
  BY <1>1 DEF IInv, WorkersKnow, Knows, HandlesCharge, HandlesLink, Procs, bankVars
<1>4. SentOnce' /\ OneDebitPerAttempt'
  <2>1. \A j \in Jobs : pc'[j] = pc[j] /\ (pc[j] \in {"send", "captured"} => Key(j) \in Debit)
    BY <1>1, ProcessAssumption DEF IInv, JobsKnow, Key, Debit, Procs
  <2> QED
    <3>1. \A j \in Jobs : Key(j)' = Key(j)
      BY DEF Key
    <3> QED
      BY <2>1, <3>1 DEF IInv, SentOnce, OneDebitPerAttempt, bankVars
<1> QED
  BY <1>2, <1>3, <1>4

\* The steps that look things up, make rows and answer
Lookup(w) ==
    \/ \E ev \in Event : Deliver(w, ev)
    \/ FindByGatewayTxnId(w) \/ FindLatestPending(w) \/ CreateForNextDue(w)
    \/ FindLinkPayment(w) \/ CheckLinkEmi(w) \/ CreateLinkPayment(w) \/ ConfirmLinkPayment(w)
    \/ PaymentFailed(w) \/ Acknowledge(w) \/ Refuse(w)

\* A lookup of a row leaves the execution with a row of its event
LEMMA LookupKnows ==
    ASSUME IInv, NEW w \in Workers, Lookup(w)
    PROVE  \E next \in WorkerPc : Goto(w, next) /\ Knows(w)'
<1> DEFINE Known == \E next \in WorkerPc : Goto(w, next) /\ Knows(w)'
<1> USE DEF Knows, HandlesCharge, HandlesLink, WorkerPc, SettlePc, Goto
<1>1. /\ pc \in [Procs -> JobPc \cup WorkerPc \cup ClerkPc] /\ w \in Procs /\ Knows(w)
      /\ event \in [Workers -> Event \cup {None}] /\ row \in [Workers -> Debit \cup Links \cup {None}]
  BY DEF IInv, TypeOK, Procs, WorkersKnow
<1>2. ASSUME NEW ev \in Event, Deliver(w, ev) PROVE Known
  <2>1. event'[w] = ev /\ ev \in sent' /\ ev.kind \in {"charged", "captured", "failed"}
    BY <1>1, <1>2, EventType DEF Deliver, bankVars
  <2>2. CASE ev.kind = "charged"
    BY <1>1, <1>2, <2>1, <2>2 DEF Deliver
  <2>3. CASE ev.kind = "captured"
    BY <1>1, <1>2, <2>1, <2>3 DEF Deliver
  <2>4. CASE ev.kind = "failed"
    BY <1>1, <1>2, <2>1, <2>4 DEF Deliver
  <2> QED
    BY <2>1, <2>2, <2>3, <2>4
<1>3. CASE FindByGatewayTxnId(w)
  BY <1>1, <1>3 DEF FindByGatewayTxnId, bankVars
<1>4. CASE FindLatestPending(w)
  BY <1>1, <1>4 DEF FindLatestPending, Awaiting, bankVars
<1>5. CASE CreateForNextDue(w)
  <2>1. \A e \in Due : <<e, 1>> \in Debit
    BY BoundsAssumption DEF Due, Debit
  <2> QED
    BY <1>1, <1>5, <2>1 DEF CreateForNextDue, bankVars
<1>6. CASE FindLinkPayment(w)
  BY <1>1, <1>6 DEF FindLinkPayment, bankVars
<1>7. CASE CheckLinkEmi(w)
  BY <1>1, <1>7 DEF CheckLinkEmi, bankVars, localVars
<1>8. CASE CreateLinkPayment(w)
  BY <1>1, <1>8 DEF CreateLinkPayment, bankVars
<1>9. CASE ConfirmLinkPayment(w)
  BY <1>1, <1>9 DEF ConfirmLinkPayment, bankVars, localVars
<1>10. CASE PaymentFailed(w)
  BY <1>1, <1>10 DEF PaymentFailed, bankVars, localVars
<1>11. CASE Acknowledge(w) \/ Refuse(w)
  BY <1>1, <1>11 DEF Acknowledge, Refuse, Answer
<1> QED
  BY <1>2, <1>3, <1>4, <1>5, <1>6, <1>7, <1>8, <1>9, <1>10, <1>11 DEF Lookup

\* The lookups keep the invariant
LEMMA Lookups ==
    ASSUME IInv, NEW w \in Workers, Lookup(w)
    PROVE  IInv'
<1>1. PICK next \in WorkerPc : Goto(w, next) /\ Knows(w)'
  BY LookupKnows
<1>2. UNCHANGED <<loanVars, emiVars, born, txn, linkOf, bookVars, bankVars, bus, at, visited, no, readVars>>
  BY DEF Lookup, Deliver, FindByGatewayTxnId, FindLatestPending, CreateForNextDue, FindLinkPayment, CheckLinkEmi,
         CreateLinkPayment, ConfirmLinkPayment, PaymentFailed, Acknowledge, Refuse, rowVars, debitVars, linkVars,
         localVars
<1>3. \A v \in Workers : v # w => event'[v] = event[v] /\ row'[v] = row[v]
  BY DEF Lookup, Deliver, FindByGatewayTxnId, FindLatestPending, CreateForNextDue, FindLinkPayment, CheckLinkEmi,
         CreateLinkPayment, ConfirmLinkPayment, PaymentFailed, Acknowledge, Refuse, Answer, localVars, IInv, TypeOK
<1>4. /\ debit' \in [Debit -> RowStatus]
      /\ \A d \in Debit : debit[d] # "NONE" => debit'[d] # "NONE"
      /\ \A d \in Debit : debit'[d] = "SUCCESS" => debit[d] = "SUCCESS"
  <2>1. CASE CreateForNextDue(w)
    BY <2>1 DEF CreateForNextDue, IInv, TypeOK, RowStatus
  <2>2. CASE UNCHANGED debit
    BY <2>2 DEF IInv, TypeOK
  <2> QED
    BY <2>1, <2>2 DEF Lookup, Deliver, FindByGatewayTxnId, FindLatestPending, FindLinkPayment, CheckLinkEmi,
       CreateLinkPayment, ConfirmLinkPayment, PaymentFailed, Acknowledge, Refuse, rowVars, debitVars
<1>5. TypeOK'
  <2>1. pc' \in [Procs -> JobPc \cup WorkerPc \cup ClerkPc]
    BY <1>1, Goes DEF IInv, Procs
  <2>2. /\ event' \in [Workers -> Event \cup {None}]
        /\ row' \in [Workers -> Debit \cup Links \cup {None}]
    <3>1. pc[w] # "idle" /\ event[w].kind # "charged" => event[w].of \in Links
      BY EventInHand
    <3>2. pc[w] \in {"findLink", "createLink"} => event[w].kind = "captured"
      BY DEF IInv, WorkersKnow, Knows
    <3>3. \A e \in Due : <<e, 1>> \in Debit
      BY BoundsAssumption DEF Due, Debit
    <3>4. CASE \E ev \in Event : Deliver(w, ev)
      BY <3>4 DEF Deliver, IInv, TypeOK
    <3>5. CASE FindByGatewayTxnId(w) \/ FindLatestPending(w)
      BY <3>5 DEF FindByGatewayTxnId, FindLatestPending, Awaiting, IInv, TypeOK
    <3>6. CASE CreateForNextDue(w)
      BY <3>3, <3>6 DEF CreateForNextDue, IInv, TypeOK
    <3>7. CASE FindLinkPayment(w) \/ CreateLinkPayment(w)
      BY <3>1, <3>2, <3>7 DEF FindLinkPayment, CreateLinkPayment, IInv, TypeOK
    <3>8. CASE CheckLinkEmi(w) \/ ConfirmLinkPayment(w) \/ PaymentFailed(w)
      BY <3>8 DEF CheckLinkEmi, ConfirmLinkPayment, PaymentFailed, localVars, IInv, TypeOK
    <3>9. CASE Acknowledge(w) \/ Refuse(w)
      BY <3>9 DEF Acknowledge, Refuse, Answer, IInv, TypeOK
    <3> QED
      BY <3>4, <3>5, <3>6, <3>7, <3>8, <3>9 DEF Lookup
  <2>3. link' \in [Links -> RowStatus]
    BY DEF Lookup, Deliver, FindByGatewayTxnId, FindLatestPending, CreateForNextDue, FindLinkPayment, CheckLinkEmi,
           CreateLinkPayment, ConfirmLinkPayment, PaymentFailed, Acknowledge, Refuse, rowVars, linkVars,
           IInv, TypeOK, RowStatus
  <2>4. processed' \subseteq Links
    <3>1. pc[w] \in {"findLink", "linkEmi", "createLink"} => event[w].of \in Links
      BY EventInHand DEF IInv, WorkersKnow, Knows
    <3> QED
      BY <3>1 DEF Lookup, Deliver, FindByGatewayTxnId, FindLatestPending, CreateForNextDue, FindLinkPayment,
         CheckLinkEmi, CreateLinkPayment, ConfirmLinkPayment, PaymentFailed, Acknowledge, Refuse, rowVars, linkVars,
         IInv, TypeOK
  <2>5. acked' \subseteq Event
    <3>1. pc[w] = "ack" => event[w] \in Event
      BY EventInHand
    <3> QED
      BY <3>1 DEF Lookup, Deliver, FindByGatewayTxnId, FindLatestPending, CreateForNextDue, FindLinkPayment,
         CheckLinkEmi, CreateLinkPayment, ConfirmLinkPayment, PaymentFailed, Acknowledge, Refuse, IInv, TypeOK
  <2> QED
    BY <1>2, <1>4, <2>1, <2>2, <2>3, <2>4, <2>5 DEF IInv, TypeOK, loanVars, emiVars, bookVars, bankVars, readVars
<1>6. \A d \in Debit : Charged(d) <=> Charged(d)'
  BY <1>2 DEF Charged, bankVars
<1>7. JobsKnow' /\ ClerksKnow' /\ WorkersKnow' /\ SentOnce' /\ OneDebitPerAttempt'
  BY <1>1, <1>2, <1>3, <1>4, <1>6, WorkerMoves DEF bookVars
<1>8. SentIsTrue' /\ SuccessIsCharged'
  BY <1>2, <1>4, <1>6 DEF IInv, SentIsTrue, SuccessIsCharged, bankVars
<1>9. BusIsBacked' /\ PaidIsBacked'
  BY <1>2, KeepBooks DEF emiVars, bookVars, bankVars
<1> QED
  BY <1>5, <1>7, <1>8, <1>9 DEF IInv

\* The writes to a row and the answers keep the invariant
LEMMA Confirmation ==
    ASSUME IInv, NEW w \in Workers, ConfirmDebit(w)
    PROVE  IInv'
<1>1. /\ pc[w] = "success" /\ event[w].kind = "charged"
      /\ row[w] \in Debit /\ event[w].of \in Debit /\ gateway[event[w].of] = "charged" /\ event[w] \in sent
  <2>1. pc[w] = "success" /\ event[w].kind = "charged"
    BY DEF ConfirmDebit
  <2>2. event[w].of \in Debit /\ gateway[event[w].of] = "charged" /\ event[w] \in sent
    BY <2>1, EventInHand
  <2>3. HandlesCharge(w) \/ HandlesLink(w)
    BY <2>1 DEF IInv, WorkersKnow, Knows
  <2> QED
    BY <2>1, <2>2, <2>3 DEF HandlesCharge, HandlesLink
<1>2. UNCHANGED <<loanVars, emiVars, born, linkVars, bookVars, bankVars, acked, bus, localVars, readVars>>
  BY DEF ConfirmDebit
<1>3. CASE debit' = debit /\ txn' = txn /\ Goto(w, "nack")
  <2>1. Knows(w)' /\ "nack" \in WorkerPc
    BY <1>1, <1>2, <1>3 DEF Knows, Goto, WorkerPc, SettlePc, IInv, TypeOK, localVars, bankVars, Procs
  <2>2. TypeOK'
    BY <1>2, <1>3, <2>1, Goes DEF IInv, TypeOK, loanVars, emiVars, linkVars, bookVars, bankVars, localVars,
       readVars, Procs
  <2>3. \A d \in Debit : Charged(d) <=> Charged(d)'
    BY <1>2, <1>3 DEF Charged, bankVars
  <2>4. JobsKnow' /\ ClerksKnow' /\ WorkersKnow' /\ SentOnce' /\ OneDebitPerAttempt'
    BY <1>2, <1>3, <2>1, <2>3, WorkerMoves DEF localVars, bookVars
  <2>5. SentIsTrue' /\ SuccessIsCharged' /\ BusIsBacked' /\ PaidIsBacked'
    BY <1>2, <1>3, KeepMoney, KeepBooks DEF emiVars, linkVars, bookVars, bankVars
  <2> QED
    BY <2>2, <2>4, <2>5 DEF IInv
<1>4. CASE /\ debit' = [debit EXCEPT ![row[w]] = "SUCCESS"]
           /\ txn' = [txn EXCEPT ![row[w]] = event[w].of]
           /\ Goto(w, "settle")
  <2>1. event[w].of # None
    BY <1>1, NoneAssumption
  <2>2. \A d \in Debit : /\ Charged(d) => Charged(d)'
                         /\ d = row[w] => Charged(d)'
                         /\ d # row[w] => debit'[d] = debit[d] /\ txn'[d] = txn[d]
                         /\ debit[d] # "NONE" => debit'[d] # "NONE"
    BY <1>1, <1>2, <1>4, <2>1 DEF Charged, IInv, TypeOK, bankVars
  <2>3. Knows(w)' /\ "settle" \in WorkerPc
    BY <1>1, <1>2, <1>4, <2>2 DEF Knows, HandlesCharge, Goto, WorkerPc, SettlePc, IInv, TypeOK, localVars, bankVars,
       Procs
  <2>4. TypeOK'
    <3>1. debit' \in [Debit -> RowStatus] /\ txn' \in [Debit -> Debit \cup {None}]
      BY <1>1, <1>4 DEF IInv, TypeOK, RowStatus
    <3> QED
      BY <1>2, <1>4, <2>3, <3>1, Goes DEF IInv, TypeOK, loanVars, emiVars, linkVars, bookVars, bankVars, localVars,
         readVars, Procs
  <2>5. JobsKnow' /\ ClerksKnow' /\ WorkersKnow' /\ SentOnce' /\ OneDebitPerAttempt'
    BY <1>2, <1>4, <2>2, <2>3, WorkerMoves DEF localVars, bookVars
  <2>6. SentIsTrue' /\ SuccessIsCharged'
    BY <1>1, <1>2, <1>4, <2>2 DEF IInv, TypeOK, SentIsTrue, SuccessIsCharged, linkVars, bankVars
  <2>7. BusIsBacked' /\ PaidIsBacked'
    <3>1. \A e \in Emis : Collected(e) => Collected(e)'
      BY <1>2, <2>2 DEF Collected, PaidByLink, linkVars, bookVars, bankVars
    <3> QED
      BY <1>2, <3>1, Backed DEF emiVars, bookVars
  <2> QED
    BY <2>4, <2>5, <2>6, <2>7 DEF IInv
<1> QED
  BY <1>3, <1>4 DEF ConfirmDebit

-----------------------------------------------------------------------------
(* Settlement of an EMI, by a webhook or a clerk                           *)

\* Who settles an EMI has its money on record
LEMMA SettledIsCollected ==
    ASSUME IInv, NEW p \in Workers \cup Clerks, pc[p] \in SettlePc
    PROVE  EmiOf(p) \in Emis /\ Collected(EmiOf(p))
<1>1. CASE p \in Clerks
  <2>1. at[p] \in Emis /\ cash[at[p]] > 0
    BY <1>1 DEF IInv, ClerksKnow, SettlePc
  <2> QED
    BY <1>1, <2>1 DEF EmiOf, Collected
<1>2. CASE p \in Workers /\ HandlesLink(p)
  <2>1. pc[p] # "idle" /\ p \notin Clerks
    BY <1>2, ProcessAssumption DEF SettlePc
  <2>2. event[p] \in sent /\ event[p] \in Event /\ event[p].of \in Links /\ linkOf[event[p].of] \in Emis
    BY <1>2, <2>1, EventInHand DEF HandlesLink
  <2>3. event[p] = [kind |-> "captured", of |-> event[p].of]
    BY <1>2, <2>2 DEF Event, HandlesLink
  <2>4. EmiOf(p) = linkOf[event[p].of]
    BY <1>2, <2>1, <2>2, LinksAssumption DEF EmiOf, HandlesLink
  <2> QED
    BY <2>2, <2>3, <2>4 DEF Collected, PaidByLink
<1>3. CASE p \in Workers /\ HandlesCharge(p) /\ Charged(row[p])
  <2>1. EmiOf(p) = row[p][1] /\ row[p] \in Debit
    BY <1>3, ProcessAssumption DEF EmiOf, HandlesCharge
  <2> QED
    BY <1>3, <2>1, DebitType DEF Collected
<1> QED
  BY <1>1, <1>2, <1>3 DEF IInv, WorkersKnow, Knows

\* The calls of a settlement step
LEMMA SettleMoves ==
    ASSUME IInv, NEW p \in Workers \cup Clerks, pc[p] \in SettlePc,
           NEW next \in SettlePc \cup {"nack", "ack", "done"}, Goto(p, next),
           next \in {"nack", "ack"} => p \in Workers, next = "done" => p \in Clerks,
           UNCHANGED <<localVars, debitVars, linkOf, cash, bankVars>>
    PROVE  /\ pc' \in [Procs -> JobPc \cup WorkerPc \cup ClerkPc]
           /\ JobsKnow' /\ ClerksKnow' /\ WorkersKnow'
           /\ SentOnce' /\ OneDebitPerAttempt' /\ SentIsTrue' /\ SuccessIsCharged'
<1>1. p \in Procs /\ next \in JobPc \cup WorkerPc \cup ClerkPc
  BY DEF Procs, WorkerPc, ClerkPc, SettlePc
<1>2. /\ pc' \in [Procs -> JobPc \cup WorkerPc \cup ClerkPc]
      /\ pc'[p] = next /\ \A q \in Procs : q # p => pc'[q] = pc[q]
  BY <1>1, Goes DEF IInv
<1>3. \A j \in Jobs : pc'[j] = pc[j]
  BY <1>2, ProcessAssumption DEF Procs
<1>4. JobsKnow' /\ SentOnce' /\ OneDebitPerAttempt'
  BY <1>3, KeepJobs, KeepSent DEF localVars, debitVars, bankVars
<1>5. \A d \in Debit : Charged(d) <=> Charged(d)'
  BY DEF Charged, debitVars, bankVars
<1>6. ClerksKnow'
  BY <1>2, ProcessAssumption DEF IInv, ClerksKnow, ClerkPc, SettlePc, Procs, localVars
<1>7. WorkersKnow'
  BY <1>2, <1>5, ProcessAssumption DEF IInv, WorkersKnow, Knows, HandlesCharge, HandlesLink, WorkerPc, SettlePc,
     Procs, localVars, bankVars
<1>8. SentIsTrue' /\ SuccessIsCharged'
  BY KeepMoney DEF debitVars, bankVars
<1> QED
  BY <1>2, <1>4, <1>6, <1>7, <1>8

\* Queued listeners are counted
LEMMA EmitTypes ==
    ASSUME IInv, NEW e \in Emis, Emit(Received(e))
    PROVE  /\ bus' \in [Task -> Nat]
           /\ \A x \in Emis : LET m == [do |-> "mark-paid", emi |-> x] IN bus'[m] > 0 => bus[m] > 0 \/ x = e
<1>1. bus' \in [Task -> Nat]
  BY DEF IInv, TypeOK, Emit
<1>2. \A x \in Emis : [do |-> "mark-paid", emi |-> x] \in Received(e) => x = e
  BY DEF Received
<1>3. \A x \in Emis : [do |-> "mark-paid", emi |-> x] \in Task
  BY TaskType
<1> QED
  BY <1>1, <1>2, <1>3 DEF Emit

\* markPaid, its posting and its events keep the invariant
LEMMA Settlement ==
    ASSUME IInv, NEW p \in Workers \cup Clerks, SettleStep(p)
    PROVE  IInv'
<1>1. pc[p] \in SettlePc
  BY DEF SettleStep, CheckUnpaid, MarkPaid, PostEmiCollection, Announce, SettlePc
<1>2. EmiOf(p) \in Emis /\ Collected(EmiOf(p))
  BY <1>1, SettledIsCollected
<1>3. UNCHANGED <<loanVars, bounces, retryAt, debitVars, link, linkOf, cash, bankVars, acked, localVars, readVars>>
  BY DEF SettleStep, CheckUnpaid, MarkPaid, PostEmiCollection, Announce, emiVars, rowVars, linkVars, bookVars
<1>4. /\ pc' \in [Procs -> JobPc \cup WorkerPc \cup ClerkPc]
      /\ JobsKnow' /\ ClerksKnow' /\ WorkersKnow'
      /\ SentOnce' /\ OneDebitPerAttempt' /\ SentIsTrue' /\ SuccessIsCharged'
  <2>1. \E next \in SettlePc \cup {"nack", "ack", "done"} :
           Goto(p, next) /\ (next \in {"nack", "ack"} => p \in Workers) /\ (next = "done" => p \in Clerks)
    BY DEF SettleStep, CheckUnpaid, MarkPaid, PostEmiCollection, Announce, Thrown, SettlePc
  <2> QED
    BY <1>1, <1>3, <2>1, SettleMoves
<1>5. /\ emi' \in [Emis -> EmiStatus] /\ gl' \in [Emis -> Nat]
      /\ \A e \in Emis : emi'[e] = "PAID" => emi[e] = "PAID" \/ Collected(e)
      /\ \A e \in Emis : gl'[e] > 0 => gl[e] > 0 \/ Collected(e)
  <2>1. ASSUME NEW covers \in Amounts, MarkPaid(p, covers)
        PROVE  UNCHANGED gl /\ \E s \in {"PAID", "PARTIAL"} : emi' = [emi EXCEPT ![EmiOf(p)] = s]
    BY <2>1 DEF MarkPaid, SetEmi, rowVars, bookVars
  <2>2. CASE PostEmiCollection(p)
    BY <1>2, <2>2 DEF PostEmiCollection, IInv, TypeOK, emiVars
  <2>3. CASE CheckUnpaid(p) \/ Announce(p)
    BY <2>3 DEF CheckUnpaid, Announce, IInv, TypeOK, emiVars, rowVars, bookVars
  <2> QED
    BY <1>2, <2>1, <2>2, <2>3 DEF SettleStep, IInv, TypeOK, EmiStatus
<1>6. /\ bus' \in [Task -> Nat]
      /\ \A e \in Emis : LET m == [do |-> "mark-paid", emi |-> e] IN bus'[m] > 0 => bus[m] > 0 \/ Collected(e)
  <2>1. CASE PostEmiCollection(p) \/ Announce(p)
    BY <1>2, <2>1, EmitTypes DEF PostEmiCollection, Announce
  <2>2. CASE UNCHANGED bus
    BY <2>2 DEF IInv, TypeOK
  <2> QED
    BY <2>1, <2>2 DEF SettleStep, CheckUnpaid, MarkPaid
<1>7. processed' \subseteq Links
  BY DEF SettleStep, CheckUnpaid, MarkPaid, PostEmiCollection, Announce, rowVars, linkVars, IInv, TypeOK
<1>8. TypeOK'
  BY <1>3, <1>4, <1>5, <1>6, <1>7 DEF IInv, TypeOK, loanVars, debitVars, bankVars, localVars, readVars
<1>9. BusIsBacked' /\ PaidIsBacked'
  BY <1>3, <1>5, <1>6, CollectedStays, Backed DEF debitVars, bankVars
<1> QED
  BY <1>4, <1>8, <1>9 DEF IInv

\* The clerks' calls keep the invariant
LEMMA ClerkCalls ==
    ASSUME IInv, NEW c \in Clerks, \/ \E e \in Emis, call \in {"cash", "waive"} : Clerk(c, e, call)
                                  \/ RecordCashPayment(c) \/ WaiveEmi(c)
    PROVE  IInv'
<1>1. UNCHANGED <<loanVars, bounces, retryAt, debitVars, linkVars, gl, bankVars, acked, bus, visited, no, event, row,
                  readVars>>
  BY DEF Clerk, RecordCashPayment, WaiveEmi, emiVars, rowVars, bookVars, localVars
<1>2. \E next \in ClerkPc :
         /\ Goto(c, next)
         /\ next # "done" => at'[c] \in Emis
         /\ next \in SettlePc => cash'[at'[c]] > 0
  <2>1. ASSUME NEW e \in Emis, NEW call \in {"cash", "waive"}, Clerk(c, e, call)
        PROVE  at'[c] = e /\ Goto(c, call) /\ call \in ClerkPc /\ call \notin SettlePc
    BY <2>1 DEF Clerk, ClerkPc, SettlePc, IInv, TypeOK, Procs
  <2>2. CASE RecordCashPayment(c)
    <3>1. at[c] \in Emis
      BY <2>2 DEF RecordCashPayment, IInv, ClerksKnow
    <3>2. cash'[at'[c]] > 0 /\ at'[c] = at[c]
      BY <2>2, <3>1 DEF RecordCashPayment, localVars, IInv, TypeOK
    <3> QED
      BY <2>2, <3>1, <3>2 DEF RecordCashPayment, ClerkPc, SettlePc
  <2>3. CASE WaiveEmi(c)
    BY <2>3 DEF WaiveEmi, ClerkPc, SettlePc
  <2> QED
    BY <2>1, <2>2, <2>3
<1>3. PICK next \in ClerkPc :
         /\ Goto(c, next)
         /\ next # "done" => at'[c] \in Emis
         /\ next \in SettlePc => cash'[at'[c]] > 0
  BY <1>2
<1>4. /\ pc' \in [Procs -> JobPc \cup WorkerPc \cup ClerkPc]
      /\ pc'[c] = next /\ \A q \in Procs : q # c => pc'[q] = pc[q]
  BY <1>3, Goes DEF IInv, Procs
<1>5. /\ at' \in [Procs -> Emis \cup {None}] /\ cash' \in [Emis -> Nat] /\ emi' \in [Emis -> EmiStatus]
      /\ \A q \in Procs : q # c => at'[q] = at[q]
      /\ \A e \in Emis : cash[e] > 0 => cash'[e] > 0
      /\ \A e \in Emis : emi'[e] = "PAID" => emi[e] = "PAID"
  <2>1. CASE \E e \in Emis, call \in {"cash", "waive"} : Clerk(c, e, call)
    BY <2>1 DEF Clerk, emiVars, rowVars, bookVars, IInv, TypeOK, Procs
  <2>2. CASE RecordCashPayment(c)
    <3>1. at[c] \in Emis
      BY <2>2 DEF RecordCashPayment, IInv, ClerksKnow
    <3> QED
      BY <2>2, <3>1 DEF RecordCashPayment, emiVars, localVars, IInv, TypeOK
  <2>3. CASE WaiveEmi(c)
    BY <2>3 DEF WaiveEmi, SetEmi, rowVars, bookVars, localVars, IInv, TypeOK, EmiStatus
  <2> QED
    BY <2>1, <2>2, <2>3
<1>6. TypeOK'
  BY <1>1, <1>4, <1>5 DEF IInv, TypeOK, loanVars, debitVars, linkVars, bankVars, readVars
<1>7. JobsKnow' /\ SentOnce' /\ OneDebitPerAttempt'
  <2>1. \A j \in Jobs : pc'[j] = pc[j] /\ at'[j] = at[j]
    BY <1>4, <1>5, ProcessAssumption DEF Procs
  <2>2. \A j \in Jobs : Key(j)' = Key(j)
    BY <1>1, <2>1 DEF Key
  <2> QED
    BY <1>1, <2>1, <2>2, KeepJobs DEF IInv, SentOnce, OneDebitPerAttempt, debitVars, bankVars
<1>8. ClerksKnow'
  BY <1>3, <1>4, <1>5 DEF IInv, ClerksKnow, Procs, ClerkPc, SettlePc
<1>9. WorkersKnow'
  BY <1>1, <1>4, ProcessAssumption, KeepWorkers DEF Procs, debitVars, bankVars
<1>10. SentIsTrue' /\ SuccessIsCharged'
  BY <1>1, KeepMoney DEF debitVars, linkVars, bankVars
<1>11. BusIsBacked' /\ PaidIsBacked'
  <2>1. \A e \in Emis : Collected(e) => Collected(e)'
    BY <1>1, <1>5 DEF Collected, PaidByLink, Charged, debitVars, linkVars, bankVars
  <2> QED
    BY <1>1, <1>5, <2>1, Backed
<1> QED
  BY <1>6, <1>7, <1>8, <1>9, <1>10, <1>11 DEF IInv
-----------------------------------------------------------------------------
(* The theorems                                                            *)

\* Every step keeps the invariant
LEMMA StepIInv == IInv /\ [Next]_vars => IInv'
<1> SUFFICES ASSUME IInv, [Next]_vars PROVE IInv'
  OBVIOUS
<1>1. CASE NextDay \/ CancelMandate
  BY <1>1, Surroundings
<1>2. CASE Crash
  BY <1>2, Crashed
<1>3. ASSUME NEW j \in Jobs, DebitStep(j) \/ ReadBatch(j) \/ (\E e \in Emis : Select(j, e)) PROVE IInv'
  BY <1>3, DebitCalls, Selection, Surroundings
<1>4. ASSUME NEW w \in Workers, WebhookStep(w) \/ (\E ev \in Event : Deliver(w, ev)) PROVE IInv'
  BY <1>4, Lookups, Confirmation, Settlement DEF WebhookStep, Lookup
<1>5. ASSUME NEW c \in Clerks,
             ClerkStep(c) \/ (\E e \in Emis : Clerk(c, e, "cash") \/ Clerk(c, e, "waive"))
      PROVE  IInv'
  BY <1>5, ClerkCalls, Settlement DEF ClerkStep
<1>6. ASSUME NEW e \in Emis, Listen(e) PROVE IInv'
  BY <1>6, Listeners
<1>7. CASE GatewayNext
  BY <1>7, Gateway
<1>8. CASE NightJobs
  BY <1>8, Surroundings, Overdue, Resolution DEF NightJobs
<1>9. CASE UNCHANGED vars
  <2>1. TypeOK'
    BY <1>9 DEF IInv, TypeOK, vars, loanVars, emiVars, rowVars, debitVars, linkVars, bookVars, bankVars, callVars,
       localVars, readVars
  <2>2. BusIsBacked' /\ PaidIsBacked'
    BY <1>9, KeepBooks DEF vars, emiVars, rowVars, debitVars, linkVars, bookVars, bankVars
  <2> QED
    BY <1>9, <2>1, <2>2, KeepCalls DEF IInv, vars
<1> QED
  BY <1>1, <1>2, <1>3, <1>4, <1>5, <1>6, <1>7, <1>8, <1>9 DEF Next

\* The inductive invariant: what every call knows at its program counter, that an
\* attempt is asked for once, and that PAID, postings and listeners follow money.
THEOREM Invariance == Spec => []IInv
BY InitIInv, StepIInv, PTL DEF Spec

\* Every variable stays in its type.
THEOREM TypeCorrect == Spec => []TypeOK
<1>1. IInv => TypeOK
  BY DEF IInv
<1> QED
  BY <1>1, Invariance, PTL

\* No attempt is sent to the bank twice, however many runs of the jobs overlap and
\* whenever the instance dies.
THEOREM DebitsAreSentOnce == Spec => []OneDebitPerAttempt
<1>1. IInv => OneDebitPerAttempt
  BY DEF IInv
<1> QED
  BY <1>1, Invariance, PTL

\* No EMI is PAID, and none has a posting, without money collected for it, whatever
\* is lost, late, doubled or dies on the way.
THEOREM PaymentsAreBacked == Spec => []PaidIsBacked
<1>1. IInv => PaidIsBacked
  BY DEF IInv
<1> QED
  BY <1>1, Invariance, PTL

\* No debit is recorded as a success unless the bank made it, or the charge that its
\* row names.
THEOREM SuccessesAreCharged == Spec => []SuccessIsCharged
<1>1. IInv => SuccessIsCharged
  BY DEF IInv
<1> QED
  BY <1>1, Invariance, PTL
-----------------------------------------------------------------------------
(* The retry limit                                                         *)

\* One run of debitRetry at a time, and so few overlapping runs of nachDebit that the
\* two bounces each may count leave one attempt within the limit
RunsOverlapLittle ==
    /\ IsFiniteSet(NachRuns) /\ 2 * Cardinality(NachRuns) <= RetryLimit + 1
    /\ \A t, u \in RetryRuns : t = u
    /\ RetryDays > 0

Active(j, e) == pc[j] # "idle" /\ at[j] = e

\* The bounces of an EMI that listeners have yet to count
BounceTasks == {"apply-bounce", "write-bounce"}
Queued(do, e, r) == bus[[do |-> do, emi |-> e, retry |-> r]]
Tomorrow == today + RetryDays
Pending(e) ==
    Queued("apply-bounce", e, 0) + Queued("apply-bounce", e, Tomorrow)
    + Queued("write-bounce", e, 0) + Queued("write-bounce", e, Tomorrow)

\* The runs that are through with an EMI today
Done(e) == {j \in NachRuns : e \in visited[j] /\ ~ Active(j, e)}

\* nachDebit handles the EMI of the day and debitRetry earlier ones
RunsKeepTheirDay ==
    \A j \in Jobs, e \in Emis :
        Active(j, e) => e \in visited[j] /\ (IF j \in NachRuns THEN e = today ELSE e < today)

\* An EMI bounces on its day at the earliest, and is retried on a later one
BouncesComeLater ==
    \A e \in Emis :
        /\ retryAt[e] = 0 \/ retryAt[e] > e
        /\ \A do \in BounceTasks, r \in Retry : Queued(do, e, r) > 0 => e <= today /\ r \in {0, Tomorrow}
        /\ today < e => bounces[e] = 0

\* Of the EMI of the day, a run that is through with it left two bounces at most
BouncesAreCounted ==
    \A e \in Emis : e = today => bounces[e] + Pending(e) <= 2 * Cardinality(Done(e))

\* While bounces of an earlier EMI wait to be counted, no run is about to read it
RetryIsAlone ==
    \A j \in RetryRuns, e \in Emis :
        /\ e < today /\ Pending(e) > 0 => e \in visited[j] /\ ~ (pc[j] = "selected" /\ at[j] = e)
        /\ pc[j] = "selected" /\ at[j] = e => bounces[e] < RetryLimit

\* What a run has still to come to is what its query found: nobody else counts a bounce
\* of an EMI that debitRetry has read
BatchIsCurrent ==
    \A j \in Jobs, e \in Emis :
        e \in batch[j] =>
            /\ e \notin visited[j]
            /\ IF j \in NachRuns THEN e = today ELSE e < today /\ bounces[e] < RetryLimit

AttemptIsAllowed ==
    /\ WithinRetryLimit
    /\ \A j \in Jobs : pc[j] \in {"check", "create", "send"} => no[j] <= RetryLimit

RetryInv ==
    /\ RunsKeepTheirDay
    /\ BouncesComeLater
    /\ BouncesAreCounted
    /\ RetryIsAlone
    /\ BatchIsCurrent
    /\ AttemptIsAllowed

\* What the sums are made of
LEMMA QueuedType ==
    ASSUME IInv, RunsOverlapLittle
    PROVE  /\ \A do \in BounceTasks, e \in Emis, r \in Retry :
                  [do |-> do, emi |-> e, retry |-> r] \in Task /\ Queued(do, e, r) \in Nat
           /\ today \in Nat /\ Tomorrow \in Nat /\ Tomorrow > today /\ 0 \in Retry /\ Tomorrow \in Retry /\ Tomorrow # 0
           /\ Emis \subseteq Nat
<1>1. \A do \in BounceTasks, e \in Emis, r \in Retry : [do |-> do, emi |-> e, retry |-> r] \in Task
  BY TaskType DEF BounceTasks
<1>2. bus \in [Task -> Nat] /\ today \in 1..LastDay
  BY DEF IInv, TypeOK, Days
<1> QED
  BY <1>1, <1>2, BoundsAssumption DEF Queued, Retry, Tomorrow, Emis, RunsOverlapLittle

LEMMA PendingType ==
    ASSUME IInv, RunsOverlapLittle, NEW e \in Emis
    PROVE  Pending(e) \in Nat /\ bounces[e] \in Nat
<1>1. bounces[e] \in Nat
  BY DEF IInv, TypeOK
<1>2. \A r \in {0, Tomorrow} : Queued("apply-bounce", e, r) \in Nat /\ Queued("write-bounce", e, r) \in Nat
  BY QueuedType DEF BounceTasks
<1> QED
  BY <1>1, <1>2 DEF Pending

\* The runs that are through are a finite set
LEMMA DoneIsFinite ==
    ASSUME RunsOverlapLittle, NEW e \in Emis
    PROVE  /\ IsFiniteSet(Done(e)) /\ Cardinality(Done(e)) \in Nat
           /\ IsFiniteSet(Done(e)') /\ Cardinality(Done(e)') \in Nat
           /\ Done(e) \subseteq NachRuns
           /\ Done(e) \subseteq Done(e)' => Cardinality(Done(e)) <= Cardinality(Done(e)')
<1>1. Done(e) \subseteq NachRuns /\ Done(e)' \subseteq NachRuns
  BY DEF Done
<1> QED
  BY <1>1, FS_Subset, FS_CardinalityType DEF RunsOverlapLittle

\* A step that none of this is about
Quiet ==
    /\ UNCHANGED <<today, bounces, retryAt, asked, visited, batch, no>>
    /\ \A j \in Jobs : pc'[j] = pc[j] /\ at'[j] = at[j]
    /\ \A do \in BounceTasks, e \in Emis, r \in Retry : Queued(do, e, r)' = Queued(do, e, r)

LEMMA QuietSteps ==
    ASSUME IInv, RunsOverlapLittle, RetryInv, Quiet
    PROVE  RetryInv'
<1>1. \A e \in Emis : Pending(e)' = Pending(e)
  <2>1. Tomorrow' = Tomorrow
    BY DEF Quiet, Tomorrow
  <2> QED
    BY <2>1, QueuedType DEF Quiet, Pending, BounceTasks
<1>2. \A j \in Jobs, e \in Emis : Active(j, e)' <=> Active(j, e)
  BY DEF Quiet, Active
<1>3. \A e \in Emis : Done(e)' = Done(e)
  BY <1>2 DEF Quiet, Done, Jobs
<1>4. RunsKeepTheirDay'
  BY <1>2 DEF RetryInv, Quiet, RunsKeepTheirDay
<1>5. BouncesComeLater'
  BY DEF RetryInv, Quiet, BouncesComeLater, Tomorrow
<1>6. BouncesAreCounted'
  BY <1>1, <1>3 DEF RetryInv, Quiet, BouncesAreCounted
<1>7. RetryIsAlone'
  BY <1>1 DEF RetryInv, Quiet, RetryIsAlone, Jobs
<1>8. AttemptIsAllowed'
  BY DEF RetryInv, Quiet, AttemptIsAllowed, WithinRetryLimit
<1>9. BatchIsCurrent'
  BY DEF RetryInv, Quiet, BatchIsCurrent
<1> QED
  BY <1>4, <1>5, <1>6, <1>7, <1>8, <1>9 DEF RetryInv

\* At first
LEMMA InitRetry == Init /\ RunsOverlapLittle => RetryInv
<1> SUFFICES ASSUME Init, RunsOverlapLittle PROVE RetryInv
  OBVIOUS
<1>0. IInv
  BY InitIInv
<1>1. \A do \in BounceTasks, e \in Emis, r \in Retry : Queued(do, e, r) = 0
  BY <1>0, QueuedType DEF Init, Queued
<1>2. \A e \in Emis : Pending(e) = 0
  BY <1>0, <1>1, QueuedType DEF Pending, BounceTasks
<1>3. \A j \in Jobs : pc[j] = "idle"
  BY DEF Init, Procs
<1>4. RunsKeepTheirDay /\ RetryIsAlone /\ BatchIsCurrent /\ AttemptIsAllowed
  BY <1>2, <1>3 DEF Init, RunsKeepTheirDay, RetryIsAlone, BatchIsCurrent, AttemptIsAllowed, WithinRetryLimit, Active, Jobs
<1>5. BouncesComeLater
  BY <1>1 DEF Init, BouncesComeLater
<1>6. BouncesAreCounted
  BY <1>2, DoneIsFinite DEF Init, BouncesAreCounted
<1> QED
  BY <1>4, <1>5, <1>6 DEF RetryInv

\* A new day: nothing is under way, and nothing of the day has bounced
LEMMA DayRetry ==
    ASSUME IInv, IInv', RunsOverlapLittle, RetryInv, NextDay
    PROVE  RetryInv'
<1>1. /\ today' = today + 1 /\ UNCHANGED <<bounces, retryAt, asked, bus, pc, at, no, batch>>
      /\ \A j \in Jobs : pc[j] = "idle" /\ batch[j] = {}
      /\ \A t \in Task : bus[t] = 0
  BY DEF NextDay, emiVars, bankVars, readVars
<1>2. \A do \in BounceTasks, e \in Emis, r \in Retry : Queued(do, e, r)' = 0
  BY <1>1, QueuedType DEF Queued
<1>3. \A e \in Emis : Pending(e)' = 0
  <2>1. 0 \in Retry /\ Tomorrow' \in Retry
    BY <1>1, BoundsAssumption DEF NextDay, Tomorrow, Retry, IInv, TypeOK, Days, RunsOverlapLittle
  <2> QED
    BY <1>2, <2>1 DEF Pending, BounceTasks
<1>4. RunsKeepTheirDay' /\ RetryIsAlone' /\ BatchIsCurrent' /\ AttemptIsAllowed'
  BY <1>1, <1>3 DEF RetryInv, RunsKeepTheirDay, RetryIsAlone, BatchIsCurrent, AttemptIsAllowed, WithinRetryLimit, Active, Jobs
<1>5. BouncesComeLater'
  BY <1>1, <1>2, QueuedType DEF RetryInv, BouncesComeLater
<1>6. BouncesAreCounted'
  BY <1>1, <1>3, QueuedType, DoneIsFinite DEF RetryInv, BouncesComeLater, BouncesAreCounted
<1> QED
  BY <1>4, <1>5, <1>6 DEF RetryInv

\* A crash ends the calls and forgets the listeners
LEMMA CrashRetry ==
    ASSUME IInv, IInv', RunsOverlapLittle, RetryInv, Crash
    PROVE  RetryInv'
<1>1. /\ UNCHANGED <<today, bounces, retryAt, asked, visited>>
      /\ \A j \in Jobs : pc'[j] = "idle" /\ batch'[j] = {}
      /\ \A t \in Task : bus'[t] = 0
  BY ProcessAssumption DEF Crash, loanVars, emiVars, bankVars, Procs
<1>2. \A do \in BounceTasks, e \in Emis, r \in Retry : Queued(do, e, r)' = 0
  BY <1>1, QueuedType DEF Queued
<1>3. \A e \in Emis : Pending(e)' = 0
  BY <1>1, <1>2, QueuedType DEF Pending, BounceTasks, Tomorrow
<1>4. \A e \in Emis : Pending(e) \in Nat /\ bounces[e] \in Nat
  BY PendingType
<1>5. \A e \in Emis : Done(e) \subseteq Done(e)'
  BY <1>1 DEF Done, Active, Jobs
<1>6. RunsKeepTheirDay' /\ RetryIsAlone' /\ BatchIsCurrent' /\ AttemptIsAllowed'
  BY <1>1, <1>3 DEF RetryInv, RunsKeepTheirDay, RetryIsAlone, BatchIsCurrent, AttemptIsAllowed, WithinRetryLimit, Active, Jobs
<1>7. BouncesComeLater'
  BY <1>1, <1>2 DEF RetryInv, BouncesComeLater
<1>8. BouncesAreCounted'
  <2> SUFFICES ASSUME NEW e \in Emis, e = today'
               PROVE  bounces'[e] + Pending(e)' <= 2 * Cardinality(Done(e)')
    BY DEF BouncesAreCounted
  <2>1. bounces[e] + Pending(e) <= 2 * Cardinality(Done(e))
    BY <1>1 DEF RetryInv, BouncesAreCounted
  <2> QED
    BY <1>1, <1>3, <1>4, <1>5, <2>1, DoneIsFinite
<1> QED
  BY <1>6, <1>7, <1>8 DEF RetryInv

\* The query of a run finds the EMI of the day, or EMIs whose bounces are all counted
LEMMA ReadRetry ==
    ASSUME IInv, RunsOverlapLittle, RetryInv, NEW j \in Jobs, ReadBatch(j)
    PROVE  RetryInv'
<1>1. /\ UNCHANGED <<today, bounces, retryAt, asked, bus, pc, at, no, visited>>
      /\ visited[j] = {}
      /\ batch'[j] = IF j \in NachRuns THEN DueToday ELSE DueForRetry
      /\ \A k \in Jobs : k # j => batch'[k] = batch[k]
  BY DEF ReadBatch, IInv, TypeOK, loanVars, emiVars, bankVars, callVars, localVars
<1>2. \A e \in DueToday : e = today
  BY DEF DueToday
<1>3. \A e \in DueForRetry : e < today /\ bounces[e] < RetryLimit
  <2> SUFFICES ASSUME NEW e \in DueForRetry PROVE e < today /\ bounces[e] < RetryLimit
    OBVIOUS
  <2>1. e \in Emis /\ retryAt[e] # 0 /\ retryAt[e] <= today /\ bounces[e] < RetryLimit
    BY DEF DueForRetry
  <2>2. retryAt[e] > e
    BY <2>1 DEF RetryInv, BouncesComeLater
  <2> QED
    BY <2>1, <2>2, QueuedType DEF IInv, TypeOK, Retry
<1>4. BatchIsCurrent'
  BY <1>1, <1>2, <1>3 DEF RetryInv, BatchIsCurrent
<1>5. \A e \in Emis : Pending(e)' = Pending(e) /\ Done(e)' = Done(e)
  BY <1>1 DEF Pending, Queued, Tomorrow, Done, Active
<1>6. RunsKeepTheirDay' /\ BouncesComeLater' /\ BouncesAreCounted' /\ RetryIsAlone' /\ AttemptIsAllowed'
  BY <1>1, <1>5 DEF RetryInv, RunsKeepTheirDay, BouncesComeLater, BouncesAreCounted, RetryIsAlone,
                    AttemptIsAllowed, WithinRetryLimit, Active, Queued, Tomorrow
<1> QED
  BY <1>4, <1>6 DEF RetryInv

\* A run picks an EMI: the one of the day, or one whose bounces are all counted
LEMMA SelectRetry ==
    ASSUME IInv, RunsOverlapLittle, RetryInv, NEW j \in Jobs, NEW e \in Emis, Select(j, e)
    PROVE  RetryInv'
<1>1. /\ UNCHANGED <<today, bounces, retryAt, asked, bus, no>>
      /\ pc[j] = "idle" /\ pc'[j] = "selected" /\ at'[j] = e /\ e \notin visited[j]
      /\ visited'[j] = visited[j] \cup {e}
      /\ \A k \in Jobs : k # j => pc'[k] = pc[k] /\ at'[k] = at[k] /\ visited'[k] = visited[k]
      /\ e \in batch[j] /\ batch'[j] = batch[j] \ {e}
      /\ \A k \in Jobs : k # j => batch'[k] = batch[k]
  BY DEF Select, Goto, IInv, TypeOK, Procs, loanVars, emiVars, bankVars, RetryInv, BatchIsCurrent
<1>2. IF j \in NachRuns THEN e = today
      ELSE e < today /\ bounces[e] < RetryLimit /\ (Pending(e) > 0 => e \in visited[j])
  <2>1. CASE j \in NachRuns
    BY <1>1, <2>1 DEF RetryInv, BatchIsCurrent
  <2>2. CASE j \notin NachRuns
    <3>1. j \in RetryRuns
      BY <2>2 DEF Jobs
    <3> QED
      BY <1>1, <2>2, <3>1 DEF RetryInv, BatchIsCurrent, RetryIsAlone
  <2> QED
    BY <2>1, <2>2
<1>3. \A x \in Emis : Pending(x)' = Pending(x)
  BY <1>1 DEF Pending, Queued, Tomorrow
<1>4. \A x \in Emis : Done(x)' = Done(x)
  BY <1>1, ProcessAssumption DEF Done, Active, Jobs
<1>5. RunsKeepTheirDay'
  BY <1>1, <1>2 DEF RetryInv, RunsKeepTheirDay, Active
<1>6. BouncesComeLater'
  BY <1>1 DEF RetryInv, BouncesComeLater, Queued, Tomorrow
<1>7. BouncesAreCounted'
  BY <1>1, <1>3, <1>4 DEF RetryInv, BouncesAreCounted
<1>8. RetryIsAlone'
  <2>1. \A x \in Emis : today' = today /\ bounces'[x] = bounces[x]
    BY <1>1
  <2>2. \A k \in RetryRuns : k \in Jobs /\ k \notin NachRuns
    BY ProcessAssumption DEF Jobs
  <2> QED
    BY <1>1, <1>2, <1>3, <2>1, <2>2 DEF RetryInv, RetryIsAlone
<1>9. AttemptIsAllowed'
  BY <1>1 DEF RetryInv, AttemptIsAllowed, WithinRetryLimit
<1>10. BatchIsCurrent'
  BY <1>1 DEF RetryInv, BatchIsCurrent
<1> QED
  BY <1>5, <1>6, <1>7, <1>8, <1>9, <1>10 DEF RetryInv


\* A debit call that does not count a bounce
LEMMA DebitRetry ==
    ASSUME IInv, RunsOverlapLittle, RetryInv, NEW j \in Jobs, DebitStep(j), ~ MarkBounced(j)
    PROVE  RetryInv'
<1>1. /\ UNCHANGED <<today, bounces, retryAt, bus, visited, batch>>
      /\ pc[j] # "idle" /\ pc'[j] # "selected"
      /\ \A k \in Jobs : k # j => pc'[k] = pc[k] /\ at'[k] = at[k] /\ no'[k] = no[k]
      /\ pc'[j] # "idle" => at'[j] = at[j]
  <2>1. UNCHANGED <<today, bounces, retryAt, bus, visited, batch>> /\ pc[j] # "idle"
    BY DEF DebitStep, ReadEmi, FindExistingDebit, CreateDebit, SendDebit, DebitReply, MarkCaptured,
           MarkDebitFailed, ApplyBounce, loanVars, emiVars, localVars, readVars
  <2>2. PICK next \in JobPc : JobAt(j, next)
    BY DebitCallPc
  <2>3. /\ \A k \in Jobs : k # j => pc'[k] = pc[k] /\ at'[k] = at[k] /\ no'[k] = no[k]
        /\ pc'[j] = next
        /\ next # "idle" => at'[j] = at[j]
    BY <2>2 DEF JobAt, Goto, IInv, TypeOK, Procs
  <2>4. pc'[j] # "selected"
    <3>1. pc \in [Procs -> JobPc \cup WorkerPc \cup ClerkPc] /\ j \in Procs
      BY DEF IInv, TypeOK, Procs
    <3> QED
      BY <3>1 DEF DebitStep, ReadEmi, FindExistingDebit, CreateDebit, SendDebit, DebitReply, MarkCaptured,
           MarkDebitFailed, ApplyBounce, Return, Continue, Goto
  <2> QED
    BY <2>1, <2>3, <2>4
<1>2. \A k \in Jobs, e \in Emis : Active(k, e)' => Active(k, e)
  BY <1>1 DEF Active
<1>3. \A e \in Emis : Pending(e)' = Pending(e)
  BY <1>1 DEF Pending, Queued, Tomorrow
<1>4. RunsKeepTheirDay'
  BY <1>1, <1>2 DEF RetryInv, RunsKeepTheirDay
<1>5. BouncesComeLater'
  BY <1>1 DEF RetryInv, BouncesComeLater, Queued, Tomorrow
<1>6. BouncesAreCounted'
  <2>1. \A e \in Emis : Done(e) \subseteq Done(e)'
    BY <1>1, <1>2 DEF Done, Jobs
  <2> SUFFICES ASSUME NEW e \in Emis, e = today'
               PROVE  bounces'[e] + Pending(e)' <= 2 * Cardinality(Done(e)')
    BY DEF BouncesAreCounted
  <2>2. bounces[e] + Pending(e) <= 2 * Cardinality(Done(e))
    BY <1>1 DEF RetryInv, BouncesAreCounted
  <2> QED
    BY <1>1, <1>3, <2>1, <2>2, DoneIsFinite, PendingType
<1>7. RetryIsAlone'
  BY <1>1, <1>3 DEF RetryInv, RetryIsAlone, Jobs
<1>8. AttemptIsAllowed'
  <2>1. \A k \in Jobs : pc'[k] \in {"check", "create", "send"} => no'[k] <= RetryLimit
    <3>1. CASE ReadEmi(j) /\ pc'[j] # "idle"
      <4> DEFINE e == at[j]
      <4>1. e \in Emis /\ Active(j, e) /\ pc[j] = "selected" /\ no'[j] = bounces[e] + 1
        BY <3>1 DEF ReadEmi, Return, Goto, Active, IInv, TypeOK, JobsKnow, Procs
      <4>2. bounces[e] + 1 <= RetryLimit
        <5>1. CASE j \in NachRuns
          <6>1. e = today /\ j \notin Done(e)
            BY <4>1, <5>1 DEF RetryInv, RunsKeepTheirDay, Done
          <6>2. bounces[e] + Pending(e) <= 2 * Cardinality(Done(e))
            BY <4>1, <6>1 DEF RetryInv, BouncesAreCounted
          <6>3. Cardinality(Done(e)) <= Cardinality(NachRuns) - 1
            <7>1. Done(e) \subseteq NachRuns \ {j} /\ IsFiniteSet(NachRuns)
              BY <6>1 DEF Done, RunsOverlapLittle
            <7>2. Cardinality(NachRuns \ {j}) = Cardinality(NachRuns) - 1 /\ IsFiniteSet(NachRuns \ {j})
              BY <5>1, <7>1, FS_RemoveElement
            <7> QED
              BY <7>1, <7>2, FS_Subset
          <6>4. Cardinality(NachRuns) \in Nat /\ Cardinality(Done(e)) \in Nat
            BY <4>1, DoneIsFinite, FS_CardinalityType DEF RunsOverlapLittle
          <6> HIDE DEF e
          <6> QED
            BY <4>1, <6>2, <6>3, <6>4, PendingType, BoundsAssumption DEF RunsOverlapLittle
        <5>2. CASE j \notin NachRuns
          <6>1. bounces[e] < RetryLimit
            BY <4>1, <5>2 DEF RetryInv, RetryIsAlone, Jobs
          <6> QED
            BY <4>1, <6>1, BoundsAssumption DEF IInv, TypeOK
        <5> QED
          BY <5>1, <5>2
      <4> QED
        BY <1>1, <4>1, <4>2 DEF RetryInv, AttemptIsAllowed
    <3>2. CASE ~ (ReadEmi(j) /\ pc'[j] # "idle")
      <4>1. pc'[j] \in {"check", "create", "send"} => pc[j] \in {"check", "create", "send"} /\ no'[j] = no[j]
        BY <3>2 DEF DebitStep, ReadEmi, FindExistingDebit, CreateDebit, SendDebit, DebitReply, MarkCaptured,
           MarkDebitFailed, ApplyBounce, Return, Continue, Goto, IInv, TypeOK, Procs
      <4> QED
        BY <1>1, <4>1 DEF RetryInv, AttemptIsAllowed
    <3> QED
      BY <3>1, <3>2
  <2>2. WithinRetryLimit'
    <3>1. CASE SendDebit(j)
      <4>1. Key(j) \in Debit /\ no[j] <= RetryLimit /\ Key(j)[2] = no[j]
        BY <3>1 DEF SendDebit, IInv, JobsKnow, Key, Debit, RetryInv, AttemptIsAllowed
      <4>2. asked' = [asked EXCEPT ![Key(j)] = @ + 1]
        BY <3>1 DEF SendDebit
      <4> QED
        BY <4>1, <4>2 DEF IInv, TypeOK, RetryInv, AttemptIsAllowed, WithinRetryLimit
    <3>2. CASE ~ SendDebit(j)
      <4>1. UNCHANGED asked
        BY <3>2 DEF DebitStep, ReadEmi, FindExistingDebit, CreateDebit, DebitReply, MarkCaptured,
           MarkDebitFailed, ApplyBounce, bankVars
      <4> QED
        BY <4>1 DEF RetryInv, AttemptIsAllowed, WithinRetryLimit
    <3> QED
      BY <3>1, <3>2
  <2> QED
    BY <2>1, <2>2 DEF AttemptIsAllowed
<1>9. BatchIsCurrent'
  BY <1>1 DEF RetryInv, BatchIsCurrent
<1> QED
  BY <1>4, <1>5, <1>6, <1>7, <1>8, <1>9 DEF RetryInv


\* Only one task of these is added
LEMMA OneMoreQueued ==
    ASSUME IInv, RunsOverlapLittle, NEW e \in Emis, NEW r \in {0, Tomorrow}, UNCHANGED today,
           \A do \in BounceTasks, x \in Emis, q \in Retry :
               Queued(do, x, q)' = IF do = "apply-bounce" /\ x = e /\ q = r
                                   THEN Queued(do, x, q) + 1 ELSE Queued(do, x, q)
    PROVE  /\ Pending(e)' = Pending(e) + 1
           /\ \A x \in Emis : x # e => Pending(x)' = Pending(x)
<1>1. Tomorrow' = Tomorrow
  BY DEF Tomorrow
<1>2. 0 \in Retry /\ Tomorrow \in Retry /\ Tomorrow # 0
  BY QueuedType
<1>3. \A do \in BounceTasks, x \in Emis, q \in {0, Tomorrow} : Queued(do, x, q) \in Nat
  BY <1>2, QueuedType
<1>4. \A x \in Emis : x # e => Pending(x)' = Pending(x)
  BY <1>1, <1>2 DEF Pending, BounceTasks
<1>5. \A q \in {0, Tomorrow} : /\ Queued("write-bounce", e, q)' = Queued("write-bounce", e, q)
                               /\ q # r => Queued("apply-bounce", e, q)' = Queued("apply-bounce", e, q)
                               /\ q = r => Queued("apply-bounce", e, q)' = Queued("apply-bounce", e, q) + 1
  BY <1>2 DEF BounceTasks
<1>6. \A q \in {0, Tomorrow} : Queued("write-bounce", e, q) \in Nat /\ Queued("apply-bounce", e, q) \in Nat
  BY <1>3 DEF BounceTasks
<1>7. Pending(e)' = Pending(e) + 1
  <2>1. CASE r = 0
    BY <1>1, <1>2, <1>5, <1>6, <2>1 DEF Pending
  <2>2. CASE r = Tomorrow
    BY <1>1, <1>2, <1>5, <1>6, <2>2 DEF Pending
  <2> QED
    BY <2>1, <2>2
<1> QED
  BY <1>4, <1>7

\* A run counts a bounce and is through with the EMI; a listener will count it again
LEMMA BounceRetry ==
    ASSUME IInv, RunsOverlapLittle, RetryInv, NEW j \in Jobs, MarkBounced(j)
    PROVE  RetryInv'
<1>0. PICK e \in Emis, r \in {0, Tomorrow} : e = at[j] /\ r = NextRetry(no[j])
  BY DEF MarkBounced, IInv, JobsKnow, NextRetry, Tomorrow
<1>1. /\ UNCHANGED <<today, asked, visited, batch>>
      /\ e \in Emis /\ Active(j, e) /\ pc'[j] = "idle" /\ pc[j] = "markBounced"
      /\ \A k \in Jobs : k # j => pc'[k] = pc[k] /\ at'[k] = at[k] /\ no'[k] = no[k]
      /\ bounces'[e] = bounces[e] + 1 /\ retryAt'[e] = r
      /\ \A x \in Emis : x # e => bounces'[x] = bounces[x] /\ retryAt'[x] = retryAt[x]
  BY <1>0 DEF MarkBounced, Return, Goto, Active, IInv, TypeOK, JobsKnow, Procs, loanVars, bankVars, readVars
<1>2. r \in {0, Tomorrow} /\ 0 \in Retry /\ Tomorrow \in Retry /\ r \in Retry
  BY QueuedType
<1>3. \A do \in BounceTasks, x \in Emis, q \in Retry :
          Queued(do, x, q)' = IF do = "apply-bounce" /\ x = e /\ q = r
                              THEN Queued(do, x, q) + 1 ELSE Queued(do, x, q)
  <2> SUFFICES ASSUME NEW do \in BounceTasks, NEW x \in Emis, NEW q \in Retry
               PROVE  Queued(do, x, q)' = IF do = "apply-bounce" /\ x = e /\ q = r
                                          THEN Queued(do, x, q) + 1 ELSE Queued(do, x, q)
    OBVIOUS
  <2> DEFINE t == [do |-> do, emi |-> x, retry |-> q]
  <2>1. t \in Task
    BY QueuedType
  <2>2. t \in Bounced(e, no[j]) <=> do = "apply-bounce" /\ x = e /\ q = r
    <3>1. t.do # "check-npa" /\ t.do = do
      BY DEF BounceTasks
    <3>2. [do |-> "check-npa", emi |-> e] # t
      <4>1. [do |-> "check-npa", emi |-> e].do = "check-npa"
        OBVIOUS
      <4> HIDE DEF t
      <4> QED
        BY <3>1, <4>1
    <3>3. t = [do |-> "apply-bounce", emi |-> e, retry |-> r] <=> do = "apply-bounce" /\ x = e /\ q = r
      OBVIOUS
    <3> HIDE DEF t
    <3> QED
      BY <1>0, <3>2, <3>3 DEF Bounced
  <2>3. bus' = [u \in Task |-> IF u \in Bounced(e, no[j]) THEN bus[u] + 1 ELSE bus[u]]
    BY <1>0 DEF MarkBounced, Emit
  <2>4. bus'[t] = IF t \in Bounced(e, no[j]) THEN bus[t] + 1 ELSE bus[t]
    BY <2>1, <2>3
  <2> QED
    BY <2>2, <2>4 DEF Queued
<1>4. Pending(e)' = Pending(e) + 1 /\ \A x \in Emis : x # e => Pending(x)' = Pending(x)
  BY <1>1, <1>2, <1>3, OneMoreQueued
<1>5. \A k \in Jobs, x \in Emis : Active(k, x)' <=> Active(k, x) /\ k # j
  BY <1>1 DEF Active
<1>6. e \in visited[j] /\ (IF j \in NachRuns THEN e = today ELSE e < today)
  BY <1>1 DEF RetryInv, RunsKeepTheirDay
<1>7. RunsKeepTheirDay'
  BY <1>1, <1>5 DEF RetryInv, RunsKeepTheirDay
<1>8. BouncesComeLater'
  <2>1. e <= today /\ today \in Nat /\ Tomorrow > today /\ Tomorrow' = Tomorrow /\ e \in Nat
    BY <1>1, <1>6, QueuedType DEF Tomorrow
  <2>2. retryAt'[e] = 0 \/ retryAt'[e] > e
    BY <1>1, <1>2, <2>1, QueuedType
  <2>3. \A x \in Emis : retryAt'[x] = 0 \/ retryAt'[x] > x
    BY <1>1, <2>2 DEF RetryInv, BouncesComeLater
  <2>4. \A x \in Emis : today' < x => bounces'[x] = 0
    BY <1>1, <2>1 DEF RetryInv, BouncesComeLater
  <2>5. \A do \in BounceTasks, x \in Emis, q \in Retry :
            Queued(do, x, q)' > 0 => x <= today /\ q \in {0, Tomorrow}
    <3> SUFFICES ASSUME NEW do \in BounceTasks, NEW x \in Emis, NEW q \in Retry, Queued(do, x, q)' > 0
                 PROVE  x <= today /\ q \in {0, Tomorrow}
      OBVIOUS
    <3>1. CASE Queued(do, x, q)' = Queued(do, x, q)
      BY <3>1 DEF RetryInv, BouncesComeLater
    <3>2. CASE Queued(do, x, q)' # Queued(do, x, q)
      BY <1>2, <1>3, <2>1, <3>2
    <3> QED
      BY <3>1, <3>2
  <2> QED
    BY <1>1, <2>1, <2>3, <2>4, <2>5 DEF BouncesComeLater
<1>9. BouncesAreCounted'
  <2> SUFFICES ASSUME NEW x \in Emis, x = today'
               PROVE  bounces'[x] + Pending(x)' <= 2 * Cardinality(Done(x)')
    BY DEF BouncesAreCounted
  <2>1. bounces[x] + Pending(x) <= 2 * Cardinality(Done(x))
    BY <1>1 DEF RetryInv, BouncesAreCounted
  <2>2. Done(x) \subseteq Done(x)'
    BY <1>1, <1>5 DEF Done, Jobs
  <2>3. CASE x # e
    BY <1>1, <1>4, <2>1, <2>2, <2>3, DoneIsFinite, PendingType
  <2>4. CASE x = e
    <3>1. j \in NachRuns
      BY <1>1, <1>6, <2>4, QueuedType
    <3>2. Done(x) \cup {j} \subseteq Done(x)' /\ j \notin Done(x)
      BY <1>1, <1>5, <1>6, <2>2, <2>4, <3>1 DEF Done, Jobs
    <3>3. Cardinality(Done(x) \cup {j}) = Cardinality(Done(x)) + 1
      BY <3>2, DoneIsFinite, FS_AddElement
    <3>4. Cardinality(Done(x)) + 1 <= Cardinality(Done(x)')
      BY <3>2, <3>3, DoneIsFinite, FS_Subset
    <3>5. Cardinality(Done(x)) \in Nat /\ Cardinality(Done(x)') \in Nat
      BY DoneIsFinite
    <3> QED
      BY <1>1, <1>4, <2>1, <2>4, <3>4, <3>5, PendingType
  <2> QED
    BY <2>3, <2>4
<1>10. RetryIsAlone'
  <2> SUFFICES ASSUME NEW k \in RetryRuns, NEW x \in Emis
               PROVE  /\ x < today' /\ Pending(x)' > 0 => x \in visited'[k] /\ ~ (pc'[k] = "selected" /\ at'[k] = x)
                      /\ pc'[k] = "selected" /\ at'[k] = x => bounces'[x] < RetryLimit
    BY DEF RetryIsAlone
  <2>1. CASE x # e
    BY <1>1, <1>4, <2>1 DEF RetryInv, RetryIsAlone, Jobs
  <2>2. CASE x = e /\ j \in NachRuns
    <3>1. ~ (x < today') /\ ~ Active(k, x)
      BY <1>1, <1>6, <2>2, QueuedType, ProcessAssumption DEF RetryInv, RunsKeepTheirDay, Jobs
    <3>2. ~ (pc'[k] = "selected" /\ at'[k] = x)
      BY <1>5, <3>1 DEF Active, Jobs
    <3> QED
      BY <3>1, <3>2
  <2>3. CASE x = e /\ j \notin NachRuns
    <3>1. k = j
      BY <2>3 DEF RunsOverlapLittle, Jobs
    <3> QED
      BY <1>1, <1>6, <2>3, <3>1
  <2> QED
    BY <2>1, <2>2, <2>3
<1>11. AttemptIsAllowed'
  BY <1>1 DEF RetryInv, AttemptIsAllowed, WithinRetryLimit
<1>12. BatchIsCurrent'
  <2> SUFFICES ASSUME NEW k \in Jobs, NEW x \in Emis, x \in batch[k]
               PROVE  /\ x \notin visited[k]
                      /\ IF k \in NachRuns THEN x = today ELSE x < today /\ bounces'[x] < RetryLimit
    BY <1>1 DEF BatchIsCurrent
  <2>1. /\ x \notin visited[k]
        /\ IF k \in NachRuns THEN x = today ELSE x < today /\ bounces[x] < RetryLimit
    BY DEF RetryInv, BatchIsCurrent
  <2>2. k \notin NachRuns => x # e
    <3> SUFFICES ASSUME k \notin NachRuns, x = e PROVE FALSE
      OBVIOUS
    <3>1. j \notin NachRuns
      BY <1>1, <1>6, <2>1, QueuedType
    <3>2. j = k
      BY <3>1 DEF RunsOverlapLittle, Jobs
    <3> QED
      BY <1>6, <2>1, <3>2
  <2> QED
    BY <1>1, <2>1, <2>2
<1> QED
  BY <1>7, <1>8, <1>9, <1>10, <1>11, <1>12 DEF RetryInv


\* The queue after a step of a bounce listener
LEMMA OneBounceRun ==
    ASSUME IInv, RunsOverlapLittle, RetryInv, NEW e \in Emis, NEW r \in Retry,
           ApplyBounceListener(e, r) \/ WriteBounceListener(e, r)
    PROVE  /\ e <= today /\ r \in {0, Tomorrow} /\ Pending(e) > 0
           /\ \A x \in Emis : x # e => Pending(x)' = Pending(x)
           /\ ApplyBounceListener(e, r) => Pending(e)' <= Pending(e)
           /\ WriteBounceListener(e, r) => Pending(e)' = Pending(e) - 1
           /\ \A do \in BounceTasks, x \in Emis, q \in Retry :
                  Queued(do, x, q)' > 0 => \E did \in BounceTasks : Queued(did, x, q) > 0
<1> DEFINE T(do, x, q) == [do |-> do, emi |-> x, retry |-> q]
<1>1. /\ \A do \in BounceTasks, x \in Emis, q \in Retry : T(do, x, q) \in Task
      /\ "apply-bounce" \in BounceTasks /\ "write-bounce" \in BounceTasks
  BY QueuedType DEF BounceTasks
<1>2. bus \in [Task -> Nat] /\ UNCHANGED today
  BY DEF IInv, TypeOK, ApplyBounceListener, WriteBounceListener, loanVars
<1>3. \E do \in BounceTasks : Queued(do, e, r) > 0
  BY DEF ApplyBounceListener, WriteBounceListener, Queued, BounceTasks
<1>4. e <= today /\ r \in {0, Tomorrow}
  BY <1>3 DEF RetryInv, BouncesComeLater
<1>5. \A do, did \in BounceTasks, x, y \in Emis, p, q \in Retry :
          T(do, x, p) = T(did, y, q) <=> do = did /\ x = y /\ p = q
  OBVIOUS
<1>6. /\ Queued("apply-bounce", e, r) \in Nat /\ Queued("write-bounce", e, r) \in Nat
      /\ \A do \in BounceTasks, x \in Emis, q \in Retry : Queued(do, x, q) \in Nat
  BY <1>1, QueuedType
<1>7. \A do \in BounceTasks, x \in Emis, q \in Retry :
          x # e \/ q # r => Queued(do, x, q)' = Queued(do, x, q)
  <2>1. CASE ApplyBounceListener(e, r)
    <3>1. [T("apply-bounce", e, r) EXCEPT !.do = "write-bounce"] = T("write-bounce", e, r)
      OBVIOUS
    <3>2. Ran(T("apply-bounce", e, r)) \/ Proceed(T("apply-bounce", e, r), T("write-bounce", e, r))
      BY <2>1, <3>1 DEF ApplyBounceListener
    <3> HIDE DEF T
    <3>3. \A t \in Task : t # T("apply-bounce", e, r) /\ t # T("write-bounce", e, r) => bus'[t] = bus[t]
      BY <1>2, <3>2 DEF Ran, Proceed
    <3>4. \A do \in BounceTasks, x \in Emis, q \in Retry :
              x # e \/ q # r => bus'[T(do, x, q)] = bus[T(do, x, q)]
      BY <1>1, <1>5, <3>3
    <3> QED
      BY <3>4 DEF Queued, T
  <2>2. CASE WriteBounceListener(e, r)
    <3>1. Ran(T("write-bounce", e, r))
      BY <2>2 DEF WriteBounceListener
    <3> HIDE DEF T
    <3>2. \A t \in Task : t # T("write-bounce", e, r) => bus'[t] = bus[t]
      BY <1>2, <3>1 DEF Ran
    <3>3. \A do \in BounceTasks, x \in Emis, q \in Retry :
              x # e \/ q # r => bus'[T(do, x, q)] = bus[T(do, x, q)]
      BY <1>1, <1>5, <3>2
    <3> QED
      BY <3>3 DEF Queued, T
  <2> QED
    BY <2>1, <2>2
<1>8. \/ /\ ApplyBounceListener(e, r) /\ ~ WriteBounceListener(e, r)
         /\ Queued("apply-bounce", e, r) > 0
         /\ Queued("apply-bounce", e, r)' = Queued("apply-bounce", e, r) - 1
         /\ Queued("write-bounce", e, r)' \in {Queued("write-bounce", e, r), Queued("write-bounce", e, r) + 1}
      \/ /\ WriteBounceListener(e, r) /\ ~ ApplyBounceListener(e, r)
         /\ Queued("write-bounce", e, r) > 0
         /\ Queued("apply-bounce", e, r)' = Queued("apply-bounce", e, r)
         /\ Queued("write-bounce", e, r)' = Queued("write-bounce", e, r) - 1
  <2>0. ~ (ApplyBounceListener(e, r) /\ WriteBounceListener(e, r))
    BY <1>6 DEF ApplyBounceListener, WriteBounceListener, emiVars, IInv, TypeOK
  <2>1. CASE ApplyBounceListener(e, r)
    <3>1. [T("apply-bounce", e, r) EXCEPT !.do = "write-bounce"] = T("write-bounce", e, r)
      OBVIOUS
    <3>2. /\ Ran(T("apply-bounce", e, r)) \/ Proceed(T("apply-bounce", e, r), T("write-bounce", e, r))
          /\ bus[T("apply-bounce", e, r)] > 0
      BY <2>1, <3>1 DEF ApplyBounceListener
    <3>3. T("apply-bounce", e, r) # T("write-bounce", e, r)
      BY <1>5
    <3> HIDE DEF T
    <3>4. /\ bus'[T("apply-bounce", e, r)] = bus[T("apply-bounce", e, r)] - 1
          /\ bus'[T("write-bounce", e, r)] \in {bus[T("write-bounce", e, r)], bus[T("write-bounce", e, r)] + 1}
      BY <1>1, <1>2, <3>2, <3>3 DEF Ran, Proceed
    <3> QED
      BY <2>0, <2>1, <3>2, <3>4 DEF Queued, T
  <2>2. CASE WriteBounceListener(e, r)
    <3>1. Ran(T("write-bounce", e, r)) /\ bus[T("write-bounce", e, r)] > 0
      BY <2>2 DEF WriteBounceListener
    <3>2. T("apply-bounce", e, r) # T("write-bounce", e, r)
      BY <1>5
    <3> HIDE DEF T
    <3>3. /\ bus'[T("apply-bounce", e, r)] = bus[T("apply-bounce", e, r)]
          /\ bus'[T("write-bounce", e, r)] = bus[T("write-bounce", e, r)] - 1
      BY <1>1, <1>2, <3>1, <3>2 DEF Ran
    <3> QED
      BY <2>0, <2>2, <3>1, <3>3 DEF Queued, T
  <2> QED
    BY <2>1, <2>2
<1>9. \A do \in BounceTasks, x \in Emis, q \in Retry :
          Queued(do, x, q)' > 0 => \E did \in BounceTasks : Queued(did, x, q) > 0
  BY <1>1, <1>3, <1>7
<1>10. Tomorrow' = Tomorrow /\ 0 \in Retry /\ Tomorrow \in Retry /\ Tomorrow # 0
  BY <1>2, QueuedType DEF Tomorrow
<1>11. \A x \in Emis : x # e => Pending(x)' = Pending(x)
  BY <1>1, <1>7, <1>10 DEF Pending
<1>12. /\ Pending(e) > 0
       /\ ApplyBounceListener(e, r) => Pending(e)' <= Pending(e)
       /\ WriteBounceListener(e, r) => Pending(e)' = Pending(e) - 1
  <2>1. \A do \in {"apply-bounce", "write-bounce"}, q \in {0, Tomorrow} :
            Queued(do, e, q) \in Nat /\ (q # r => Queued(do, e, q)' = Queued(do, e, q))
    BY <1>1, <1>6, <1>7, <1>10 DEF BounceTasks
  <2>2. CASE r = 0
    BY <1>8, <1>10, <2>1, <2>2 DEF Pending
  <2>3. CASE r = Tomorrow
    BY <1>8, <1>10, <2>1, <2>3 DEF Pending
  <2> QED
    BY <1>4, <2>2, <2>3
<1> QED
  BY <1>4, <1>9, <1>11, <1>12

\* The listener that counts a bounce a second time
LEMMA ListenerRetry ==
    ASSUME IInv, RunsOverlapLittle, RetryInv, NEW e \in Emis, NEW r \in Retry,
           ApplyBounceListener(e, r) \/ WriteBounceListener(e, r)
    PROVE  RetryInv'
<1>1. /\ UNCHANGED <<today, asked, pc, at, no, visited, batch>>
      /\ ApplyBounceListener(e, r) => UNCHANGED <<bounces, retryAt>>
      /\ WriteBounceListener(e, r) =>
             /\ bounces' = [bounces EXCEPT ![e] = @ + 1] /\ retryAt' = [retryAt EXCEPT ![e] = r]
      /\ bounces \in [Emis -> Nat] /\ retryAt \in [Emis -> Retry]
  BY DEF ApplyBounceListener, WriteBounceListener, loanVars, emiVars, bankVars, callVars, localVars, readVars, IInv, TypeOK
<1>2. /\ e <= today /\ r \in {0, Tomorrow} /\ Pending(e) > 0
      /\ \A x \in Emis : x # e => Pending(x)' = Pending(x)
      /\ ApplyBounceListener(e, r) => Pending(e)' <= Pending(e)
      /\ WriteBounceListener(e, r) => Pending(e)' = Pending(e) - 1
      /\ \A do \in BounceTasks, x \in Emis, q \in Retry :
             Queued(do, x, q)' > 0 => \E did \in BounceTasks : Queued(did, x, q) > 0
  BY OneBounceRun
<1>3. \A x \in Emis : /\ Pending(x) \in Nat
                      /\ Pending(x)' \in Int /\ Pending(x)' <= Pending(x)
                      /\ bounces'[x] + Pending(x)' <= bounces[x] + Pending(x)
                      /\ x # e => bounces'[x] = bounces[x]
  <2>1. \A x \in Emis : Pending(x) \in Nat /\ bounces[x] \in Nat
    BY PendingType
  <2>2. \A x \in Emis : x # e => bounces'[x] = bounces[x]
    BY <1>1
  <2>3. Pending(e)' \in Int
    <3>1. /\ \A do \in BounceTasks, x \in Emis, q \in Retry : [do |-> do, emi |-> x, retry |-> q] \in Task
          /\ 0 \in Retry /\ Tomorrow' \in Retry
      BY <1>1, QueuedType DEF Tomorrow
    <3>2. bus' \in [Task -> Nat]
      BY Listeners DEF Listen, IInv, TypeOK
    <3>3. \A q \in {0, Tomorrow'} : Queued("apply-bounce", e, q)' \in Nat /\ Queued("write-bounce", e, q)' \in Nat
      BY <3>1, <3>2 DEF Queued, BounceTasks
    <3> QED
      BY <3>3 DEF Pending
  <2>4. CASE ApplyBounceListener(e, r)
    BY <1>1, <1>2, <2>1, <2>2, <2>3, <2>4
  <2>5. CASE WriteBounceListener(e, r)
    <3>1. bounces'[e] = bounces[e] + 1
      BY <1>1, <2>5
    <3> QED
      BY <1>2, <2>1, <2>2, <2>3, <2>5, <3>1
  <2> QED
    BY <2>4, <2>5
<1>4. RunsKeepTheirDay'
  BY <1>1 DEF RetryInv, RunsKeepTheirDay, Active
<1>5. BouncesComeLater'
  <2>1. /\ \A x \in Emis : retryAt'[x] = retryAt[x] \/ (x = e /\ retryAt'[x] = r)
        /\ \A x \in Emis : today < x => bounces'[x] = bounces[x]
    BY <1>1, <1>2, <1>3, QueuedType
  <2>2. r = 0 \/ r > e
    BY <1>2, QueuedType
  <2>3. Tomorrow' = Tomorrow
    BY <1>1 DEF Tomorrow
  <2> QED
    BY <1>1, <1>2, <2>1, <2>2, <2>3 DEF RetryInv, BouncesComeLater
<1>6. BouncesAreCounted'
  <2> SUFFICES ASSUME NEW x \in Emis, x = today'
               PROVE  bounces'[x] + Pending(x)' <= 2 * Cardinality(Done(x)')
    BY DEF BouncesAreCounted
  <2>1. bounces[x] + Pending(x) <= 2 * Cardinality(Done(x)) /\ bounces[x] \in Nat /\ bounces'[x] \in Nat
    BY <1>1 DEF RetryInv, BouncesAreCounted
  <2>2. Done(x)' = Done(x)
    BY <1>1 DEF Done, Active
  <2> QED
    BY <1>3, <2>1, <2>2, DoneIsFinite
<1>7. RetryIsAlone'
  <2> SUFFICES ASSUME NEW k \in RetryRuns, NEW x \in Emis
               PROVE  /\ x < today' /\ Pending(x)' > 0 => x \in visited'[k] /\ ~ (pc'[k] = "selected" /\ at'[k] = x)
                      /\ pc'[k] = "selected" /\ at'[k] = x => bounces'[x] < RetryLimit
    BY DEF RetryIsAlone
  <2>1. Pending(x)' > 0 => Pending(x) > 0
    BY <1>3
  <2>2. CASE x # e
    BY <1>1, <1>3, <2>1, <2>2 DEF RetryInv, RetryIsAlone
  <2>3. CASE x = e
    <3>1. pc[k] = "selected" /\ at[k] = x => x < today
      BY ProcessAssumption DEF RetryInv, RunsKeepTheirDay, Active, Jobs
    <3>2. ~ (pc[k] = "selected" /\ at[k] = x)
      BY <1>2, <2>3, <3>1 DEF RetryInv, RetryIsAlone
    <3> QED
      BY <1>1, <2>1, <3>2 DEF RetryInv, RetryIsAlone
  <2> QED
    BY <2>2, <2>3
<1>8. AttemptIsAllowed'
  BY <1>1 DEF RetryInv, AttemptIsAllowed, WithinRetryLimit
<1>9. BatchIsCurrent'
  <2> SUFFICES ASSUME NEW k \in Jobs, NEW x \in Emis, x \in batch[k]
               PROVE  /\ x \notin visited[k]
                      /\ IF k \in NachRuns THEN x = today ELSE x < today /\ bounces'[x] < RetryLimit
    BY <1>1 DEF BatchIsCurrent
  <2>1. /\ x \notin visited[k]
        /\ IF k \in NachRuns THEN x = today ELSE x < today /\ bounces[x] < RetryLimit
    BY DEF RetryInv, BatchIsCurrent
  <2>2. k \notin NachRuns => x # e
    BY <1>2, <2>1 DEF RetryInv, RetryIsAlone, Jobs
  <2> QED
    BY <1>3, <2>1, <2>2
<1> QED
  BY <1>4, <1>5, <1>6, <1>7, <1>8, <1>9 DEF RetryInv


\* Bounces wait in tasks of their own
LEMMA OtherTasks ==
    ASSUME IInv, RunsOverlapLittle,
           \A t \in Task : t.do \in BounceTasks => bus'[t] = bus[t]
    PROVE  \A do \in BounceTasks, e \in Emis, r \in Retry : Queued(do, e, r)' = Queued(do, e, r)
<1>1. \A do \in BounceTasks, e \in Emis, r \in Retry :
          /\ [do |-> do, emi |-> e, retry |-> r] \in Task
          /\ [do |-> do, emi |-> e, retry |-> r].do \in BounceTasks
  BY QueuedType
<1> QED
  BY <1>1 DEF Queued

\* Gateway, webhook executions, clerks, night jobs and the other listeners
LEMMA QuietSurroundings ==
    ASSUME IInv, RunsOverlapLittle, CancelMandate \/ GatewayNext \/ NightJobs \/ UNCHANGED vars
    PROVE  Quiet
<1>1. UNCHANGED <<today, bounces, retryAt, asked, visited, batch, no, pc, at, bus>>
  <2>1. CASE CancelMandate
    BY <2>1 DEF CancelMandate, emiVars, bankVars, callVars, localVars, readVars
  <2>2. CASE GatewayNext
    BY <2>2 DEF GatewayNext, GatewayCharges, GatewayRefuses, CreatePaymentLink, CustomerPays, loanVars, emiVars,
       bankVars, callVars, localVars, readVars
  <2>3. CASE NightJobs
    BY <2>3 DEF NightJobs, ReadOverdue, MarkOverdue, MarkNpa, FindStale, ResolveStale, FailStaleDebit,
       ReadStaleLink, ResolveStaleLink, loanVars, emiVars, bankVars, callVars, localVars, readVars
  <2>4. CASE UNCHANGED vars
    BY <2>4 DEF vars, loanVars, emiVars, bankVars, callVars, localVars, readVars
  <2> QED
    BY <2>1, <2>2, <2>3, <2>4
<1> QED
  BY <1>1 DEF Quiet, Queued

\* One call is not a debit call
LEMMA QuietCalls ==
    ASSUME IInv, RunsOverlapLittle,
           NEW p \in Workers \cup Clerks,
           \/ SettleStep(p)
           \/ p \in Workers /\ (WebhookStep(p) \/ \E ev \in Event : Deliver(p, ev))
           \/ p \in Clerks /\ (ClerkStep(p) \/ \E e \in Emis : Clerk(p, e, "cash") \/ Clerk(p, e, "waive"))
    PROVE  Quiet
<1> DEFINE Others == /\ UNCHANGED <<today, bounces, retryAt, asked, visited, batch, no>>
                     /\ \A q \in Procs : q # p => pc'[q] = pc[q] /\ at'[q] = at[q]
<1>1. pc \in [Procs -> JobPc \cup WorkerPc \cup ClerkPc] /\ at \in [Procs -> Emis \cup {None}]
  BY DEF IInv, TypeOK
<1>2. CASE SettleStep(p)
  <2>1. Others
    BY <1>1, <1>2 DEF SettleStep, CheckUnpaid, MarkPaid, PostEmiCollection, Announce, Goto, loanVars, emiVars,
       bankVars, localVars, readVars
  <2>2. \A t \in Task : t.do \in BounceTasks => bus'[t] = bus[t]
    <3>1. CASE \E e \in {EmiOf(p)} : Emit(Received(e))
      <4>1. PICK e \in {EmiOf(p)} : bus' = [t \in Task |-> IF t \in Received(e) THEN bus[t] + 1 ELSE bus[t]]
        BY <3>1 DEF Emit
      <4>2. \A t \in Received(e) : t.do \notin BounceTasks
        BY DEF Received, BounceTasks
      <4> QED
        BY <4>1, <4>2
    <3>2. CASE UNCHANGED bus
      BY <3>2
    <3> QED
      BY <1>2, <3>1, <3>2 DEF SettleStep, CheckUnpaid, MarkPaid, PostEmiCollection, Announce
  <2> QED
    BY <2>1, <2>2, OtherTasks, ProcessAssumption DEF Quiet, Procs
<1>3. CASE p \in Workers /\ Lookup(p)
  <2>1. UNCHANGED <<today, bounces, retryAt, asked, visited, batch, no, at, bus>>
    BY <1>3 DEF Lookup, Deliver, FindByGatewayTxnId, FindLatestPending, CreateForNextDue, FindLinkPayment,
       CheckLinkEmi, CreateLinkPayment, ConfirmLinkPayment, PaymentFailed, Acknowledge, Refuse, loanVars, emiVars,
       bankVars, localVars, readVars
  <2>2. \A q \in Procs : q # p => pc'[q] = pc[q]
    BY <1>1, <1>3, LookupKnows DEF Goto
  <2> QED
    BY <2>1, <2>2, ProcessAssumption DEF Quiet, Queued, Procs
<1>4. CASE p \in Workers /\ ConfirmDebit(p)
  <2>1. Others /\ UNCHANGED bus
    BY <1>1, <1>4 DEF ConfirmDebit, Goto, loanVars, emiVars, bankVars, localVars, readVars
  <2> QED
    BY <2>1, ProcessAssumption DEF Quiet, Queued, Procs
<1>5. CASE p \in Clerks /\ \/ RecordCashPayment(p) \/ WaiveEmi(p)
                           \/ \E e \in Emis : Clerk(p, e, "cash") \/ Clerk(p, e, "waive")
  <2>1. Others /\ UNCHANGED bus
    BY <1>1, <1>5 DEF RecordCashPayment, WaiveEmi, Clerk, Goto, loanVars, emiVars, bankVars, localVars, readVars
  <2> QED
    BY <2>1, ProcessAssumption DEF Quiet, Queued, Procs
<1> QED
  BY <1>2, <1>3, <1>4, <1>5 DEF WebhookStep, ClerkStep, Lookup

\* A listener of another event
LEMMA QuietListeners ==
    ASSUME IInv, RunsOverlapLittle, NEW e \in Emis,
           \/ MarkPaidListener(e) \/ CheckClosure(e) \/ CloseAccount(e) \/ CheckNpa(e) \/ SetNpa(e)
    PROVE  Quiet
<1>1. UNCHANGED <<today, bounces, retryAt, asked, visited, batch, no, pc, at>>
  BY DEF MarkPaidListener, CheckClosure, CloseAccount, CheckNpa, SetNpa, loanVars, emiVars, bankVars, callVars,
     localVars, readVars
<1>2. \E t, u \in Task : /\ Ran(t) \/ Proceed(t, u)
                         /\ t.do \notin BounceTasks /\ u.do \notin BounceTasks
  <2> DEFINE T(do) == [do |-> do, emi |-> e]
  <2>1. /\ \A do \in {"mark-paid", "check-closure", "close", "check-npa", "set-npa"} :
               T(do) \in Task /\ T(do).do \notin BounceTasks
        /\ [T("check-closure") EXCEPT !.do = "close"] = T("close")
        /\ [T("check-npa") EXCEPT !.do = "set-npa"] = T("set-npa")
    BY TaskType DEF BounceTasks
  <2>2. CASE MarkPaidListener(e)
    BY <2>1, <2>2 DEF MarkPaidListener
  <2>3. CASE CheckClosure(e)
    BY <2>1, <2>3 DEF CheckClosure
  <2>4. CASE CloseAccount(e) \/ SetNpa(e)
    BY <2>1, <2>4 DEF CloseAccount, SetNpa
  <2>5. CASE CheckNpa(e)
    BY <2>1, <2>5 DEF CheckNpa
  <2> QED
    BY <2>2, <2>3, <2>4, <2>5
<1>3. \A t \in Task : t.do \in BounceTasks => bus'[t] = bus[t]
  BY <1>2 DEF Ran, Proceed, IInv, TypeOK
<1> QED
  BY <1>1, <1>3, OtherTasks DEF Quiet

\* Every step keeps it
LEMMA StepRetry == IInv /\ IInv' /\ RunsOverlapLittle /\ RetryInv /\ [Next]_vars => RetryInv'
<1> SUFFICES ASSUME IInv, IInv', RunsOverlapLittle, RetryInv, [Next]_vars PROVE RetryInv'
  OBVIOUS
<1>1. CASE NextDay
  BY <1>1, DayRetry
<1>2. CASE Crash
  BY <1>2, CrashRetry
<1>3. CASE CancelMandate \/ GatewayNext \/ NightJobs \/ UNCHANGED vars
  BY <1>3, QuietSurroundings, QuietSteps
<1>4. ASSUME NEW j \in Jobs, DebitStep(j) \/ ReadBatch(j) \/ (\E e \in Emis : Select(j, e)) PROVE RetryInv'
  BY <1>4, DebitRetry, BounceRetry, ReadRetry, SelectRetry
<1>5. ASSUME NEW w \in Workers, WebhookStep(w) \/ (\E ev \in Event : Deliver(w, ev)) PROVE RetryInv'
  BY <1>5, QuietCalls, QuietSteps
<1>6. ASSUME NEW c \in Clerks,
             ClerkStep(c) \/ (\E e \in Emis : Clerk(c, e, "cash") \/ Clerk(c, e, "waive"))
      PROVE  RetryInv'
  BY <1>6, QuietCalls, QuietSteps
<1>7. ASSUME NEW e \in Emis, Listen(e) PROVE RetryInv'
  BY <1>7, ListenerRetry, QuietListeners, QuietSteps DEF Listen
<1> QED
  BY <1>1, <1>2, <1>3, <1>4, <1>5, <1>6, <1>7 DEF Next

\* ENACH_RETRY_LIMIT is kept, whatever is lost, late or dies on the way and whatever
\* customers, clerks and webhooks do in between, if no two runs of debitRetry overlap
\* and few enough of nachDebit do: their query does not test the limit, and each
\* bounce is counted by the run and again by a listener.
THEOREM RetriesAreLimited == RunsOverlapLittle => (Spec => []WithinRetryLimit)
<1>1. RunsOverlapLittle /\ Init => RunsOverlapLittle /\ RetryInv
  BY InitRetry
<1>2. IInv /\ IInv' /\ RunsOverlapLittle /\ RetryInv /\ [Next]_vars => (RunsOverlapLittle /\ RetryInv)'
  BY StepRetry DEF RunsOverlapLittle
<1>3. RunsOverlapLittle /\ RetryInv => WithinRetryLimit
  BY DEF RetryInv, AttemptIsAllowed
<1> QED
  BY <1>1, <1>2, <1>3, Invariance, PTL DEF Spec

-----------------------------------------------------------------------------
(* Refinement                                                              *)

\* Whoever is past the call to the bank, or handles a row, has one
PastCall == {"waiting", "captured", "refused"}
RowsExist ==
    /\ \A j \in Jobs : pc[j] \in PastCall => debit[Key(j)] # "NONE"
    /\ \A w \in Workers : row[w] \in Debit => debit[row[w]] # "NONE"
    /\ \A d \in Debit : txn[d] # None => debit[d] # "NONE"
    /\ \A d \in stale \cap Debit : debit[d] # "NONE"

LEMMA InitRows == Init => RowsExist
<1>1. None \notin Debit
  BY NoneAssumption
<1>2. Init => /\ \A j \in Jobs : pc[j] = "idle"
              /\ \A w \in Workers : row[w] = None
              /\ \A d \in Debit : txn[d] = None
              /\ stale = {}
  BY DEF Init, Procs
<1> QED
  BY <1>1, <1>2 DEF RowsExist, PastCall

\* A debit call past its first read has the key of a debit
LEMMA KeyType ==
    ASSUME IInv, NEW j \in Jobs, pc[j] \in {"check", "create", "send"} \cup PastCall
    PROVE  Key(j) \in Debit
<1>1. at[j] \in Emis /\ no[j] \in 1..MaxAttempts
  BY DEF IInv, JobsKnow, PastCall
<1> QED
  BY <1>1 DEF Key, Debit

\* Rows stay, so what had one has it still
LEMMA KeepRows ==
    ASSUME IInv, RowsExist,
           \A d \in Debit : debit[d] # "NONE" => debit'[d] # "NONE",
           \A j \in Jobs : pc'[j] \in PastCall => pc[j] \in PastCall \cup {"send"} /\ at'[j] = at[j] /\ no'[j] = no[j],
           \A w \in Workers : row'[w] \in Debit => row'[w] = row[w] \/ debit'[row'[w]] # "NONE",
           \A d \in Debit : txn'[d] # None => txn'[d] = txn[d] \/ debit'[d] # "NONE",
           \A d \in stale' \cap Debit : d \in stale \/ debit'[d] # "NONE"
    PROVE  RowsExist'
<1>1. ASSUME NEW j \in Jobs, pc'[j] \in PastCall PROVE debit'[Key(j)'] # "NONE"
  <2>1. pc[j] \in PastCall \cup {"send"} /\ Key(j)' = Key(j) /\ Key(j) \in Debit
    BY <1>1, KeyType DEF Key
  <2>2. debit[Key(j)] # "NONE"
    BY <2>1 DEF RowsExist, IInv, SentOnce, PastCall
  <2> QED
    BY <2>1, <2>2
<1>2. ASSUME NEW w \in Workers, row'[w] \in Debit PROVE debit'[row'[w]] # "NONE"
  BY <1>2 DEF RowsExist
<1>3. /\ \A d \in Debit : txn'[d] # None => debit'[d] # "NONE"
      /\ \A d \in stale' \cap Debit : debit'[d] # "NONE"
  BY DEF RowsExist
<1> QED
  BY <1>1, <1>2, <1>3 DEF RowsExist, PastCall

\* The steps of a debit call
LEMMA DebitRows ==
    ASSUME IInv, RowsExist, NEW j \in Jobs, DebitStep(j)
    PROVE  RowsExist'
<1>1. UNCHANGED <<row, txn, stale>>
  BY DEF rowVars, debitVars, DebitStep, ReadEmi, FindExistingDebit, CreateDebit, SendDebit, DebitReply, MarkCaptured,
         MarkDebitFailed, ApplyBounce, MarkBounced, localVars, readVars
<1>2. \A d \in Debit : debit[d] # "NONE" => debit'[d] # "NONE"
  <2>1. CASE CreateDebit(j) \/ MarkCaptured(j) \/ MarkDebitFailed(j)
    BY <2>1 DEF CreateDebit, MarkCaptured, MarkDebitFailed, IInv, TypeOK
  <2>2. CASE UNCHANGED debit
    BY <2>2
  <2> QED
    BY <2>1, <2>2 DEF DebitStep, ReadEmi, FindExistingDebit, SendDebit, DebitReply, ApplyBounce, MarkBounced,
       rowVars, debitVars
<1>3. ASSUME NEW k \in Jobs, pc'[k] \in PastCall
      PROVE  pc[k] \in PastCall \cup {"send"} /\ at'[k] = at[k] /\ no'[k] = no[k]
  <2>1. pc \in [Procs -> JobPc \cup WorkerPc \cup ClerkPc] /\ at \in [Procs -> Emis \cup {None}] /\ no \in [Jobs -> Nat]
        /\ j \in Procs /\ k \in Procs
    BY DEF IInv, TypeOK, Procs
  <2> USE DEF PastCall, Goto, Return, Continue
  <2>2. CASE ReadEmi(j)
    BY <1>3, <2>1, <2>2 DEF ReadEmi
  <2>3. CASE FindExistingDebit(j)
    BY <1>3, <2>1, <2>3 DEF FindExistingDebit
  <2>4. CASE CreateDebit(j)
    BY <1>3, <2>1, <2>4 DEF CreateDebit
  <2>5. CASE SendDebit(j)
    BY <1>3, <2>1, <2>5 DEF SendDebit, localVars
  <2>6. ASSUME NEW reply \in {"pending", "captured", "error"}, DebitReply(j, reply)
        PROVE  pc[k] \in PastCall \cup {"send"} /\ at'[k] = at[k] /\ no'[k] = no[k]
    BY <1>3, <2>1, <2>6 DEF DebitReply
  <2>7. CASE MarkCaptured(j)
    BY <1>3, <2>1, <2>7 DEF MarkCaptured
  <2>8. CASE MarkDebitFailed(j)
    BY <1>3, <2>1, <2>8 DEF MarkDebitFailed, localVars
  <2>9. CASE ApplyBounce(j)
    BY <1>3, <2>1, <2>9 DEF ApplyBounce
  <2>10. CASE MarkBounced(j)
    BY <1>3, <2>1, <2>10 DEF MarkBounced
  <2> QED
    BY <2>2, <2>3, <2>4, <2>5, <2>6, <2>7, <2>8, <2>9, <2>10 DEF DebitStep
<1> QED
  BY <1>1, <1>2, <1>3, KeepRows

\* The steps of a webhook execution
LEMMA WebhookRows ==
    ASSUME IInv, RowsExist, NEW w \in Workers,
           WebhookStep(w) \/ \E ev \in Event : Deliver(w, ev)
    PROVE  RowsExist'
<1>1. UNCHANGED <<at, no, stale>>
  BY DEF WebhookStep, Deliver, FindByGatewayTxnId, FindLatestPending, CreateForNextDue, FindLinkPayment, CheckLinkEmi,
         CreateLinkPayment, ConfirmLinkPayment, PaymentFailed, Acknowledge, Refuse, ConfirmDebit, SettleStep,
         CheckUnpaid, MarkPaid, PostEmiCollection, Announce, localVars, readVars
<1>2. \A j \in Jobs : pc'[j] = pc[j]
  BY ProcessAssumption
     DEF WebhookStep, Deliver, FindByGatewayTxnId, FindLatestPending, CreateForNextDue, FindLinkPayment, CheckLinkEmi,
         CreateLinkPayment, ConfirmLinkPayment, PaymentFailed, Acknowledge, Refuse, ConfirmDebit, SettleStep,
         CheckUnpaid, MarkPaid, PostEmiCollection, Announce, Answer, Goto, IInv, TypeOK, Procs
<1>3. \A d \in Debit : debit[d] # "NONE" => debit'[d] # "NONE"
  <2>1. CASE CreateForNextDue(w) \/ ConfirmDebit(w)
    BY <2>1 DEF CreateForNextDue, ConfirmDebit, IInv, TypeOK
  <2>2. CASE UNCHANGED debit
    BY <2>2
  <2> QED
    BY <2>1, <2>2 DEF WebhookStep, Deliver, FindByGatewayTxnId, FindLatestPending, FindLinkPayment, CheckLinkEmi,
       CreateLinkPayment, ConfirmLinkPayment, PaymentFailed, Acknowledge, Refuse, SettleStep,
       CheckUnpaid, MarkPaid, PostEmiCollection, Announce, rowVars, debitVars
<1>4. \A v \in Workers : row'[v] \in Debit => row'[v] = row[v] \/ debit'[row'[v]] # "NONE"
  <2>1. None \notin Debit /\ row \in [Workers -> Debit \cup Links \cup {None}]
    BY NoneAssumption DEF IInv, TypeOK
  <2>2. CASE FindByGatewayTxnId(w)
    <3>1. pc[w] = "findTxn" => event[w].of \in Debit
      BY EventInHand DEF IInv, WorkersKnow, Knows
    <3>2. \A d \in Debit : txn[d] = event[w].of /\ pc[w] = "findTxn" => debit[d] # "NONE"
      BY <2>1, <3>1 DEF RowsExist
    <3> QED
      BY <2>1, <2>2, <3>2 DEF FindByGatewayTxnId, rowVars, debitVars
  <2>3. CASE FindLatestPending(w)
    BY <2>1, <2>3 DEF FindLatestPending, Awaiting, rowVars, debitVars
  <2>4. CASE CreateForNextDue(w)
    <3>1. \A e \in Due : <<e, 1>> \in Debit
      BY BoundsAssumption DEF Due, Debit
    <3> QED
      BY <2>1, <2>4, <3>1 DEF CreateForNextDue, IInv, TypeOK
  <2>5. CASE FindLinkPayment(w) \/ CreateLinkPayment(w)
    <3>1. event[w].kind = "captured"
      BY <2>5 DEF FindLinkPayment, CreateLinkPayment, IInv, WorkersKnow, Knows
    <3>2. event[w].of \in Links
      BY <2>5, <3>1, EventInHand DEF FindLinkPayment, CreateLinkPayment
    <3> QED
      BY <2>1, <2>5, <3>2, LinksAssumption DEF FindLinkPayment, CreateLinkPayment
  <2>6. CASE Acknowledge(w) \/ Refuse(w)
    BY <2>1, <2>6 DEF Acknowledge, Refuse, Answer
  <2>7. CASE UNCHANGED row
    BY <2>7
  <2> QED
    BY <2>2, <2>3, <2>4, <2>5, <2>6, <2>7
       DEF WebhookStep, Deliver, CheckLinkEmi, ConfirmLinkPayment, PaymentFailed, ConfirmDebit, SettleStep,
           CheckUnpaid, MarkPaid, PostEmiCollection, Announce, localVars
<1>5. \A d \in Debit : txn'[d] # None => txn'[d] = txn[d] \/ debit'[d] # "NONE"
  <2>1. CASE ConfirmDebit(w)
    BY <2>1 DEF ConfirmDebit, IInv, TypeOK
  <2>2. CASE UNCHANGED txn
    BY <2>2
  <2> QED
    BY <2>1, <2>2 DEF WebhookStep, Deliver, FindByGatewayTxnId, FindLatestPending, CreateForNextDue, FindLinkPayment,
       CheckLinkEmi, CreateLinkPayment, ConfirmLinkPayment, PaymentFailed, Acknowledge, Refuse, SettleStep,
       CheckUnpaid, MarkPaid, PostEmiCollection, Announce, rowVars, debitVars
<1> QED
  BY <1>1, <1>2, <1>3, <1>4, <1>5, KeepRows DEF PastCall

\* All other steps leave the rows alone, but for the job that fails the stale ones
LEMMA OtherRows ==
    ASSUME IInv, RowsExist,
           \/ NextDay \/ CancelMandate \/ Crash \/ GatewayNext \/ NightJobs
           \/ \E e \in Emis : Listen(e) \/ \E j \in Jobs : Select(j, e)
           \/ \E j \in Jobs : ReadBatch(j)
           \/ \E c \in Clerks : ClerkStep(c) \/ \E e \in Emis : Clerk(c, e, "cash") \/ Clerk(c, e, "waive")
           \/ UNCHANGED vars
    PROVE  RowsExist'
<1> DEFINE Same == UNCHANGED <<debit, txn, row, stale, no>>
<1>1. CASE NextDay \/ CancelMandate \/ GatewayNext \/ (\E e \in Emis : Listen(e)) \/ UNCHANGED vars
           \/ (\E e \in Emis : ReadOverdue(e) \/ MarkOverdue(e)) \/ MarkNpa
           \/ (\E j \in Jobs : ReadBatch(j))
  <2>1. Same /\ UNCHANGED <<pc, at>>
    BY <1>1 DEF NextDay, CancelMandate, GatewayNext, GatewayCharges, GatewayRefuses, CreatePaymentLink, CustomerPays,
       Listen, MarkPaidListener, CheckClosure, CloseAccount, CheckNpa, SetNpa, ApplyBounceListener,
       WriteBounceListener, ReadOverdue, MarkOverdue, MarkNpa, ReadBatch, vars, rowVars, debitVars, callVars, localVars, readVars
  <2> QED
    BY <2>1, KeepRows DEF PastCall
<1>2. CASE Crash
  <2>1. /\ UNCHANGED <<debit, txn>> /\ stale' = {}
        /\ \A j \in Jobs : pc'[j] = "idle"
        /\ \A w \in Workers : row'[w] = None
    BY <1>2, ProcessAssumption DEF Crash, Procs, rowVars, debitVars
  <2>2. None \notin Debit
    BY NoneAssumption
  <2> QED
    BY <2>1, <2>2, KeepRows DEF PastCall
<1>3. ASSUME NEW j \in Jobs, NEW e \in Emis, Select(j, e) PROVE RowsExist'
  <2>1. /\ Same
        /\ \A k \in Jobs : pc'[k] \in PastCall => pc'[k] = pc[k] /\ at'[k] = at[k]
    BY <1>3 DEF Select, Goto, PastCall, IInv, TypeOK, Procs, rowVars, debitVars
  <2> QED
    BY <2>1, KeepRows
<1>4. ASSUME NEW c \in Clerks,
             ClerkStep(c) \/ \E e \in Emis : Clerk(c, e, "cash") \/ Clerk(c, e, "waive")
      PROVE  RowsExist'
  <2>1. Same
    BY <1>4 DEF ClerkStep, Clerk, RecordCashPayment, WaiveEmi, SettleStep, CheckUnpaid, MarkPaid, PostEmiCollection,
       Announce, rowVars, debitVars, localVars, readVars
  <2>2. \A j \in Jobs : pc'[j] = pc[j] /\ at'[j] = at[j]
    BY <1>4, ProcessAssumption
       DEF ClerkStep, Clerk, RecordCashPayment, WaiveEmi, SettleStep, CheckUnpaid, MarkPaid, PostEmiCollection,
       Announce, Goto, localVars, IInv, TypeOK, Procs
  <2> QED
    BY <2>1, <2>2, KeepRows DEF PastCall
<1>5. CASE FindStale \/ ResolveStale
  <2>1. UNCHANGED <<txn, row, no, pc, at>>
    BY <1>5 DEF FindStale, ResolveStale, FailStaleDebit, ReadStaleLink, ResolveStaleLink, rowVars, debitVars, callVars, localVars
  <2>2. /\ \A d \in Debit : debit[d] # "NONE" => debit'[d] # "NONE"
        /\ \A d \in stale' \cap Debit : d \in stale \/ debit'[d] # "NONE"
    BY <1>5, LinksAssumption
       DEF FindStale, ResolveStale, FailStaleDebit, ReadStaleLink, ResolveStaleLink, rowVars, debitVars, IInv, TypeOK
  <2> QED
    BY <2>1, <2>2, KeepRows DEF PastCall
<1> QED
  BY <1>1, <1>2, <1>3, <1>4, <1>5 DEF NightJobs

LEMMA StepRows == IInv /\ RowsExist /\ [Next]_vars => RowsExist'
BY DebitRows, WebhookRows, OtherRows DEF Next

\* What LoanCollection sees of a step that is none of its own
Unseen == UNCHANGED <<gateway, debit, txn, cash, linkOf, sent, emi, gl>>
Allowed == Collection!Next \/ UNCHANGED Collection!vars

LEMMA UnseenIsAllowed == Unseen => Allowed
BY DEF Unseen, Allowed, PaidByLink, Collection!vars

LEMMA CollectedIsBacked ==
    ASSUME NEW e \in Emis, Collected(e)
    PROVE  Collection!Backed(e)
BY DEF Collected, Charged, Debit, Collection!Backed, Collection!Debits

\* A write of an EMI's status
LEMMA EmiIsPaidOrNot ==
    ASSUME IInv, NEW e \in Emis, NEW s \in EmiStatus, SetEmi(e, s), s = "PAID" => Collected(e),
           UNCHANGED <<gateway, debit, txn, cash, linkOf, sent, gl>>
    PROVE  Allowed
<1> DEFINE Paid == {x \in Emis : emi[x] = "PAID"}
<1>1. Paid' = IF s = "PAID" THEN Paid \cup {e} ELSE Paid \ {e}
  BY DEF SetEmi, IInv, TypeOK
<1>2. UNCHANGED {x \in Emis : cash[x] > 0 \/ PaidByLink(x)}
  BY DEF PaidByLink
<1>3. CASE s = "PAID"
  BY <1>1, <1>2, <1>3, CollectedIsBacked DEF Allowed, Collection!Next, Collection!Pay, Collection!rows
<1>4. CASE s # "PAID"
  BY <1>1, <1>2, <1>4 DEF Allowed, Collection!Next, Collection!Unpay, Collection!rows
<1> QED
  BY <1>3, <1>4

\* A write of an ENACH row
LEMMA RowIsKept ==
    ASSUME IInv, NEW d \in Debit, NEW s \in RowStatus, debit' = [debit EXCEPT ![d] = s],
           UNCHANGED <<gateway, cash, linkOf, sent, emi, gl>>,
           \/ s = "PENDING" /\ debit[d] = "NONE" /\ UNCHANGED txn
           \/ s = "SUCCESS" /\ debit[d] # "NONE" /\ gateway[d] = "charged" /\ UNCHANGED txn
           \/ s = "FAILED" /\ debit[d] # "NONE" /\ UNCHANGED txn
           \/ /\ s = "SUCCESS" /\ debit[d] # "NONE"
              /\ \E c \in Debit : /\ gateway[c] = "charged" /\ txn' = [txn EXCEPT ![d] = c]
                                  /\ \A other \in Debit \ {d} : txn[other] # c
    PROVE  Allowed
<1>1. Debit = Collection!Debits
  BY DEF Debit, Collection!Debits
<1>2. /\ UNCHANGED {x \in Emis : cash[x] > 0 \/ PaidByLink(x)}
      /\ UNCHANGED {x \in Emis : emi[x] = "PAID"}
  BY DEF PaidByLink
<1>3. Collection!Record(d) \/ Collection!Capture(d) \/ Collection!Fail(d) \/ \E c \in Debit : Collection!Confirm(d, c)
  BY <1>1, <1>2 DEF Collection!Record, Collection!Capture, Collection!Fail, Collection!Confirm, Collection!Succeed,
     Collection!books
<1> QED
  BY <1>1, <1>3 DEF Allowed, Collection!Next

\* A write of the bank
LEMMA BankActs ==
    ASSUME IInv, NEW d \in Debit, UNCHANGED <<debit, txn, cash, linkOf, emi, gl>>,
           \A l \in Links : [kind |-> "captured", of |-> l] \in sent' <=> [kind |-> "captured", of |-> l] \in sent,
           \/ gateway[d] = "none" /\ debit[d] # "NONE" /\ gateway' = [gateway EXCEPT ![d] = "asked"]
           \/ gateway[d] = "asked" /\ \E s \in {"charged", "refused"} : gateway' = [gateway EXCEPT ![d] = s]
    PROVE  Allowed
<1>1. Debit = Collection!Debits
  BY DEF Debit, Collection!Debits
<1>2. /\ UNCHANGED {x \in Emis : cash[x] > 0 \/ PaidByLink(x)}
      /\ UNCHANGED {x \in Emis : emi[x] = "PAID"}
  BY DEF PaidByLink
<1>3. Collection!Ask(d) \/ \E s \in {"charged", "refused"} : Collection!Answer(d, s)
  BY <1>2 DEF Collection!Ask, Collection!Answer, Collection!rows, Collection!books
<1> QED
  BY <1>1, <1>3 DEF Allowed, Collection!Next

\* Money other than a debit's
LEMMA MoneyComes ==
    ASSUME IInv, NEW e \in Emis, UNCHANGED <<gateway, debit, txn, emi, gl>>,
           \A x \in Emis : (cash[x] > 0 \/ PaidByLink(x))' <=> cash[x] > 0 \/ PaidByLink(x) \/ x = e
    PROVE  Allowed
<1> DEFINE Came == {x \in Emis : cash[x] > 0 \/ PaidByLink(x)}
<1>1. Came' = Came \cup {e}
  OBVIOUS
<1>2. UNCHANGED {x \in Emis : emi[x] = "PAID"}
  OBVIOUS
<1> QED
  BY <1>1, <1>2 DEF Allowed, Collection!Next, Collection!Receive, Collection!rows

LEMMA DebitIsAllowed ==
    ASSUME IInv, RowsExist, NEW j \in Jobs, DebitStep(j)
    PROVE  Allowed
<1> USE DEF rowVars, debitVars, linkVars, bookVars, bankVars, emiVars
<1>1. CASE CreateDebit(j)
  <2>1. Key(j) \in Debit
    BY <1>1, KeyType DEF CreateDebit
  <2>2. CASE debit[Key(j)] = "NONE"
    BY <1>1, <2>1, <2>2, RowIsKept DEF CreateDebit, RowStatus
  <2>3. CASE debit[Key(j)] # "NONE"
    BY <1>1, <2>3, UnseenIsAllowed DEF CreateDebit, Unseen
  <2> QED
    BY <2>2, <2>3
<1>2. CASE SendDebit(j)
  <2>1. Key(j) \in Debit
    BY <1>2, KeyType DEF SendDebit
  <2>2. debit[Key(j)] # "NONE" /\ gateway[Key(j)] = "none"
    BY <1>2, <2>1 DEF SendDebit, IInv, SentOnce
  <2> QED
    BY <1>2, <2>1, <2>2, BankActs DEF SendDebit
<1>3. CASE MarkCaptured(j)
  <2>1. Key(j) \in Debit /\ debit[Key(j)] # "NONE"
    BY <1>3, KeyType DEF MarkCaptured, RowsExist, PastCall
  <2>2. gateway[Key(j)] = "charged"
    BY <1>3 DEF MarkCaptured, IInv, SentOnce
  <2> QED
    BY <1>3, <2>1, <2>2, RowIsKept DEF MarkCaptured, RowStatus
<1>4. CASE MarkDebitFailed(j)
  <2>1. Key(j) \in Debit /\ debit[Key(j)] # "NONE"
    BY <1>4, KeyType DEF MarkDebitFailed, RowsExist, PastCall
  <2> QED
    BY <1>4, <2>1, RowIsKept DEF MarkDebitFailed, RowStatus
<1>5. CASE MarkBounced(j)
  <2>1. at[j] \in Emis
    BY <1>5 DEF MarkBounced, IInv, JobsKnow
  <2> QED
    BY <1>5, <2>1, EmiIsPaidOrNot DEF MarkBounced, EmiStatus
<1>6. CASE \/ ReadEmi(j) \/ FindExistingDebit(j) \/ ApplyBounce(j)
           \/ \E reply \in {"pending", "captured", "error"} : DebitReply(j, reply)
  BY <1>6, UnseenIsAllowed DEF ReadEmi, FindExistingDebit, ApplyBounce, DebitReply, Unseen
<1> QED
  BY <1>1, <1>2, <1>3, <1>4, <1>5, <1>6 DEF DebitStep

LEMMA SettlementIsAllowed ==
    ASSUME IInv, NEW p \in Workers \cup Clerks, SettleStep(p)
    PROVE  Allowed
<1> USE DEF rowVars, debitVars, linkVars, bookVars, bankVars, emiVars
<1>1. EmiOf(p) \in Emis /\ Collected(EmiOf(p))
  BY SettledIsCollected DEF SettleStep, CheckUnpaid, MarkPaid, PostEmiCollection, Announce, SettlePc
<1>2. ASSUME NEW covers \in Amounts, MarkPaid(p, covers)
      PROVE  Allowed
  <2>1. PICK s \in {"PAID", "PARTIAL"} : SetEmi(EmiOf(p), s)
    BY <1>2 DEF MarkPaid
  <2>2. UNCHANGED <<gateway, debit, txn, cash, linkOf, sent, gl>>
    BY <1>2 DEF MarkPaid
  <2> QED
    BY <1>1, <2>1, <2>2, EmiIsPaidOrNot DEF EmiStatus
<1>3. CASE PostEmiCollection(p) /\ gl' # gl
  <2>1. /\ gl' = [gl EXCEPT ![EmiOf(p)] = @ + 1]
        /\ UNCHANGED <<gateway, debit, txn, cash, linkOf, sent, emi>>
    BY <1>3 DEF PostEmiCollection
  <2>2. /\ UNCHANGED {x \in Emis : cash[x] > 0 \/ PaidByLink(x)}
        /\ UNCHANGED {x \in Emis : emi[x] = "PAID"}
    BY <2>1 DEF PaidByLink
  <2>3. Collection!Post(EmiOf(p))
    BY <1>1, <2>1, <2>2, CollectedIsBacked DEF Collection!Post, Collection!rows
  <2> QED
    BY <1>1, <2>3 DEF Allowed, Collection!Next
<1>4. CASE CheckUnpaid(p) \/ Announce(p) \/ (PostEmiCollection(p) /\ UNCHANGED gl)
  BY <1>4, UnseenIsAllowed DEF CheckUnpaid, Announce, PostEmiCollection, Unseen
<1> QED
  BY <1>2, <1>3, <1>4 DEF SettleStep

LEMMA WebhookIsAllowed ==
    ASSUME IInv, RowsExist, NEW w \in Workers,
           WebhookStep(w) \/ \E ev \in Event : Deliver(w, ev)
    PROVE  Allowed
<1> USE DEF rowVars, debitVars, linkVars, bookVars, bankVars, emiVars
<1>1. CASE CreateForNextDue(w)
  <2>1. \A e \in Due : <<e, 1>> \in Debit
    BY BoundsAssumption DEF Due, Debit
  <2>2. CASE UNCHANGED debit
    BY <1>1, <2>2, UnseenIsAllowed DEF CreateForNextDue, Unseen
  <2>3. CASE \E e \in Due : debit[<<e, 1>>] = "NONE" /\ debit' = [debit EXCEPT ![<<e, 1>>] = "PENDING"]
    BY <1>1, <2>1, <2>3, RowIsKept DEF CreateForNextDue, RowStatus
  <2> QED
    BY <1>1, <2>2, <2>3 DEF CreateForNextDue
<1>2. CASE ConfirmDebit(w)
  <2>1. /\ row[w] \in Debit /\ debit[row[w]] # "NONE"
        /\ event[w].of \in Debit /\ gateway[event[w].of] = "charged"
    <3>1. row[w] \in Debit
      BY <1>2 DEF ConfirmDebit, IInv, WorkersKnow, Knows, HandlesCharge, HandlesLink
    <3> QED
      BY <1>2, <3>1, EventInHand DEF ConfirmDebit, RowsExist
  <2>2. CASE UNCHANGED <<debit, txn>>
    BY <1>2, <2>2, UnseenIsAllowed DEF ConfirmDebit, Unseen
  <2>3. CASE /\ \A other \in Debit \ {row[w]} : txn[other] # event[w].of
             /\ debit' = [debit EXCEPT ![row[w]] = "SUCCESS"]
             /\ txn' = [txn EXCEPT ![row[w]] = event[w].of]
    <3>1. UNCHANGED <<gateway, cash, linkOf, sent, emi, gl>>
      BY <1>2 DEF ConfirmDebit
    <3> QED
      BY <2>1, <2>3, <3>1, RowIsKept DEF RowStatus
  <2> QED
    BY <1>2, <2>2, <2>3 DEF ConfirmDebit
<1>3. CASE SettleStep(w)
  BY <1>3, SettlementIsAllowed
<1>4. CASE Lookup(w) /\ ~ CreateForNextDue(w)
  BY <1>4, UnseenIsAllowed
     DEF Lookup, Deliver, FindByGatewayTxnId, FindLatestPending, FindLinkPayment, CheckLinkEmi,
         CreateLinkPayment, ConfirmLinkPayment, PaymentFailed, Acknowledge, Refuse, Unseen
<1> QED
  BY <1>1, <1>2, <1>3, <1>4 DEF WebhookStep, Lookup

LEMMA ClerkIsAllowed ==
    ASSUME IInv, NEW c \in Clerks,
           ClerkStep(c) \/ \E e \in Emis : Clerk(c, e, "cash") \/ Clerk(c, e, "waive")
    PROVE  Allowed
<1> USE DEF rowVars, debitVars, linkVars, bookVars, bankVars, emiVars
<1>1. pc[c] \in {"cash", "waive"} => at[c] \in Emis
  BY DEF IInv, ClerksKnow
<1>2. CASE RecordCashPayment(c)
  <2>1. at[c] \in Emis /\ cash' = [cash EXCEPT ![at[c]] = @ + 1] /\ cash \in [Emis -> Nat]
    BY <1>1, <1>2 DEF RecordCashPayment, IInv, TypeOK
  <2>2. UNCHANGED <<gateway, debit, txn, linkOf, sent, emi, gl>>
    BY <1>2 DEF RecordCashPayment
  <2>3. \A x \in Emis : (cash[x] > 0 \/ PaidByLink(x))' <=> cash[x] > 0 \/ PaidByLink(x) \/ x = at[c]
    BY <2>1, <2>2 DEF PaidByLink
  <2> QED
    BY <2>1, <2>2, <2>3, MoneyComes
<1>3. CASE WaiveEmi(c)
  BY <1>1, <1>3, EmiIsPaidOrNot DEF WaiveEmi, EmiStatus
<1>4. CASE SettleStep(c)
  BY <1>4, SettlementIsAllowed
<1>5. CASE \E e \in Emis : Clerk(c, e, "cash") \/ Clerk(c, e, "waive")
  BY <1>5, UnseenIsAllowed DEF Clerk, Unseen
<1> QED
  BY <1>2, <1>3, <1>4, <1>5 DEF ClerkStep

LEMMA GatewayIsAllowed ==
    ASSUME IInv, RowsExist, GatewayNext
    PROVE  Allowed
<1> USE DEF rowVars, debitVars, linkVars, bookVars, bankVars, emiVars
<1>1. ASSUME NEW d \in Debit, GatewayCharges(d) \/ GatewayRefuses(d)
      PROVE  Allowed
  <2>1. UNCHANGED <<debit, txn, cash, linkOf, emi, gl>>
    BY <1>1 DEF GatewayCharges, GatewayRefuses
  <2>2. gateway[d] = "asked" /\ \E s \in {"charged", "refused"} : gateway' = [gateway EXCEPT ![d] = s]
    BY <1>1 DEF GatewayCharges, GatewayRefuses
  <2>3. \A l \in Links : [kind |-> "captured", of |-> l] \in sent' <=> [kind |-> "captured", of |-> l] \in sent
    BY <1>1 DEF GatewayCharges, GatewayRefuses
  <2> QED
    BY <2>1, <2>2, <2>3, BankActs
<1>2. ASSUME NEW l \in Links, NEW e \in Emis, CreatePaymentLink(l, e)
      PROVE  Allowed
  <2>1. [kind |-> "captured", of |-> l] \notin sent
    BY <1>2 DEF CreatePaymentLink, IInv, SentIsTrue
  <2>2. linkOf' = [linkOf EXCEPT ![l] = e] /\ UNCHANGED <<gateway, debit, txn, cash, sent, emi, gl>>
    BY <1>2 DEF CreatePaymentLink
  <2>3. \A x \in Emis : PaidByLink(x)' <=> PaidByLink(x)
    BY <2>1, <2>2 DEF PaidByLink, IInv, TypeOK
  <2>4. UNCHANGED {x \in Emis : cash[x] > 0 \/ PaidByLink(x)}
    BY <2>2, <2>3
  <2> QED
    BY <2>2, <2>4 DEF Allowed, Collection!vars
<1>3. ASSUME NEW l \in Links, NEW kind \in {"captured", "failed"}, CustomerPays(l, kind)
      PROVE  Allowed
  <2>1. /\ linkOf[l] \in Emis /\ sent' = sent \cup {[kind |-> kind, of |-> l]}
        /\ UNCHANGED <<gateway, debit, txn, cash, linkOf, emi, gl>>
    BY <1>3 DEF CustomerPays, IInv, TypeOK
  <2>2. CASE kind = "captured"
    <3>1. \A x \in Emis : (cash[x] > 0 \/ PaidByLink(x))' <=> cash[x] > 0 \/ PaidByLink(x) \/ x = linkOf[l]
      BY <2>1, <2>2 DEF PaidByLink
    <3> QED
      BY <2>1, <3>1, MoneyComes
  <2>3. CASE kind = "failed"
    <3>1. UNCHANGED {x \in Emis : cash[x] > 0 \/ PaidByLink(x)}
      BY <2>1, <2>3 DEF PaidByLink
    <3> QED
      BY <2>1, <3>1 DEF Allowed, Collection!vars
  <2> QED
    BY <2>2, <2>3
<1> QED
  BY <1>1, <1>2, <1>3 DEF GatewayNext

LEMMA OtherIsAllowed ==
    ASSUME IInv, RowsExist,
           \/ NextDay \/ CancelMandate \/ Crash \/ NightJobs
           \/ \E e \in Emis : Listen(e) \/ \E j \in Jobs : Select(j, e)
           \/ \E j \in Jobs : ReadBatch(j)
           \/ UNCHANGED vars
    PROVE  Allowed
<1> USE DEF rowVars, debitVars, linkVars, bookVars, bankVars, emiVars
<1>1. ASSUME NEW e \in Emis, MarkPaidListener(e)
      PROVE  Allowed
  <2>1. Collected(e)
    BY <1>1 DEF MarkPaidListener, IInv, BusIsBacked
  <2> QED
    BY <1>1, <2>1, EmiIsPaidOrNot DEF MarkPaidListener, EmiStatus
<1>2. ASSUME NEW e \in Emis, MarkOverdue(e) \/ \E r \in Retry : WriteBounceListener(e, r)
      PROVE  Allowed
  BY <1>2, EmiIsPaidOrNot DEF MarkOverdue, WriteBounceListener, EmiStatus
<1>3. ASSUME NEW d \in Debit, FailStaleDebit(d)
      PROVE  Allowed
  <2>1. debit[d] # "NONE"
    BY <1>3 DEF FailStaleDebit, RowsExist
  <2> QED
    BY <1>3, <2>1, RowIsKept DEF FailStaleDebit, RowStatus
<1>4. CASE \/ NextDay \/ CancelMandate \/ Crash \/ MarkNpa \/ FindStale \/ UNCHANGED vars
           \/ ResolveStaleLink \/ (\E l \in Links : ReadStaleLink(l)) \/ (\E j \in Jobs : ReadBatch(j))
           \/ \E e \in Emis : \/ ReadOverdue(e) \/ CheckClosure(e) \/ CloseAccount(e) \/ CheckNpa(e) \/ SetNpa(e)
                              \/ (\E r \in Retry : ApplyBounceListener(e, r))
                              \/ (\E j \in Jobs : Select(j, e))
  BY <1>4, UnseenIsAllowed
     DEF NextDay, CancelMandate, Crash, MarkNpa, FindStale, ReadStaleLink, ResolveStaleLink, ReadBatch, ReadOverdue, CheckClosure, CloseAccount,
         CheckNpa, SetNpa, ApplyBounceListener, Select, Unseen, vars
<1> QED
  BY <1>1, <1>2, <1>3, <1>4 DEF NightJobs, ResolveStale, Listen

LEMMA InitCollection == Init => Collection!Init
BY DEF Init, Collection!Init, Collection!Debits, Debit, PaidByLink

\* Each write of the bank, of an ENACH row, of an EMI's status and of the ledger is a
\* step of LoanCollection: the invariant supplies the row and the money behind it.
LEMMA CollectionStep == IInv /\ RowsExist /\ [Next]_vars => [Collection!Next]_(Collection!vars)
<1>1. IInv /\ RowsExist /\ [Next]_vars => Allowed
  BY DebitIsAllowed, WebhookIsAllowed, ClerkIsAllowed, GatewayIsAllowed, OtherIsAllowed DEF Next
<1> QED
  BY <1>1 DEF Allowed

\* Whatever jobs, webhooks, listeners and clerks overlap, and whatever is lost or dies,
\* bank, rows, EMIs and ledger change as LoanCollection allows.
THEOREM Refinement == Spec => ImplementsCollection
<1>1. Init => RowsExist /\ Collection!Init
  BY InitRows, InitCollection
<1>2. IInv /\ RowsExist /\ [Next]_vars => RowsExist' /\ [Collection!Next]_(Collection!vars)
  BY StepRows, CollectionStep
<1> QED
  BY <1>1, <1>2, Invariance, PTL DEF Spec, ImplementsCollection, Collection!Spec
=============================================================================
