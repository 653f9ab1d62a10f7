----------------------------- MODULE Commissions -----------------------------
(***************************************************************************)
(* The commissions of ONE sourcing agent: earned when a loan is disbursed, *)
(* clawed back when it turns NPA inside the clawback window, and paid out  *)
(* in batches after it.  Events are delivered by the in-memory bus, so a   *)
(* listener runs beside payouts, other listeners and the agent's           *)
(* suspension, and is lost with its instance.                              *)
(***************************************************************************)
EXTENDS Naturals, FiniteSets

CONSTANTS
    Earnings,     \* rows of agent_commissions
    Accounts,     \* loan accounts they are earned on
    NoAccount,
    Batches,      \* executions of processPayout; each makes one payout row at most
    Listeners,    \* executions of commission:clawback
    PayoutAttempts  \* maxAttempts of createPayout

ASSUME CommissionsAssumption == NoAccount \notin Accounts /\ PayoutAttempts \in Nat \ {0}

VARIABLES
    agentStatus,  \* agents.status
    commission,   \* agent_commissions.status, "none" before the row exists
    earnedOn,     \* agent_commissions.loan_account_id
    inWindow,     \* commissions whose clawback_eligible_until is to come
    batch,        \* next step of a payout
    picked,       \* the commissions it read
    payout,       \* commission_payouts.status
    linked,       \* agent_commissions.payout_id
    attempt,      \* its attempt at createPayout
    transfers,    \* how often the bank transferred the sum of the payout
    replyLost,    \* the bank took one of these attempts and its answer was lost
    listener,     \* next step of a listener
    npa           \* the account it is about

agentRows   == <<agentStatus, commission, earnedOn, inWindow, linked>>
bankVars    == <<attempt, transfers, replyLost>>
payoutVars  == <<batch, picked, payout, bankVars>>
listenVars  == <<listener, npa>>
commissionVars == <<agentRows, payoutVars, listenVars>>

CommissionStatus == {"EARNED", "PAID", "CLAWED_BACK"}

CommissionsTypeOK ==
    /\ agentStatus \in {"PENDING", "ACTIVE", "SUSPENDED", "TERMINATED"}
    /\ commission \in [Earnings -> CommissionStatus \cup {"none"}]
    /\ earnedOn \in [Earnings -> Accounts \cup {NoAccount}]
    /\ inWindow \subseteq Earnings
    /\ batch \in [Batches -> {"new", "find", "claim", "send", "processed", "failed", "over"}]
    /\ picked \in [Batches -> SUBSET Earnings]
    /\ payout \in [Batches -> {"none", "PENDING", "PROCESSED", "FAILED"}]
    /\ linked \in [Earnings -> SUBSET Batches]
    /\ attempt \in [Batches -> 1..PayoutAttempts]
    /\ transfers \in [Batches -> Nat]
    /\ replyLost \in [Batches -> BOOLEAN]
    /\ listener \in [Listeners -> {"idle", "find", "clawBack"}]
    /\ npa \in [Listeners -> Accounts \cup {NoAccount}]

CommissionsInit ==
    /\ agentStatus = "PENDING"
    /\ commission = [c \in Earnings |-> "none"]
    /\ earnedOn = [c \in Earnings |-> NoAccount]
    /\ inWindow = {}
    /\ batch = [b \in Batches |-> "new"]
    /\ picked = [b \in Batches |-> {}]
    /\ payout = [b \in Batches |-> "none"]
    /\ linked = [c \in Earnings |-> {}]
    /\ attempt = [b \in Batches |-> 1]
    /\ transfers = [b \in Batches |-> 0]
    /\ replyLost = [b \in Batches |-> FALSE]
    /\ listener = [l \in Listeners |-> "idle"]
    /\ npa = [l \in Listeners |-> NoAccount]

-----------------------------------------------------------------------------
\* The agent.  The status is read, checked and written in one step here: no
\* property is about one status written over another.
ActivateAgent ==
    /\ agentStatus \in {"PENDING", "SUSPENDED"} /\ agentStatus' = "ACTIVE"
    /\ UNCHANGED <<commission, earnedOn, inWindow, linked, payoutVars, listenVars>>

SuspendAgent ==
    /\ agentStatus \notin {"SUSPENDED", "TERMINATED"} /\ agentStatus' = "SUSPENDED"
    /\ UNCHANGED <<commission, earnedOn, inWindow, linked, payoutVars, listenVars>>

ReactivateAgent ==
    /\ agentStatus = "SUSPENDED" /\ agentStatus' = "ACTIVE"
    /\ UNCHANGED <<commission, earnedOn, inWindow, linked, payoutVars, listenVars>>

TerminateAgent ==
    /\ agentStatus # "TERMINATED" /\ agentStatus' = "TERMINATED"
    /\ UNCHANGED <<commission, earnedOn, inWindow, linked, payoutVars, listenVars>>

-----------------------------------------------------------------------------
\* commission:calculate, on every loan.disbursed: whether or not the account has
\* a commission, and whatever the agent's status
EarnCommission(c, account) ==
    /\ commission[c] = "none"
    /\ commission' = [commission EXCEPT ![c] = "EARNED"]
    /\ earnedOn' = [earnedOn EXCEPT ![c] = account]
    /\ inWindow' = inWindow \cup {c}
    /\ UNCHANGED <<agentStatus, linked, payoutVars, listenVars>>

\* COMMISSION_CLAWBACK_DAYS have passed
WindowCloses(c) ==
    /\ c \in inWindow /\ inWindow' = inWindow \ {c}
    /\ UNCHANGED <<agentStatus, commission, earnedOn, linked, payoutVars, listenVars>>

-----------------------------------------------------------------------------
\* commission:clawback, on loan.npa

Notify(l, step, account) ==
    listener' = [listener EXCEPT ![l] = step] /\ npa' = [npa EXCEPT ![l] = account]

LoanTurnsNpa(l, account) ==
    /\ listener[l] = "idle"
    /\ Notify(l, "find", account)
    /\ UNCHANGED <<agentRows, payoutVars>>

EarnedOn(account) == {c \in Earnings : commission[c] = "EARNED" /\ earnedOn[c] = account}

FindClawable(l) ==
    /\ listener[l] = "find"
    /\ IF EarnedOn(npa[l]) \cap inWindow = {}
       THEN Notify(l, "idle", NoAccount) ELSE Notify(l, "clawBack", npa[l])
    /\ UNCHANGED <<agentRows, payoutVars>>

\* Every EARNED commission of the account, those past their window included
ClawBack(l) ==
    /\ listener[l] = "clawBack"
    /\ commission' = [c \in Earnings |-> IF c \in EarnedOn(npa[l]) THEN "CLAWED_BACK" ELSE commission[c]]
    /\ Notify(l, "idle", NoAccount)
    /\ UNCHANGED <<agentStatus, earnedOn, inWindow, linked, payoutVars>>

\* The bus has no copy of an event
ListenerIsLost(l) ==
    /\ listener[l] # "idle"
    /\ Notify(l, "idle", NoAccount)
    /\ UNCHANGED <<agentRows, payoutVars>>

-----------------------------------------------------------------------------
\* processPayout

Turn(b, step) == batch' = [batch EXCEPT ![b] = step]

ProcessPayout(b) ==
    /\ batch[b] = "new" /\ agentStatus = "ACTIVE"
    /\ Turn(b, "find")
    /\ UNCHANGED <<agentRows, picked, payout, bankVars, listenVars>>

Payable == {c \in Earnings : commission[c] = "EARNED"} \ inWindow

FindEarnedCommissions(b) ==
    /\ batch[b] = "find"
    /\ picked' = [picked EXCEPT ![b] = Payable]
    /\ Turn(b, IF Payable = {} THEN "over" ELSE "claim")
    /\ UNCHANGED <<agentRows, payout, bankVars, listenVars>>

Claim(b) ==
    /\ commission' = [c \in Earnings |-> IF c \in picked[b] THEN "PAID" ELSE commission[c]]
    /\ linked' = [c \in Earnings |-> IF c \in picked[b] THEN {b} ELSE linked[c]]
    /\ payout' = [payout EXCEPT ![b] = "PENDING"]
    /\ Turn(b, "send")

\* Mutant of CreatePayoutBatch: the commissions are claimed without a condition
ClaimWithoutCondition(b) ==
    /\ batch[b] = "claim"
    /\ Claim(b)
    /\ UNCHANGED <<agentStatus, earnedOn, inWindow, picked, bankVars, listenVars>>

\* Mutant of CreatePayoutBatch: what is still EARNED is claimed, and the number
\* of claimed rows is not looked at
ClaimWhatIsLeft(b) ==
    /\ batch[b] = "claim"
    /\ commission' = [c \in Earnings |->
          IF c \in picked[b] /\ commission[c] = "EARNED" THEN "PAID" ELSE commission[c]]
    /\ linked' = [c \in Earnings |-> IF c \in picked[b] THEN {b} ELSE linked[c]]
    /\ payout' = [payout EXCEPT ![b] = "PENDING"]
    /\ Turn(b, "send")
    /\ UNCHANGED <<agentStatus, earnedOn, inWindow, picked, bankVars, listenVars>>

\* One transaction: all of them are still EARNED, or it is rolled back
CreatePayoutBatch(b) ==
    /\ batch[b] = "claim"
    /\ IF \A c \in picked[b] : commission[c] = "EARNED"
       THEN Claim(b)
       ELSE Turn(b, "over") /\ UNCHANGED <<commission, linked, payout>>
    /\ UNCHANGED <<agentStatus, earnedOn, inWindow, picked, bankVars, listenVars>>

Transfers(b) == transfers' = [transfers EXCEPT ![b] = @ + 1]

\* The bank answers.  The status in its answer, which may be FAILED, is not looked
\* at: with or without a transfer the payout counts as processed
CreatePayout(b) ==
    /\ batch[b] = "send"
    /\ Transfers(b) \/ UNCHANGED transfers
    /\ Turn(b, "processed")
    /\ UNCHANGED <<agentRows, picked, payout, attempt, replyLost, listenVars>>

\* An attempt ends in an error, and the bank may have made the transfer all the
\* same.  The next attempt repeats it without an idempotency key
AttemptFails(b) ==
    /\ batch[b] = "send"
    /\ \/ Transfers(b) /\ replyLost' = [replyLost EXCEPT ![b] = TRUE]
       \/ UNCHANGED <<transfers, replyLost>>
    /\ IF attempt[b] < PayoutAttempts
       THEN attempt' = [attempt EXCEPT ![b] = @ + 1] /\ UNCHANGED batch
       ELSE Turn(b, "failed") /\ UNCHANGED attempt
    /\ UNCHANGED <<agentRows, picked, payout, listenVars>>

UpdatePayoutStatus(b) ==
    /\ batch[b] \in {"processed", "failed"}
    /\ payout' = [payout EXCEPT ![b] = IF batch[b] = "processed" THEN "PROCESSED" ELSE "FAILED"]
    /\ Turn(b, "over")
    /\ UNCHANGED <<agentRows, picked, bankVars, listenVars>>

\* The instance dies
PayoutStops(b) ==
    /\ batch[b] \notin {"new", "over"}
    /\ Turn(b, "over")
    /\ UNCHANGED <<agentRows, picked, payout, bankVars, listenVars>>

CommissionsNext ==
    \/ ActivateAgent \/ SuspendAgent \/ ReactivateAgent \/ TerminateAgent
    \/ \E c \in Earnings : WindowCloses(c) \/ \E account \in Accounts : EarnCommission(c, account)
    \/ \E l \in Listeners :
        \/ FindClawable(l) \/ ClawBack(l) \/ ListenerIsLost(l)
        \/ \E account \in Accounts : LoanTurnsNpa(l, account)
    \/ \E b \in Batches :
        \/ ProcessPayout(b) \/ FindEarnedCommissions(b) \/ CreatePayoutBatch(b)
        \/ CreatePayout(b) \/ AttemptFails(b) \/ UpdatePayoutStatus(b) \/ PayoutStops(b)

CommissionsSpec == CommissionsInit /\ [][CommissionsNext]_commissionVars

-----------------------------------------------------------------------------
\* The commissions the bank made a transfer for under payout b
PaidBy(b) == IF transfers[b] > 0 THEN picked[b] ELSE {}

\* No commission is paid by two payouts, however payouts overlap, die or fail with
\* their transfer made (createPayoutBatch, processPayout).  The payout it is in is
\* transferred a second time only after the bank's answer was lost: createPayout
\* then repeats the call, and the bank takes it for another one.
CommissionPaidOnce ==
    /\ \A b, d \in Batches : b # d => PaidBy(b) \cap PaidBy(d) = {}
    /\ \A b \in Batches : transfers[b] > 1 => replyLost[b]

\* The bank never pays for a commission that was clawed back, and what it paid
\* for counts as paid under the payout that paid for it.
TransferIsClaimed ==
    \A b \in Batches : \A c \in PaidBy(b) : commission[c] = "PAID" /\ linked[c] = {b}
=============================================================================
