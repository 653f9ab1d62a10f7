----------------------------- MODULE Collections -----------------------------
(***************************************************************************)
(* The collection cases of ONE delinquent loan, seen through its oldest    *)
(* unpaid EMI: the nightly NPA watch, the listeners of loan.npa and        *)
(* loan.closed, the threshold of emi.bounced, and the staff who log        *)
(* contacts, escalate and close.  Every query ends at an await, so the     *)
(* steps of all of them interleave; events live in memory.  Days past due  *)
(* are counted in the four bands the code tells apart.                     *)
(***************************************************************************)
EXTENDS Naturals, FiniteSets

CONSTANTS
    LastCase,      \* bound on the loan's rows of collection_cases: they are 1..LastCase
    Watches,       \* instances that run the NPA watch
    Assigners,     \* executions of collections:auto-assign
    Officers,      \* executions of the staff endpoints
    MaxWrites,     \* bound on what staff write
    MaxTroubles    \* bound on runs that stop, events lost, bounces over the limit

ASSUME CollectionsAssumption ==
    /\ LastCase \in Nat /\ MaxWrites \in Nat /\ MaxTroubles \in Nat

\* An execution is of the watch or of a listener
ASSUME WatchesAreNotListeners == Watches \cap Assigners = {}

Cases  == 1..LastCase
NoCase == 0

VARIABLES
    account,    \* loan_accounts.status
    emi,        \* emi_schedule.status
    band,       \* days past due: 0 within the grace period, 1 past it, 2 from 30, 3 from 90
    case,       \* collection_cases.status, "none" before the row exists
    promise,    \* its ptp_date, ptp_amount and ptp_broken
    watch,      \* next step of a run of the watch
    assigner,   \* next step of collections:auto-assign
    threshold,  \* loan:check-npa-threshold is about to write
    officer,    \* what a staff call is about to write
    about,      \* the case it is about
    npaEvents, closedEvent,   \* events on the bus
    writes, troubles,
    crossed     \* history: two openings were side by side

loanRows       == <<account, emi, band>>
caseRows       == <<case, promise>>
bus            == <<npaEvents, closedEvent>>
officerVars    == <<officer, about, writes>>
collectionVars == <<loanRows, caseRows, watch, assigner, threshold, officerVars, bus, troubles, crossed>>

CaseStatus == {"OPEN", "ESCALATED", "RESOLVED", "CLOSED"}
Promises   == {"ahead", "due", "vague"}    \* vague: a date and no amount

CollectionsTypeOK ==
    /\ account \in {"ACTIVE", "NPA", "CLOSED"}
    /\ emi \in {"PENDING", "OVERDUE", "BOUNCED", "PARTIAL", "PAID"}
    /\ band \in 0..3
    /\ case \in [Cases -> CaseStatus \cup {"none"}]
    /\ promise \in [Cases -> Promises \cup {"none", "broken"}]
    /\ watch \in [Watches -> {"idle", "penalty", "overdue", "npa", "markNpa", "sweep", "find", "open", "promises"}]
    /\ assigner \in [Assigners -> {"idle", "find", "open"}]
    /\ threshold \in BOOLEAN
    /\ officer \in [Officers -> {"idle", "contact", "escalate", "close"}]
    /\ about \in [Officers -> Cases \cup {NoCase}]
    /\ npaEvents \in Nat /\ closedEvent \in BOOLEAN
    /\ writes \in 0..MaxWrites /\ troubles \in 0..MaxTroubles
    /\ crossed \in BOOLEAN

CollectionsInit ==
    /\ account = "ACTIVE" /\ emi = "PENDING" /\ band = 0
    /\ case = [c \in Cases |-> "none"]
    /\ promise = [c \in Cases |-> "none"]
    /\ watch = [w \in Watches |-> "idle"]
    /\ assigner = [l \in Assigners |-> "idle"]
    /\ threshold = FALSE
    /\ officer = [o \in Officers |-> "idle"]
    /\ about = [o \in Officers |-> NoCase]
    /\ npaEvents = 0 /\ closedEvent = FALSE
    /\ writes = 0 /\ troubles = 0 /\ crossed = FALSE

OpenCases == {c \in Cases : case[c] = "OPEN"}
Trouble   == troubles < MaxTroubles /\ troubles' = troubles + 1

-----------------------------------------------------------------------------
\* The loan's other modules

\* A run of the watch is over before the EMI reaches the next band
DayPasses ==
    /\ band < 3 /\ emi # "PAID" /\ \A w \in Watches : watch[w] = "idle"
    /\ band' = band + 1
    /\ UNCHANGED <<account, emi, caseRows, watch, assigner, threshold, officerVars, bus, troubles, crossed>>

\* markBounced, recordPartialPayment, markPaid
EmiTurns ==
    /\ emi # "PAID" /\ emi' \in {"BOUNCED", "PARTIAL", "PAID"} \ {emi}
    /\ UNCHANGED <<account, band, caseRows, watch, assigner, threshold, officerVars, bus, troubles, crossed>>

\* loan:check-closure counts PENDING and OVERDUE EMIs only, and announces it
LoanCloses ==
    /\ account # "CLOSED" /\ emi \notin {"PENDING", "OVERDUE"}
    /\ account' = "CLOSED" /\ closedEvent' = TRUE
    /\ UNCHANGED <<emi, band, caseRows, watch, assigner, threshold, officerVars, npaEvents, troubles, crossed>>

\* The closeLoan endpoints do not announce it
LoanIsClosed ==
    /\ account # "CLOSED" /\ emi = "PAID"
    /\ account' = "CLOSED"
    /\ UNCHANGED <<emi, band, caseRows, watch, assigner, threshold, officerVars, bus, troubles, crossed>>

\* loan:check-npa-threshold: reads the EMIs ...
ThresholdReached ==
    /\ emi \in {"OVERDUE", "BOUNCED"} /\ band = 3 /\ ~threshold
    /\ Trouble /\ threshold' = TRUE
    /\ UNCHANGED <<loanRows, caseRows, watch, assigner, officerVars, bus, crossed>>

\* ... and writes whatever the account's status is by then
MarkNpaOnThreshold ==
    /\ threshold /\ threshold' = FALSE
    /\ account' = "NPA" /\ npaEvents' = npaEvents + 1
    /\ UNCHANGED <<emi, band, caseRows, watch, assigner, officerVars, closedEvent, troubles, crossed>>

-----------------------------------------------------------------------------
\* collectionsService.openCase and collections:auto-assign

\* Other executions that have found no open case
Openers(me) == ({w \in Watches : watch[w] = "open"} \cup {l \in Assigners : assigner[l] = "open"}) \ {me}

\* Rows are numbered in the order of creation
Open(me) ==
    \E c \in Cases :
        /\ case[c] = "none" /\ \A earlier \in 1..(c - 1) : case[earlier] # "none"
        /\ case' = [case EXCEPT ![c] = "OPEN"]
        /\ crossed' = (crossed \/ Openers(me) # {})
        /\ UNCHANGED promise

Hear(l, step) == assigner' = [assigner EXCEPT ![l] = step]

ListenerHearsNpa(l) ==
    /\ assigner[l] = "idle" /\ npaEvents > 0
    /\ npaEvents' = npaEvents - 1 /\ Hear(l, "find")
    /\ UNCHANGED <<loanRows, caseRows, watch, threshold, officerVars, closedEvent, troubles, crossed>>

\* Mutant of AutoAssignFinds: a case is opened for every loan.npa
AutoAssignFindsNothing(l) ==
    /\ assigner[l] = "find" /\ Hear(l, "open")
    /\ UNCHANGED <<loanRows, caseRows, watch, threshold, officerVars, bus, troubles, crossed>>

\* Cases that are OPEN, whoever else is looking
AutoAssignFinds(l) ==
    /\ assigner[l] = "find"
    /\ Hear(l, IF OpenCases = {} THEN "open" ELSE "idle")
    /\ UNCHANGED <<loanRows, caseRows, watch, threshold, officerVars, bus, troubles, crossed>>

AutoAssignOpens(l) ==
    /\ assigner[l] = "open" /\ Open(l) /\ Hear(l, "idle")
    /\ UNCHANGED <<loanRows, watch, threshold, officerVars, bus, troubles>>

\* The bus keeps no copy of an event, so it is lost with the instance
ListenerDies(l) ==
    /\ assigner[l] # "idle" /\ Hear(l, "idle") /\ Trouble
    /\ UNCHANGED <<loanRows, caseRows, watch, threshold, officerVars, bus, crossed>>

\* collections:close-case
CloseOpenCases ==
    /\ closedEvent /\ closedEvent' = FALSE
    /\ case' = [c \in Cases |-> IF case[c] = "OPEN" THEN "CLOSED" ELSE case[c]]
    /\ UNCHANGED <<loanRows, promise, watch, assigner, threshold, officerVars, npaEvents, troubles, crossed>>

-----------------------------------------------------------------------------
\* runNpaWatchJob

GoOn(w, step) == watch' = [watch EXCEPT ![w] = step]

Owing == account = "ACTIVE" /\ emi \in {"PENDING", "OVERDUE", "BOUNCED", "PARTIAL"}

\* findOverdueEmis: an EMI that is OVERDUE is not among them
StartWatch(w) ==
    /\ watch[w] = "idle"
    /\ GoOn(w, IF account = "ACTIVE" /\ emi \in {"PENDING", "BOUNCED", "PARTIAL"} /\ band >= 1
                  THEN "penalty" ELSE "npa")
    /\ UNCHANGED <<loanRows, caseRows, assigner, threshold, officerVars, bus, troubles, crossed>>

ApplyOverduePenalty(w) ==
    /\ watch[w] = "penalty"
    /\ GoOn(w, IF emi \in {"PENDING", "PARTIAL"} THEN "overdue" ELSE "npa")
    /\ UNCHANGED <<loanRows, caseRows, assigner, threshold, officerVars, bus, troubles, crossed>>

\* Whatever the EMI became since it was read
MarkOverdue(w) ==
    /\ watch[w] = "overdue" /\ emi' = "OVERDUE" /\ GoOn(w, "npa")
    /\ UNCHANGED <<account, band, caseRows, assigner, threshold, officerVars, bus, troubles, crossed>>

FindNpa(w) ==
    /\ watch[w] = "npa"
    /\ GoOn(w, IF Owing /\ band = 3 THEN "markNpa" ELSE "sweep")
    /\ UNCHANGED <<loanRows, caseRows, assigner, threshold, officerVars, bus, troubles, crossed>>

\* Whatever the account became since markNpa read it
MarkNpa(w) ==
    /\ watch[w] = "markNpa" /\ GoOn(w, "sweep")
    /\ account' = "NPA" /\ npaEvents' = npaEvents + 1
    /\ UNCHANGED <<emi, band, caseRows, assigner, threshold, officerVars, closedEvent, troubles, crossed>>

\* Mutant of Swept: bounced EMIs are forgotten as well
SweptPending == account = "ACTIVE" /\ emi = "PENDING" /\ band >= 2

\* findActiveLoansWithOverdueEmis: neither OVERDUE nor PARTIAL
Swept == account = "ACTIVE" /\ emi \in {"PENDING", "BOUNCED"} /\ band >= 2

SweepDelinquent(w) ==
    /\ watch[w] = "sweep" /\ GoOn(w, IF Swept THEN "find" ELSE "promises")
    /\ UNCHANGED <<loanRows, caseRows, assigner, threshold, officerVars, bus, troubles, crossed>>

OpenCaseFinds(w) ==
    /\ watch[w] = "find"
    /\ GoOn(w, IF OpenCases = {} THEN "open" ELSE "promises")
    /\ UNCHANGED <<loanRows, caseRows, assigner, threshold, officerVars, bus, troubles, crossed>>

OpenCaseCreates(w) ==
    /\ watch[w] = "open" /\ Open(w) /\ GoOn(w, "promises")
    /\ UNCHANGED <<loanRows, assigner, threshold, officerVars, bus, troubles>>

\* Mutant of Judged: promises are judged while the loan is ACTIVE
JudgedWhileActive(c) == account = "ACTIVE" /\ case[c] = "OPEN" /\ promise[c] = "due"

\* A promise with an amount, of a case that was not escalated
Judged(c) == case[c] = "OPEN" /\ promise[c] = "due"

MarkBrokenPtps(w) ==
    /\ watch[w] = "promises" /\ GoOn(w, "idle")
    /\ promise' = [c \in Cases |-> IF Judged(c) THEN "broken" ELSE promise[c]]
    /\ UNCHANGED <<loanRows, case, assigner, threshold, officerVars, bus, troubles, crossed>>

\* A query failed outside the loops' try, or the instance died
WatchStops(w) ==
    /\ watch[w] # "idle" /\ GoOn(w, "idle") /\ Trouble
    /\ UNCHANGED <<loanRows, caseRows, assigner, threshold, officerVars, bus, crossed>>

-----------------------------------------------------------------------------
\* Staff: the case is read and checked, then written by id

Attend(o, op, c) == officer' = [officer EXCEPT ![o] = op] /\ about' = [about EXCEPT ![o] = c]

OfficerReads(o, op, c) ==
    /\ officer[o] = "idle" /\ writes < MaxWrites
    /\ case[c] \in {"OPEN", "ESCALATED"}
    /\ writes' = writes + 1 /\ Attend(o, op, c)
    /\ UNCHANGED <<loanRows, caseRows, watch, assigner, threshold, bus, troubles, crossed>>

LogContact(o) ==
    /\ officer[o] = "contact" /\ Attend(o, "idle", NoCase)
    /\ \E p \in Promises : promise' = [promise EXCEPT ![about[o]] = p]
    /\ UNCHANGED <<loanRows, case, watch, assigner, threshold, writes, bus, troubles, crossed>>

EscalateCase(o) ==
    /\ officer[o] = "escalate" /\ Attend(o, "idle", NoCase)
    /\ case' = [case EXCEPT ![about[o]] = "ESCALATED"]
    /\ UNCHANGED <<loanRows, promise, watch, assigner, threshold, writes, bus, troubles, crossed>>

CloseCase(o) ==
    /\ officer[o] = "close" /\ Attend(o, "idle", NoCase)
    /\ \E s \in {"RESOLVED", "CLOSED"} : case' = [case EXCEPT ![about[o]] = s]
    /\ UNCHANGED <<loanRows, promise, watch, assigner, threshold, writes, bus, troubles, crossed>>

PromiseFallsDue(c) ==
    /\ promise[c] = "ahead" /\ promise' = [promise EXCEPT ![c] = "due"]
    /\ UNCHANGED <<loanRows, case, watch, assigner, threshold, officerVars, bus, troubles, crossed>>

-----------------------------------------------------------------------------
Watching(w) ==
    \/ StartWatch(w) \/ ApplyOverduePenalty(w) \/ MarkOverdue(w) \/ FindNpa(w) \/ MarkNpa(w)
    \/ SweepDelinquent(w) \/ OpenCaseFinds(w) \/ OpenCaseCreates(w) \/ MarkBrokenPtps(w)

CollectionsNext ==
    \/ DayPasses \/ EmiTurns \/ LoanCloses \/ LoanIsClosed
    \/ ThresholdReached \/ MarkNpaOnThreshold \/ CloseOpenCases
    \/ \E l \in Assigners :
        ListenerHearsNpa(l) \/ AutoAssignFinds(l) \/ AutoAssignOpens(l) \/ ListenerDies(l)
    \/ \E w \in Watches : Watching(w) \/ WatchStops(w)
    \/ \E o \in Officers :
        \/ \E op \in {"contact", "escalate", "close"}, c \in Cases : OfficerReads(o, op, c)
        \/ LogContact(o) \/ EscalateCase(o) \/ CloseCase(o)
    \/ \E c \in Cases : PromiseFallsDue(c)

CollectionsSpec == CollectionsInit /\ [][CollectionsNext]_collectionVars

-----------------------------------------------------------------------------
\* A loan has two open cases only when two of its openings were side by side
\* (openCase: "never open a duplicate case for the same account").
OneOpenCase == Cardinality(OpenCases) > 1 => crossed

\* A bounced EMI thirty days past due of an active loan gets an open case, or
\* stops being one (autoOpenCasesForOverdueLoans).
BouncedGetsCase ==
    (account = "ACTIVE" /\ emi = "BOUNCED" /\ band >= 2)
        ~> (OpenCases # {} \/ account # "ACTIVE" \/ emi # "BOUNCED")

\* A promise to pay an amount whose date has passed is marked broken, unless it
\* is replaced or its case is taken off the open ones (markBrokenPtps).
PromiseIsJudged ==
    \A c \in Cases : promise[c] = "due" ~> (promise[c] # "due" \/ case[c] # "OPEN")
=============================================================================
