-------------------------- MODULE CollectionsProofs --------------------------
(***************************************************************************)
(* Safety of Collections for every number of cases, instances, listeners   *)
(* and officers.                                                           *)
(***************************************************************************)
EXTENDS Collections, FiniteSetTheorems, TLAPS

\* Executions that have found no open case and are about to open one
Opening == {w \in Watches : watch[w] = "open"} \cup {l \in Assigners : assigner[l] = "open"}

\* Until two openings were side by side, an open case is the only one and nobody
\* is about to open another
OneAtATime ==
    ~ crossed =>
        /\ \A c, d \in OpenCases : c = d
        /\ OpenCases # {} => Opening = {}

CollectionsInv ==
    /\ CollectionsTypeOK
    /\ OneAtATime
-----------------------------------------------------------------------------
LEMMA InitCollectionsInv == CollectionsInit => CollectionsInv
<1> SUFFICES ASSUME CollectionsInit PROVE CollectionsInv
  OBVIOUS
<1>1. CollectionsTypeOK
  <2>1. writes \in 0..MaxWrites /\ troubles \in 0..MaxTroubles
    BY CollectionsAssumption DEF CollectionsInit
  <2>2. /\ case \in [Cases -> CaseStatus \cup {"none"}]
        /\ promise \in [Cases -> Promises \cup {"none", "broken"}]
        /\ about \in [Officers -> Cases \cup {NoCase}]
    BY DEF CollectionsInit
  <2>3. threshold \in BOOLEAN /\ closedEvent \in BOOLEAN /\ crossed \in BOOLEAN
    BY DEF CollectionsInit
  <2> QED
    BY <2>1, <2>2, <2>3 DEF CollectionsInit, CollectionsTypeOK
<1>2. OpenCases = {}
  BY DEF CollectionsInit, OpenCases
<1> QED
  BY <1>1, <1>2 DEF CollectionsInv, OneAtATime

\* What a creation of a case does, to the rows and to the two that look for one
LEMMA OpenStep ==
    ASSUME CollectionsInv, NEW me \in Opening, Open(me), Opening' = Opening \ {me}
    PROVE  /\ case' \in [Cases -> CaseStatus \cup {"none"}] /\ crossed' \in BOOLEAN
           /\ promise' = promise /\ OneAtATime'
<1>1. PICK c \in Cases : /\ case' = [case EXCEPT ![c] = "OPEN"]
                         /\ crossed' = (crossed \/ Openers(me) # {})
                         /\ UNCHANGED promise
  BY DEF Open
<1>2. case' \in [Cases -> CaseStatus \cup {"none"}] /\ crossed' \in BOOLEAN
  BY <1>1 DEF CollectionsInv, CollectionsTypeOK, CaseStatus
<1>3. ASSUME ~ crossed' PROVE OpenCases' = {c} /\ Opening' = {}
  <2>1. OpenCases = {}
    BY <1>1, <1>3 DEF CollectionsInv, OneAtATime
  <2>2. OpenCases' = {c}
    BY <1>1, <2>1 DEF OpenCases, CollectionsInv, CollectionsTypeOK
  <2>3. Openers(me) = Opening'
    BY DEF Openers, Opening
  <2> QED
    BY <1>1, <1>3, <2>2, <2>3
<1> QED
  BY <1>1, <1>2, <1>3 DEF OneAtATime

\* The loan's other modules
LEMMA LoanStep ==
    ASSUME CollectionsInv,
           \/ DayPasses \/ EmiTurns \/ LoanCloses
           \/ LoanIsClosed \/ ThresholdReached \/ MarkNpaOnThreshold
    PROVE  CollectionsInv'
<1> USE DEF CollectionsInv, loanRows, caseRows, bus, officerVars, CaseStatus, Promises
<1>1. CASE DayPasses
  <2>1. CollectionsTypeOK'
    BY <1>1 DEF DayPasses, CollectionsTypeOK
  <2>2. OneAtATime'
    BY <1>1, WatchesAreNotListeners DEF DayPasses, CollectionsTypeOK, OneAtATime, Opening, OpenCases
  <2> QED
    BY <2>1, <2>2
<1>2. CASE EmiTurns
  <2>1. CollectionsTypeOK'
    BY <1>2 DEF EmiTurns, CollectionsTypeOK
  <2>2. OneAtATime'
    BY <1>2, WatchesAreNotListeners DEF EmiTurns, CollectionsTypeOK, OneAtATime, Opening, OpenCases
  <2> QED
    BY <2>1, <2>2
<1>3. CASE LoanCloses
  <2>1. CollectionsTypeOK'
    BY <1>3 DEF LoanCloses, CollectionsTypeOK
  <2>2. OneAtATime'
    BY <1>3, WatchesAreNotListeners DEF LoanCloses, CollectionsTypeOK, OneAtATime, Opening, OpenCases
  <2> QED
    BY <2>1, <2>2
<1>4. CASE LoanIsClosed
  <2>1. CollectionsTypeOK'
    BY <1>4 DEF LoanIsClosed, CollectionsTypeOK
  <2>2. OneAtATime'
    BY <1>4, WatchesAreNotListeners DEF LoanIsClosed, CollectionsTypeOK, OneAtATime, Opening, OpenCases
  <2> QED
    BY <2>1, <2>2
<1>5. CASE ThresholdReached
  <2>1. CollectionsTypeOK'
    BY <1>5, CollectionsAssumption DEF ThresholdReached, Trouble, CollectionsTypeOK
  <2>2. OneAtATime'
    BY <1>5, WatchesAreNotListeners DEF ThresholdReached, Trouble, CollectionsTypeOK, OneAtATime, Opening, OpenCases
  <2> QED
    BY <2>1, <2>2
<1>6. CASE MarkNpaOnThreshold
  <2>1. CollectionsTypeOK'
    <3>1. threshold' \in BOOLEAN
      BY <1>6 DEF MarkNpaOnThreshold
    <3>2. npaEvents' \in Nat /\ account' \in {"ACTIVE", "NPA", "CLOSED"}
      BY <1>6 DEF MarkNpaOnThreshold, CollectionsTypeOK
    <3> QED
      BY <1>6, <3>1, <3>2 DEF MarkNpaOnThreshold, CollectionsTypeOK
  <2>2. OneAtATime'
    BY <1>6, WatchesAreNotListeners DEF MarkNpaOnThreshold, CollectionsTypeOK, OneAtATime, Opening, OpenCases
  <2> QED
    BY <2>1, <2>2
<1> QED
  BY <1>1, <1>2, <1>3, <1>4, <1>5, <1>6

\* collections:close-case
LEMMA CloseStep ==
    ASSUME CollectionsInv,
           \/ CloseOpenCases
    PROVE  CollectionsInv'
<1> USE DEF CollectionsInv, loanRows, caseRows, bus, officerVars, CaseStatus, Promises
<1>1. CASE CloseOpenCases
  <2>1. CollectionsTypeOK'
    BY <1>1 DEF CloseOpenCases, CollectionsTypeOK
  <2>2. OneAtATime'
    BY <1>1, WatchesAreNotListeners DEF CloseOpenCases, CollectionsTypeOK, OneAtATime, Opening, OpenCases
  <2> QED
    BY <2>1, <2>2
<1> QED
  BY <1>1

\* A listener of loan.npa
LEMMA CaseListenerStep ==
    ASSUME CollectionsInv, NEW l \in Assigners,
           \/ ListenerHearsNpa(l) \/ AutoAssignFinds(l) \/ ListenerDies(l)
    PROVE  CollectionsInv'
<1> USE DEF CollectionsInv, loanRows, caseRows, bus, officerVars, CaseStatus, Promises
<1>1. CASE ListenerHearsNpa(l)
  <2>1. CollectionsTypeOK'
    BY <1>1 DEF ListenerHearsNpa, Hear, CollectionsTypeOK
  <2>2. OneAtATime'
    BY <1>1, WatchesAreNotListeners DEF ListenerHearsNpa, Hear, CollectionsTypeOK, OneAtATime, Opening, OpenCases
  <2> QED
    BY <2>1, <2>2
<1>2. CASE AutoAssignFinds(l)
  <2>1. CollectionsTypeOK'
    BY <1>2 DEF AutoAssignFinds, Hear, CollectionsTypeOK
  <2>2. OneAtATime'
    BY <1>2, WatchesAreNotListeners DEF AutoAssignFinds, Hear, CollectionsTypeOK, OneAtATime, Opening, OpenCases
  <2> QED
    BY <2>1, <2>2
<1>3. CASE ListenerDies(l)
  <2>1. CollectionsTypeOK'
    BY <1>3, CollectionsAssumption DEF ListenerDies, Hear, Trouble, CollectionsTypeOK
  <2>2. OneAtATime'
    BY <1>3, WatchesAreNotListeners DEF ListenerDies, Hear, Trouble, CollectionsTypeOK, OneAtATime, Opening, OpenCases
  <2> QED
    BY <2>1, <2>2
<1> QED
  BY <1>1, <1>2, <1>3

\* A run of the watch
LEMMA WatchStep ==
    ASSUME CollectionsInv, NEW w \in Watches,
           \/ StartWatch(w) \/ ApplyOverduePenalty(w) \/ MarkOverdue(w)
           \/ FindNpa(w) \/ MarkNpa(w) \/ SweepDelinquent(w)
           \/ OpenCaseFinds(w) \/ MarkBrokenPtps(w) \/ WatchStops(w)
    PROVE  CollectionsInv'
<1> USE DEF CollectionsInv, loanRows, caseRows, bus, officerVars, CaseStatus, Promises
<1>1. CASE StartWatch(w)
  <2>1. CollectionsTypeOK'
    BY <1>1 DEF StartWatch, GoOn, CollectionsTypeOK
  <2>2. OneAtATime'
    BY <1>1, WatchesAreNotListeners DEF StartWatch, GoOn, CollectionsTypeOK, OneAtATime, Opening, OpenCases
  <2> QED
    BY <2>1, <2>2
<1>2. CASE ApplyOverduePenalty(w)
  <2>1. CollectionsTypeOK'
    BY <1>2 DEF ApplyOverduePenalty, GoOn, CollectionsTypeOK
  <2>2. OneAtATime'
    BY <1>2, WatchesAreNotListeners DEF ApplyOverduePenalty, GoOn, CollectionsTypeOK, OneAtATime, Opening, OpenCases
  <2> QED
    BY <2>1, <2>2
<1>3. CASE MarkOverdue(w)
  <2>1. CollectionsTypeOK'
    BY <1>3 DEF MarkOverdue, GoOn, CollectionsTypeOK
  <2>2. OneAtATime'
    BY <1>3, WatchesAreNotListeners DEF MarkOverdue, GoOn, CollectionsTypeOK, OneAtATime, Opening, OpenCases
  <2> QED
    BY <2>1, <2>2
<1>4. CASE FindNpa(w)
  <2>1. CollectionsTypeOK'
    BY <1>4 DEF FindNpa, GoOn, CollectionsTypeOK
  <2>2. OneAtATime'
    BY <1>4, WatchesAreNotListeners DEF FindNpa, GoOn, CollectionsTypeOK, OneAtATime, Opening, OpenCases
  <2> QED
    BY <2>1, <2>2
<1>5. CASE MarkNpa(w)
  <2>1. CollectionsTypeOK'
    BY <1>5 DEF MarkNpa, GoOn, CollectionsTypeOK
  <2>2. OneAtATime'
    BY <1>5, WatchesAreNotListeners DEF MarkNpa, GoOn, CollectionsTypeOK, OneAtATime, Opening, OpenCases
  <2> QED
    BY <2>1, <2>2
<1>6. CASE SweepDelinquent(w)
  <2>1. CollectionsTypeOK'
    BY <1>6 DEF SweepDelinquent, GoOn, CollectionsTypeOK
  <2>2. OneAtATime'
    BY <1>6, WatchesAreNotListeners DEF SweepDelinquent, GoOn, CollectionsTypeOK, OneAtATime, Opening, OpenCases
  <2> QED
    BY <2>1, <2>2
<1>7. CASE OpenCaseFinds(w)
  <2>1. CollectionsTypeOK'
    BY <1>7 DEF OpenCaseFinds, GoOn, CollectionsTypeOK
  <2>2. OneAtATime'
    BY <1>7, WatchesAreNotListeners DEF OpenCaseFinds, GoOn, CollectionsTypeOK, OneAtATime, Opening, OpenCases
  <2> QED
    BY <2>1, <2>2
<1>8. CASE MarkBrokenPtps(w)
  <2>1. CollectionsTypeOK'
    BY <1>8 DEF MarkBrokenPtps, GoOn, Judged, CollectionsTypeOK
  <2>2. OneAtATime'
    BY <1>8, WatchesAreNotListeners DEF MarkBrokenPtps, GoOn, Judged, CollectionsTypeOK, OneAtATime, Opening, OpenCases
  <2> QED
    BY <2>1, <2>2
<1>9. CASE WatchStops(w)
  <2>1. CollectionsTypeOK'
    BY <1>9, CollectionsAssumption DEF WatchStops, GoOn, Trouble, CollectionsTypeOK
  <2>2. OneAtATime'
    BY <1>9, WatchesAreNotListeners DEF WatchStops, GoOn, Trouble, CollectionsTypeOK, OneAtATime, Opening, OpenCases
  <2> QED
    BY <2>1, <2>2
<1> QED
  BY <1>1, <1>2, <1>3, <1>4, <1>5, <1>6, <1>7, <1>8, <1>9

\* Staff
LEMMA OfficerStep ==
    ASSUME CollectionsInv, NEW o \in Officers,
           \/ (\E op \in {"contact", "escalate", "close"}, c \in Cases : OfficerReads(o, op, c)) \/ LogContact(o) \/ EscalateCase(o)
           \/ CloseCase(o)
    PROVE  CollectionsInv'
<1> USE DEF CollectionsInv, loanRows, caseRows, bus, officerVars, CaseStatus, Promises
<1>1. CASE (\E op \in {"contact", "escalate", "close"}, c \in Cases : OfficerReads(o, op, c))
  <2>1. CollectionsTypeOK'
    BY <1>1, CollectionsAssumption DEF OfficerReads, Attend, CollectionsTypeOK
  <2>2. OneAtATime'
    BY <1>1, WatchesAreNotListeners DEF OfficerReads, Attend, CollectionsTypeOK, OneAtATime, Opening, OpenCases
  <2> QED
    BY <2>1, <2>2
<1>2. CASE LogContact(o)
  <2>1. CollectionsTypeOK'
    BY <1>2 DEF LogContact, Attend, CollectionsTypeOK
  <2>2. OneAtATime'
    BY <1>2, WatchesAreNotListeners DEF LogContact, Attend, CollectionsTypeOK, OneAtATime, Opening, OpenCases
  <2> QED
    BY <2>1, <2>2
<1>3. CASE EscalateCase(o)
  <2>1. CollectionsTypeOK'
    BY <1>3 DEF EscalateCase, Attend, CollectionsTypeOK
  <2>2. OneAtATime'
    BY <1>3, WatchesAreNotListeners DEF EscalateCase, Attend, CollectionsTypeOK, OneAtATime, Opening, OpenCases
  <2> QED
    BY <2>1, <2>2
<1>4. CASE CloseCase(o)
  <2>1. CollectionsTypeOK'
    <3>1. case' \in [Cases -> CaseStatus \cup {"none"}]
      BY <1>4 DEF CloseCase, CollectionsTypeOK
    <3>2. officer' \in [Officers -> {"idle", "contact", "escalate", "close"}]
      BY <1>4 DEF CloseCase, Attend, CollectionsTypeOK
    <3>3. about' \in [Officers -> Cases \cup {NoCase}]
      BY <1>4 DEF CloseCase, Attend, CollectionsTypeOK
    <3> QED
      BY <1>4, <3>1, <3>2, <3>3 DEF CloseCase, CollectionsTypeOK
  <2>2. OneAtATime'
    BY <1>4, WatchesAreNotListeners DEF CloseCase, Attend, CollectionsTypeOK, OneAtATime, Opening, OpenCases
  <2> QED
    BY <2>1, <2>2
<1> QED
  BY <1>1, <1>2, <1>3, <1>4

\* The date of a promise comes
LEMMA PromiseStep ==
    ASSUME CollectionsInv, NEW c \in Cases,
           \/ PromiseFallsDue(c)
    PROVE  CollectionsInv'
<1> USE DEF CollectionsInv, loanRows, caseRows, bus, officerVars, CaseStatus, Promises
<1>1. CASE PromiseFallsDue(c)
  <2>1. CollectionsTypeOK'
    BY <1>1 DEF PromiseFallsDue, CollectionsTypeOK
  <2>2. OneAtATime'
    BY <1>1, WatchesAreNotListeners DEF PromiseFallsDue, CollectionsTypeOK, OneAtATime, Opening, OpenCases
  <2> QED
    BY <2>1, <2>2
<1> QED
  BY <1>1

\* The two ways to a case: a listener, and the watch
LEMMA CreationStep ==
    ASSUME CollectionsInv
    PROVE  /\ \A l \in Assigners : AutoAssignOpens(l) => CollectionsInv'
           /\ \A w \in Watches : OpenCaseCreates(w) => CollectionsInv'
<1> USE DEF CollectionsInv, loanRows, caseRows, bus, officerVars
<1>1. ASSUME NEW l \in Assigners, AutoAssignOpens(l) PROVE CollectionsInv'
  <2>1. l \in Opening /\ Opening' = Opening \ {l}
    BY <1>1, WatchesAreNotListeners DEF AutoAssignOpens, Hear, Opening, CollectionsTypeOK
  <2>2. OneAtATime' /\ case' \in [Cases -> CaseStatus \cup {"none"}] /\ crossed' \in BOOLEAN /\ promise' = promise
    BY <1>1, <2>1, OpenStep DEF AutoAssignOpens
  <2>3. CollectionsTypeOK'
    BY <1>1, <2>2 DEF AutoAssignOpens, Hear, CollectionsTypeOK
  <2> QED
    BY <2>2, <2>3
<1>2. ASSUME NEW w \in Watches, OpenCaseCreates(w) PROVE CollectionsInv'
  <2>1. w \in Opening /\ Opening' = Opening \ {w}
    BY <1>2, WatchesAreNotListeners DEF OpenCaseCreates, GoOn, Opening, CollectionsTypeOK
  <2>2. OneAtATime' /\ case' \in [Cases -> CaseStatus \cup {"none"}] /\ crossed' \in BOOLEAN /\ promise' = promise
    BY <1>2, <2>1, OpenStep DEF OpenCaseCreates
  <2>3. CollectionsTypeOK'
    BY <1>2, <2>2 DEF OpenCaseCreates, GoOn, CollectionsTypeOK
  <2> QED
    BY <2>2, <2>3
<1> QED
  BY <1>1, <1>2

LEMMA CollectionsStep == CollectionsInv /\ [CollectionsNext]_collectionVars => CollectionsInv'
<1> SUFFICES ASSUME CollectionsInv, [CollectionsNext]_collectionVars PROVE CollectionsInv'
  OBVIOUS
<1>1. CASE \/ DayPasses \/ EmiTurns \/ LoanCloses \/ LoanIsClosed
           \/ ThresholdReached \/ MarkNpaOnThreshold
  BY <1>1, LoanStep
<1>2. CASE CloseOpenCases
  BY <1>2, CloseStep
<1>3. ASSUME NEW l \in Assigners,
             ListenerHearsNpa(l) \/ AutoAssignFinds(l) \/ AutoAssignOpens(l) \/ ListenerDies(l)
      PROVE  CollectionsInv'
  BY <1>3, CaseListenerStep, CreationStep
<1>4. ASSUME NEW w \in Watches, Watching(w) \/ WatchStops(w) PROVE CollectionsInv'
  BY <1>4, WatchStep, CreationStep DEF Watching
<1>5. ASSUME NEW o \in Officers, NEW op \in {"contact", "escalate", "close"}, NEW c \in Cases,
             OfficerReads(o, op, c)
      PROVE  CollectionsInv'
  BY <1>5, OfficerStep
<1>6. ASSUME NEW o \in Officers, LogContact(o) \/ EscalateCase(o) \/ CloseCase(o) PROVE CollectionsInv'
  BY <1>6, OfficerStep
<1>7. ASSUME NEW c \in Cases, PromiseFallsDue(c) PROVE CollectionsInv'
  BY <1>7, PromiseStep
<1>8. CASE UNCHANGED collectionVars
  BY <1>8 DEF collectionVars, loanRows, caseRows, bus, officerVars, CollectionsInv, CollectionsTypeOK,
     OneAtATime, Opening, OpenCases
<1> QED
  BY <1>1, <1>2, <1>3, <1>4, <1>5, <1>6, <1>7, <1>8 DEF CollectionsNext
-----------------------------------------------------------------------------
\* The inductive invariant holds in every behaviour.
THEOREM CollectionsInvariance == CollectionsSpec => []CollectionsInv
  BY InitCollectionsInv, CollectionsStep, PTL DEF CollectionsSpec

\* Every variable keeps its type.
THEOREM CollectionsTypeCorrect == CollectionsSpec => []CollectionsTypeOK
<1>1. CollectionsInv => CollectionsTypeOK
  BY DEF CollectionsInv
<1> QED
  BY <1>1, CollectionsInvariance, PTL

\* A set without two different elements has at most one
LEMMA AtMostOne ==
    ASSUME NEW S, \A x, y \in S : x = y
    PROVE  Cardinality(S) \in {0, 1}
<1>1. CASE S = {}
  BY <1>1, FS_EmptySet
<1>2. CASE S # {}
  <2>1. PICK x \in S : S = {x}
    BY <1>2
  <2> QED
    BY <2>1, FS_Singleton
<1> QED
  BY <1>1, <1>2

\* Two cases of a loan are open only when two openings were side by side: for
\* any number of nights, listeners, officers and cases.
THEOREM OneCaseIsOpen == CollectionsSpec => []OneOpenCase
<1>1. CollectionsInv => OneOpenCase
  <2> SUFFICES ASSUME CollectionsInv, ~ crossed PROVE ~ (Cardinality(OpenCases) > 1)
    BY DEF OneOpenCase
  <2>1. Cardinality(OpenCases) \in {0, 1}
    BY AtMostOne DEF CollectionsInv, OneAtATime
  <2> QED
    BY <2>1
<1> QED
  BY <1>1, CollectionsInvariance, PTL
=============================================================================
