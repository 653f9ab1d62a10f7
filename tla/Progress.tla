------------------------------ MODULE Progress ------------------------------
(***************************************************************************)
(* Components that share no state, put together so that one run checks     *)
(* what they must eventually do: a behaviour runs one component (its desk) *)
(* and leaves the others as they start.  Fairness is that of the component *)
(* that runs.                                                              *)
(***************************************************************************)
EXTENDS Agreement, OfflineQueue, Collections, Session

CONSTANT Desks   \* the components to run, each in behaviours of its own

VARIABLE desk

progressVars == <<desk, agreementVars, queueVars, collectionVars, sessionVars>>

ProgressInit ==
    /\ desk \in Desks
    /\ AgreementInit
    /\ QueueInit
    /\ CollectionsInit
    /\ SessionInit
    /\ desk # "app" => index = <<>>

ProgressNext ==
    \/ desk = "agreement" /\ AgreementNext
       /\ UNCHANGED <<desk, queueVars, collectionVars, sessionVars>>
    \/ desk = "app" /\ QueueNext
       /\ UNCHANGED <<desk, agreementVars, collectionVars, sessionVars>>
    \/ desk = "collections" /\ CollectionsNext
       /\ UNCHANGED <<desk, agreementVars, queueVars, sessionVars>>
    \/ desk = "session" /\ SessionNext
       /\ UNCHANGED <<desk, agreementVars, queueVars, collectionVars>>

\* Calls in flight go on, the provider keeps calling back, and the customer
\* keeps asking for an agreement: however often both his calls are busy
AgreementFairness ==
    /\ \A c \in AppCalls : WF_agreementVars(desk = "agreement" /\ Generation(c))
    /\ \A c \in AppCalls : WF_agreementVars(desk = "agreement" /\ Completion(c))
    /\ SF_agreementVars(desk = "agreement" /\ \E c \in AppCalls : GenerateAgreement(c))
    /\ \A w \in Callbacks : WF_agreementVars(desk = "agreement" /\ Handling(w))
    /\ \A r \in SignRequest :
          WF_agreementVars(desk = "agreement" /\ \E w \in Callbacks : DeliverCallback(w, r))

\* What is under way goes on, a lost network comes back, and flush is triggered
\* again and again: by the online event, or by opening the app
QueueFairness ==
    /\ WF_queueVars(desk = "app" /\ GoOnline)
    /\ \A o \in Ops : WF_queueVars(desk = "app" /\ Appending(o))
    /\ WF_queueVars(desk = "app" /\ (StartFlush \/ Flushing))
    /\ \A r \in Requests : WF_queueVars(desk = "app" /\ Serving(r))

\* Cron starts the watch every night
CollectionsFairness ==
    \A w \in Watches : WF_collectionVars(desk = "collections" /\ Watching(w))

\* The app's callbacks run, and the servers answer
SessionFairness ==
    \A c \in Calls :
        /\ WF_sessionVars(desk = "session" /\ CallSteps(c))
        /\ WF_sessionVars(desk = "session" /\ ServerSteps(c))

ProgressSpec ==
    /\ ProgressInit /\ [][ProgressNext]_progressVars
    /\ AgreementFairness /\ QueueFairness /\ CollectionsFairness /\ SessionFairness
=============================================================================
