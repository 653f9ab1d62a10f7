----------------------------- MODULE BackOffice -----------------------------
(***************************************************************************)
(* Components that share no state, put together so that one run checks     *)
(* the safety of all of them: a behaviour runs one component (its desk)    *)
(* and leaves the others as they start.                                    *)
(***************************************************************************)
EXTENDS Kyc, Agreement, OfflineQueue, Application, GoldCustody, Commissions, Session

CONSTANTS
    Desks,    \* the components to run, each in behaviours of its own
    Resting   \* how a component starts that does not run

VARIABLE desk

backOfficeVars == <<desk, kycVars, agreementVars, queueVars, applicationVars, goldVars, commissionVars, sessionVars>>

\* A component that does not run starts in one way only
AtRest ==
    /\ desk # "kyc" => runs = Resting.runs /\ ~listed
    /\ desk # "agreement" => endpoint = Resting.endpoint
    /\ desk # "app" => platform = Resting.platform /\ index = <<>>
    /\ desk # "application" => product = Resting.product

BackOfficeInit ==
    /\ desk \in Desks
    /\ KycInit
    /\ AgreementInit
    /\ QueueInit
    /\ ApplicationInit
    /\ GoldInit
    /\ CommissionsInit
    /\ SessionInit
    /\ AtRest

BackOfficeNext ==
    \/ desk = "kyc" /\ KycNext
       /\ UNCHANGED <<desk, agreementVars, queueVars, applicationVars, goldVars, commissionVars, sessionVars>>
    \/ desk = "agreement" /\ AgreementNext
       /\ UNCHANGED <<desk, kycVars, queueVars, applicationVars, goldVars, commissionVars, sessionVars>>
    \/ desk = "app" /\ QueueNext
       /\ UNCHANGED <<desk, kycVars, agreementVars, applicationVars, goldVars, commissionVars, sessionVars>>
    \/ desk = "application" /\ ApplicationNext
       /\ UNCHANGED <<desk, kycVars, agreementVars, queueVars, goldVars, commissionVars, sessionVars>>
    \/ desk = "gold" /\ GoldNext
       /\ UNCHANGED <<desk, kycVars, agreementVars, queueVars, applicationVars, commissionVars, sessionVars>>
    \/ desk = "commissions" /\ CommissionsNext
       /\ UNCHANGED <<desk, kycVars, agreementVars, queueVars, applicationVars, goldVars, sessionVars>>
    \/ desk = "session" /\ SessionNext
       /\ UNCHANGED <<desk, kycVars, agreementVars, queueVars, applicationVars, goldVars, commissionVars>>

BackOfficeSpec == BackOfficeInit /\ [][BackOfficeNext]_backOfficeVars

\* Each component keeps its types, whichever of its calls are in flight.
DesksTypeOK ==
    /\ KycTypeOK /\ AgreementTypeOK /\ QueueTypeOK /\ ApplicationTypeOK
    /\ GoldTypeOK /\ CommissionsTypeOK /\ SessionTypeOK
=============================================================================
