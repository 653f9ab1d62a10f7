-------------------------- MODULE BackOfficeProofs --------------------------
(***************************************************************************)
(* Safety of GoldCustody, for every set of auctions and clerks, and of     *)
(* Commissions, for every set of commissions, accounts, payouts and        *)
(* listeners; and of BackOffice: what its parts keep when they run alone,  *)
(* they keep together.                                                     *)
(***************************************************************************)
EXTENDS BackOffice, KycProofs, ApplicationProofs, SessionProofs, OfflineQueueProofs

\* A clerk who completes an auction holds on to it
OverAnAuction == \A d \in Clerks : clerk[d] \in {"sell", "moveToAuctioned"} => over[d] \in Auctions

\* A scheduled auction has a scheduling left that no sale was recorded for
SchedulingIsLeft ==
    \A a \in Auctions :
        /\ sales[a] <= schedulings[a]
        /\ auction[a] = "SCHEDULED" => sales[a] < schedulings[a]

\* A clerk moves the gold for a sale that is on record
SaleIsRecorded ==
    /\ \A d \in Clerks : clerk[d] = "moveToAuctioned" => sales[over[d]] > 0
    /\ AuctionedIsSold

GoldInv == GoldTypeOK /\ OverAnAuction /\ SchedulingIsLeft /\ SaleIsRecorded
-----------------------------------------------------------------------------
LEMMA InitGoldInv == GoldInit => GoldInv
<1> SUFFICES ASSUME GoldInit PROVE GoldInv
  OBVIOUS
<1>1. GoldTypeOK
  <2>1. 0 \in 0..MaxSchedulings /\ 0 \in Nat /\ marked \in BOOLEAN
    <3>1. 0 \in 0..MaxSchedulings
      BY GoldAssumption DEF GoldAssumption
    <3> QED
      BY <3>1 DEF GoldInit
  <2> QED
    BY <2>1 DEF GoldInit, GoldTypeOK, AuctionStatus
<1>2. OverAnAuction /\ SchedulingIsLeft
  BY DEF GoldInit, OverAnAuction, SchedulingIsLeft
<1>3. SaleIsRecorded
  BY DEF GoldInit, SaleIsRecorded, AuctionedIsSold
<1> QED
  BY <1>1, <1>2, <1>3 DEF GoldInv

\* goldAuction.service: the endpoints that write once
LEMMA AuctionStep ==
    ASSUME GoldInv, NEW a \in Auctions,
           InitiateAuction(a) \/ ScheduleAuction(a) \/ CancelAuction(a)
    PROVE  GoldInv'
<1> USE DEF GoldInv, goldRows, clerkVars, goldHistory, LeaveDesk, TurnTo
<1>1. CASE InitiateAuction(a)
  <2>1. GoldTypeOK'
    BY <1>1, GoldAssumption DEF InitiateAuction, GoldTypeOK, AuctionStatus, OverAnAuction
  <2>2. OverAnAuction'
    BY <1>1 DEF InitiateAuction, GoldTypeOK, OverAnAuction
  <2>3. SchedulingIsLeft'
    BY <1>1, GoldAssumption DEF InitiateAuction, GoldTypeOK, OverAnAuction, SchedulingIsLeft
  <2>4. SaleIsRecorded'
    BY <1>1 DEF InitiateAuction, GoldTypeOK, OverAnAuction, SaleIsRecorded, AuctionedIsSold
  <2> QED
    BY <2>1, <2>2, <2>3, <2>4
<1>2. CASE ScheduleAuction(a)
  <2>1. GoldTypeOK'
    BY <1>2, GoldAssumption DEF ScheduleAuction, GoldTypeOK, AuctionStatus, OverAnAuction
  <2>2. OverAnAuction'
    BY <1>2 DEF ScheduleAuction, GoldTypeOK, OverAnAuction
  <2>3. SchedulingIsLeft'
    BY <1>2, GoldAssumption DEF ScheduleAuction, GoldTypeOK, OverAnAuction, SchedulingIsLeft
  <2>4. SaleIsRecorded'
    BY <1>2 DEF ScheduleAuction, GoldTypeOK, OverAnAuction, SaleIsRecorded, AuctionedIsSold
  <2> QED
    BY <2>1, <2>2, <2>3, <2>4
<1>3. CASE CancelAuction(a)
  <2>1. GoldTypeOK'
    BY <1>3, GoldAssumption DEF CancelAuction, GoldTypeOK, AuctionStatus, OverAnAuction
  <2>2. OverAnAuction'
    BY <1>3 DEF CancelAuction, GoldTypeOK, OverAnAuction
  <2>3. SchedulingIsLeft'
    BY <1>3, GoldAssumption DEF CancelAuction, GoldTypeOK, OverAnAuction, SchedulingIsLeft
  <2>4. SaleIsRecorded'
    BY <1>3 DEF CancelAuction, GoldTypeOK, OverAnAuction, SaleIsRecorded, AuctionedIsSold
  <2> QED
    BY <2>1, <2>2, <2>3, <2>4
<1> QED
  BY <1>1, <1>2, <1>3

\* completeAuction
LEMMA SaleStep ==
    ASSUME GoldInv, NEW d \in Clerks, NEW a \in Auctions,
           CompleteAuction(d, a) \/ RecordSale(d) \/ MoveToAuctioned(d)
    PROVE  GoldInv'
<1> USE DEF GoldInv, goldRows, clerkVars, goldHistory, LeaveDesk, TurnTo
<1>1. CASE CompleteAuction(d, a)
  <2>1. GoldTypeOK'
    BY <1>1, GoldAssumption DEF CompleteAuction, GoldTypeOK, AuctionStatus, OverAnAuction
  <2>2. OverAnAuction'
    BY <1>1 DEF CompleteAuction, GoldTypeOK, OverAnAuction
  <2>3. SchedulingIsLeft'
    BY <1>1, GoldAssumption DEF CompleteAuction, GoldTypeOK, OverAnAuction, SchedulingIsLeft
  <2>4. SaleIsRecorded'
    BY <1>1 DEF CompleteAuction, GoldTypeOK, OverAnAuction, SaleIsRecorded, AuctionedIsSold
  <2> QED
    BY <2>1, <2>2, <2>3, <2>4
<1>2. CASE RecordSale(d)
  <2>1. GoldTypeOK'
    BY <1>2, GoldAssumption DEF RecordSale, GoldTypeOK, AuctionStatus, OverAnAuction
  <2>2. OverAnAuction'
    BY <1>2 DEF RecordSale, GoldTypeOK, OverAnAuction
  <2>3. SchedulingIsLeft'
    BY <1>2, GoldAssumption DEF RecordSale, GoldTypeOK, OverAnAuction, SchedulingIsLeft
  <2>4. SaleIsRecorded'
    BY <1>2 DEF RecordSale, GoldTypeOK, OverAnAuction, SaleIsRecorded, AuctionedIsSold
  <2> QED
    BY <2>1, <2>2, <2>3, <2>4
<1>3. CASE MoveToAuctioned(d)
  <2>1. GoldTypeOK'
    BY <1>3, GoldAssumption DEF MoveToAuctioned, GoldTypeOK, AuctionStatus, OverAnAuction
  <2>2. OverAnAuction'
    BY <1>3 DEF MoveToAuctioned, GoldTypeOK, OverAnAuction
  <2>3. SchedulingIsLeft'
    BY <1>3, GoldAssumption DEF MoveToAuctioned, GoldTypeOK, OverAnAuction, SchedulingIsLeft
  <2>4. SaleIsRecorded'
    BY <1>3 DEF MoveToAuctioned, GoldTypeOK, OverAnAuction, SaleIsRecorded, AuctionedIsSold
  <2> QED
    BY <2>1, <2>2, <2>3, <2>4
<1> QED
  BY <1>1, <1>2, <1>3

\* goldCustody.service
LEMMA CustodyStep ==
    ASSUME GoldInv, NEW d \in Clerks,
           \/ SetVaultLocation
           \/ ReleaseGold(d)
           \/ MoveToReleased(d)
           \/ MarkAuctioned(d)
           \/ MoveToMarked(d)
           \/ ClerkStops(d)
    PROVE  GoldInv'
<1> USE DEF GoldInv, goldRows, clerkVars, goldHistory, LeaveDesk, TurnTo
<1>1. CASE SetVaultLocation
  <2>1. GoldTypeOK'
    BY <1>1, GoldAssumption DEF SetVaultLocation, GoldTypeOK, AuctionStatus, OverAnAuction
  <2>2. OverAnAuction'
    BY <1>1 DEF SetVaultLocation, GoldTypeOK, OverAnAuction
  <2>3. SchedulingIsLeft'
    BY <1>1, GoldAssumption DEF SetVaultLocation, GoldTypeOK, OverAnAuction, SchedulingIsLeft
  <2>4. SaleIsRecorded'
    BY <1>1 DEF SetVaultLocation, GoldTypeOK, OverAnAuction, SaleIsRecorded, AuctionedIsSold
  <2> QED
    BY <2>1, <2>2, <2>3, <2>4
<1>2. CASE ReleaseGold(d)
  <2>1. GoldTypeOK'
    BY <1>2, GoldAssumption DEF ReleaseGold, GoldTypeOK, AuctionStatus, OverAnAuction
  <2>2. OverAnAuction'
    BY <1>2 DEF ReleaseGold, GoldTypeOK, OverAnAuction
  <2>3. SchedulingIsLeft'
    BY <1>2, GoldAssumption DEF ReleaseGold, GoldTypeOK, OverAnAuction, SchedulingIsLeft
  <2>4. SaleIsRecorded'
    BY <1>2 DEF ReleaseGold, GoldTypeOK, OverAnAuction, SaleIsRecorded, AuctionedIsSold
  <2> QED
    BY <2>1, <2>2, <2>3, <2>4
<1>3. CASE MoveToReleased(d)
  <2>1. GoldTypeOK'
    BY <1>3, GoldAssumption DEF MoveToReleased, GoldTypeOK, AuctionStatus, OverAnAuction
  <2>2. OverAnAuction'
    BY <1>3 DEF MoveToReleased, GoldTypeOK, OverAnAuction
  <2>3. SchedulingIsLeft'
    BY <1>3, GoldAssumption DEF MoveToReleased, GoldTypeOK, OverAnAuction, SchedulingIsLeft
  <2>4. SaleIsRecorded'
    BY <1>3 DEF MoveToReleased, GoldTypeOK, OverAnAuction, SaleIsRecorded, AuctionedIsSold
  <2> QED
    BY <2>1, <2>2, <2>3, <2>4
<1>4. CASE MarkAuctioned(d)
  <2>1. GoldTypeOK'
    BY <1>4, GoldAssumption DEF MarkAuctioned, GoldTypeOK, AuctionStatus, OverAnAuction
  <2>2. OverAnAuction'
    BY <1>4 DEF MarkAuctioned, GoldTypeOK, OverAnAuction
  <2>3. SchedulingIsLeft'
    BY <1>4, GoldAssumption DEF MarkAuctioned, GoldTypeOK, OverAnAuction, SchedulingIsLeft
  <2>4. SaleIsRecorded'
    BY <1>4 DEF MarkAuctioned, GoldTypeOK, OverAnAuction, SaleIsRecorded, AuctionedIsSold
  <2> QED
    BY <2>1, <2>2, <2>3, <2>4
<1>5. CASE MoveToMarked(d)
  <2>1. GoldTypeOK'
    BY <1>5, GoldAssumption DEF MoveToMarked, GoldTypeOK, AuctionStatus, OverAnAuction
  <2>2. OverAnAuction'
    BY <1>5 DEF MoveToMarked, GoldTypeOK, OverAnAuction
  <2>3. SchedulingIsLeft'
    BY <1>5, GoldAssumption DEF MoveToMarked, GoldTypeOK, OverAnAuction, SchedulingIsLeft
  <2>4. SaleIsRecorded'
    BY <1>5 DEF MoveToMarked, GoldTypeOK, OverAnAuction, SaleIsRecorded, AuctionedIsSold
  <2> QED
    BY <2>1, <2>2, <2>3, <2>4
<1>6. CASE ClerkStops(d)
  <2>1. GoldTypeOK'
    BY <1>6, GoldAssumption DEF ClerkStops, GoldTypeOK, AuctionStatus, OverAnAuction
  <2>2. OverAnAuction'
    BY <1>6 DEF ClerkStops, GoldTypeOK, OverAnAuction
  <2>3. SchedulingIsLeft'
    BY <1>6, GoldAssumption DEF ClerkStops, GoldTypeOK, OverAnAuction, SchedulingIsLeft
  <2>4. SaleIsRecorded'
    BY <1>6 DEF ClerkStops, GoldTypeOK, OverAnAuction, SaleIsRecorded, AuctionedIsSold
  <2> QED
    BY <2>1, <2>2, <2>3, <2>4
<1> QED
  BY <1>1, <1>2, <1>3, <1>4, <1>5, <1>6

LEMMA GoldStep == GoldInv /\ [GoldNext]_goldVars => GoldInv'
<1> SUFFICES ASSUME GoldInv, [GoldNext]_goldVars PROVE GoldInv'
  OBVIOUS
<1>1. ASSUME NEW a \in Auctions, InitiateAuction(a) \/ ScheduleAuction(a) \/ CancelAuction(a) PROVE GoldInv'
  BY <1>1, AuctionStep
<1>2. ASSUME NEW d \in Clerks, NEW a \in Auctions, CompleteAuction(d, a) PROVE GoldInv'
  BY <1>2, SaleStep
<1>3. CASE SetVaultLocation
  BY <1>3 DEF SetVaultLocation, GoldInv, GoldTypeOK, OverAnAuction, SchedulingIsLeft, SaleIsRecorded,
     AuctionedIsSold, clerkVars, goldHistory
<1>4. ASSUME NEW d \in Clerks,
             \/ RecordSale(d) \/ MoveToAuctioned(d)
             \/ ReleaseGold(d) \/ MoveToReleased(d) \/ MarkAuctioned(d) \/ MoveToMarked(d)
             \/ ClerkStops(d)
      PROVE  GoldInv'
  <2>1. CASE RecordSale(d)
    <3>1. over[d] \in Auctions
      BY <2>1 DEF RecordSale, GoldInv, OverAnAuction
    <3> QED
      BY <2>1, <3>1, SaleStep
  <2>2. CASE MoveToAuctioned(d)
    <3>1. over[d] \in Auctions
      BY <2>2 DEF MoveToAuctioned, GoldInv, OverAnAuction
    <3> QED
      BY <2>2, <3>1, SaleStep
  <2> QED
    BY <1>4, <2>1, <2>2, CustodyStep
<1>5. CASE UNCHANGED goldVars
  BY <1>5 DEF goldVars, goldRows, clerkVars, goldHistory, GoldInv, GoldTypeOK, OverAnAuction,
     SchedulingIsLeft, SaleIsRecorded, AuctionedIsSold
<1> QED
  BY <1>1, <1>2, <1>3, <1>4, <1>5 DEF GoldNext
-----------------------------------------------------------------------------
\* The inductive invariant holds in every behaviour.
THEOREM GoldInvariance == GoldSpec => []GoldInv
  BY InitGoldInv, GoldStep, PTL DEF GoldSpec

\* Every variable keeps its type.
THEOREM GoldTypeCorrect == GoldSpec => []GoldTypeOK
<1>1. GoldInv => GoldTypeOK
  BY DEF GoldInv
<1> QED
  BY <1>1, GoldInvariance, PTL

\* Of any number of clerks who complete an auction side by side, one succeeds for
\* every time it was scheduled.
THEOREM NoSaleTwice == GoldSpec => []SoldOncePerScheduling
<1>1. GoldInv => SoldOncePerScheduling
  BY DEF GoldInv, SchedulingIsLeft, SoldOncePerScheduling
<1> QED
  BY <1>1, GoldInvariance, PTL

\* Gold leaves as auctioned for a recorded sale or by a clerk's own hand only.
THEOREM AuctionNeedsSale == GoldSpec => []AuctionedIsSold
<1>1. GoldInv => AuctionedIsSold
  BY DEF GoldInv, SaleIsRecorded
<1> QED
  BY <1>1, GoldInvariance, PTL
-----------------------------------------------------------------------------
\* What a payout is about to send, or has sent, is paid under its own name
ClaimIsHeld ==
    \A b \in Batches :
        batch[b] \in {"send", "processed", "failed"} =>
            \A c \in picked[b] : commission[c] = "PAID" /\ linked[c] = {b}

\* The bank is asked for what was claimed, and asked again after an error only
RepeatNeedsLoss ==
    \A b \in Batches :
        /\ batch[b] \in {"new", "find", "claim"} => transfers[b] = 0
        /\ batch[b] = "send" /\ transfers[b] > 0 => replyLost[b]
        /\ transfers[b] > 1 => replyLost[b]

CommissionsInv == CommissionsTypeOK /\ ClaimIsHeld /\ RepeatNeedsLoss /\ TransferIsClaimed
-----------------------------------------------------------------------------
LEMMA InitCommissionsInv == CommissionsInit => CommissionsInv
<1> SUFFICES ASSUME CommissionsInit PROVE CommissionsInv
  OBVIOUS
<1>1. CommissionsTypeOK
  BY CommissionsAssumption DEF CommissionsInit, CommissionsTypeOK, CommissionStatus
<1>2. ClaimIsHeld
  BY DEF CommissionsInit, ClaimIsHeld
<1>3. RepeatNeedsLoss
  BY DEF CommissionsInit, RepeatNeedsLoss
<1>4. TransferIsClaimed
  BY DEF CommissionsInit, TransferIsClaimed, PaidBy
<1> QED
  BY <1>1, <1>2, <1>3, <1>4 DEF CommissionsInv

\* The agent's status
LEMMA AgentStep ==
    ASSUME CommissionsInv,
           ActivateAgent \/ SuspendAgent \/ ReactivateAgent \/ TerminateAgent
    PROVE  CommissionsInv'
<1> USE DEF CommissionsInv, agentRows, payoutVars, bankVars, listenVars, Notify, Turn
<1>1. CASE ActivateAgent
  <2>1. CommissionsTypeOK'
    BY <1>1 DEF ActivateAgent, CommissionsTypeOK, CommissionStatus
  <2>2. ClaimIsHeld'
    BY <1>1 DEF ActivateAgent, CommissionsTypeOK, ClaimIsHeld
  <2>3. RepeatNeedsLoss'
    BY <1>1 DEF ActivateAgent, CommissionsTypeOK, RepeatNeedsLoss
  <2>4. TransferIsClaimed'
    BY <1>1 DEF ActivateAgent, CommissionsTypeOK, RepeatNeedsLoss, TransferIsClaimed, PaidBy
  <2> QED
    BY <2>1, <2>2, <2>3, <2>4
<1>2. CASE SuspendAgent
  <2>1. CommissionsTypeOK'
    BY <1>2 DEF SuspendAgent, CommissionsTypeOK, CommissionStatus
  <2>2. ClaimIsHeld'
    BY <1>2 DEF SuspendAgent, CommissionsTypeOK, ClaimIsHeld
  <2>3. RepeatNeedsLoss'
    BY <1>2 DEF SuspendAgent, CommissionsTypeOK, RepeatNeedsLoss
  <2>4. TransferIsClaimed'
    BY <1>2 DEF SuspendAgent, CommissionsTypeOK, RepeatNeedsLoss, TransferIsClaimed, PaidBy
  <2> QED
    BY <2>1, <2>2, <2>3, <2>4
<1>3. CASE ReactivateAgent
  <2>1. CommissionsTypeOK'
    BY <1>3 DEF ReactivateAgent, CommissionsTypeOK, CommissionStatus
  <2>2. ClaimIsHeld'
    BY <1>3 DEF ReactivateAgent, CommissionsTypeOK, ClaimIsHeld
  <2>3. RepeatNeedsLoss'
    BY <1>3 DEF ReactivateAgent, CommissionsTypeOK, RepeatNeedsLoss
  <2>4. TransferIsClaimed'
    BY <1>3 DEF ReactivateAgent, CommissionsTypeOK, RepeatNeedsLoss, TransferIsClaimed, PaidBy
  <2> QED
    BY <2>1, <2>2, <2>3, <2>4
<1>4. CASE TerminateAgent
  <2>1. CommissionsTypeOK'
    BY <1>4 DEF TerminateAgent, CommissionsTypeOK, CommissionStatus
  <2>2. ClaimIsHeld'
    BY <1>4 DEF TerminateAgent, CommissionsTypeOK, ClaimIsHeld
  <2>3. RepeatNeedsLoss'
    BY <1>4 DEF TerminateAgent, CommissionsTypeOK, RepeatNeedsLoss
  <2>4. TransferIsClaimed'
    BY <1>4 DEF TerminateAgent, CommissionsTypeOK, RepeatNeedsLoss, TransferIsClaimed, PaidBy
  <2> QED
    BY <2>1, <2>2, <2>3, <2>4
<1> QED
  BY <1>1, <1>2, <1>3, <1>4

\* commission:calculate
LEMMA EarningStep ==
    ASSUME CommissionsInv, NEW c \in Earnings, NEW acc \in Accounts,
           EarnCommission(c, acc)
    PROVE  CommissionsInv'
<1> USE DEF CommissionsInv, agentRows, payoutVars, bankVars, listenVars, Notify, Turn
<1>1. CASE EarnCommission(c, acc)
  <2>1. CommissionsTypeOK'
    BY <1>1 DEF EarnCommission, CommissionsTypeOK, CommissionStatus
  <2>2. ClaimIsHeld'
    BY <1>1 DEF EarnCommission, CommissionsTypeOK, ClaimIsHeld
  <2>3. RepeatNeedsLoss'
    BY <1>1 DEF EarnCommission, CommissionsTypeOK, RepeatNeedsLoss
  <2>4. TransferIsClaimed'
    BY <1>1 DEF EarnCommission, CommissionsTypeOK, RepeatNeedsLoss, TransferIsClaimed, PaidBy
  <2> QED
    BY <2>1, <2>2, <2>3, <2>4
<1> QED
  BY <1>1

\* loan.npa is heard
LEMMA ListenerStep ==
    ASSUME CommissionsInv, NEW l \in Listeners, NEW acc \in Accounts,
           LoanTurnsNpa(l, acc)
    PROVE  CommissionsInv'
<1> USE DEF CommissionsInv, agentRows, payoutVars, bankVars, listenVars, Notify, Turn
<1>1. CASE LoanTurnsNpa(l, acc)
  <2>1. CommissionsTypeOK'
    BY <1>1 DEF LoanTurnsNpa, CommissionsTypeOK, CommissionStatus
  <2>2. ClaimIsHeld'
    BY <1>1 DEF LoanTurnsNpa, CommissionsTypeOK, ClaimIsHeld
  <2>3. RepeatNeedsLoss'
    BY <1>1 DEF LoanTurnsNpa, CommissionsTypeOK, RepeatNeedsLoss
  <2>4. TransferIsClaimed'
    BY <1>1 DEF LoanTurnsNpa, CommissionsTypeOK, RepeatNeedsLoss, TransferIsClaimed, PaidBy
  <2> QED
    BY <2>1, <2>2, <2>3, <2>4
<1> QED
  BY <1>1

\* commission:clawback takes EARNED commissions only, so none that a payout holds
LEMMA ListeningStep ==
    ASSUME CommissionsInv, NEW l \in Listeners,
           FindClawable(l) \/ ClawBack(l) \/ ListenerIsLost(l)
    PROVE  CommissionsInv'
<1> USE DEF CommissionsInv, agentRows, payoutVars, bankVars, listenVars, Notify, Turn
<1>1. CASE FindClawable(l)
  <2>1. CommissionsTypeOK'
    BY <1>1 DEF FindClawable, CommissionsTypeOK, CommissionStatus
  <2>2. ClaimIsHeld'
    BY <1>1 DEF FindClawable, CommissionsTypeOK, ClaimIsHeld
  <2>3. RepeatNeedsLoss'
    BY <1>1 DEF FindClawable, CommissionsTypeOK, RepeatNeedsLoss
  <2>4. TransferIsClaimed'
    BY <1>1 DEF FindClawable, CommissionsTypeOK, RepeatNeedsLoss, TransferIsClaimed, PaidBy
  <2> QED
    BY <2>1, <2>2, <2>3, <2>4
<1>2. CASE ClawBack(l)
  <2>1. CommissionsTypeOK'
    BY <1>2 DEF ClawBack, EarnedOn, CommissionsTypeOK, CommissionStatus
  <2>2. ClaimIsHeld'
    BY <1>2 DEF ClawBack, EarnedOn, CommissionsTypeOK, ClaimIsHeld
  <2>3. RepeatNeedsLoss'
    BY <1>2 DEF ClawBack, EarnedOn, CommissionsTypeOK, RepeatNeedsLoss
  <2>4. TransferIsClaimed'
    BY <1>2 DEF ClawBack, EarnedOn, CommissionsTypeOK, RepeatNeedsLoss, TransferIsClaimed, PaidBy
  <2> QED
    BY <2>1, <2>2, <2>3, <2>4
<1>3. CASE ListenerIsLost(l)
  <2>1. CommissionsTypeOK'
    BY <1>3 DEF ListenerIsLost, CommissionsTypeOK, CommissionStatus
  <2>2. ClaimIsHeld'
    BY <1>3 DEF ListenerIsLost, CommissionsTypeOK, ClaimIsHeld
  <2>3. RepeatNeedsLoss'
    BY <1>3 DEF ListenerIsLost, CommissionsTypeOK, RepeatNeedsLoss
  <2>4. TransferIsClaimed'
    BY <1>3 DEF ListenerIsLost, CommissionsTypeOK, RepeatNeedsLoss, TransferIsClaimed, PaidBy
  <2> QED
    BY <2>1, <2>2, <2>3, <2>4
<1> QED
  BY <1>1, <1>2, <1>3

\* processPayout
LEMMA PayoutStep ==
    ASSUME CommissionsInv, NEW b \in Batches,
           \/ ProcessPayout(b)
           \/ FindEarnedCommissions(b)
           \/ CreatePayoutBatch(b)
           \/ CreatePayout(b)
           \/ AttemptFails(b)
           \/ UpdatePayoutStatus(b)
           \/ PayoutStops(b)
    PROVE  CommissionsInv'
<1> USE DEF CommissionsInv, agentRows, payoutVars, bankVars, listenVars, Notify, Turn
<1>1. CASE ProcessPayout(b)
  <2>1. CommissionsTypeOK'
    BY <1>1 DEF ProcessPayout, CommissionsTypeOK, CommissionStatus
  <2>2. ClaimIsHeld'
    BY <1>1 DEF ProcessPayout, CommissionsTypeOK, ClaimIsHeld
  <2>3. RepeatNeedsLoss'
    BY <1>1 DEF ProcessPayout, CommissionsTypeOK, RepeatNeedsLoss
  <2>4. TransferIsClaimed'
    BY <1>1 DEF ProcessPayout, CommissionsTypeOK, RepeatNeedsLoss, TransferIsClaimed, PaidBy
  <2> QED
    BY <2>1, <2>2, <2>3, <2>4
<1>2. CASE FindEarnedCommissions(b)
  <2>1. CommissionsTypeOK'
    BY <1>2 DEF FindEarnedCommissions, Payable, CommissionsTypeOK, CommissionStatus
  <2>2. ClaimIsHeld'
    BY <1>2 DEF FindEarnedCommissions, Payable, CommissionsTypeOK, ClaimIsHeld
  <2>3. RepeatNeedsLoss'
    BY <1>2 DEF FindEarnedCommissions, Payable, CommissionsTypeOK, RepeatNeedsLoss
  <2>4. TransferIsClaimed'
    BY <1>2 DEF FindEarnedCommissions, Payable, CommissionsTypeOK, RepeatNeedsLoss, TransferIsClaimed, PaidBy
  <2> QED
    BY <2>1, <2>2, <2>3, <2>4
<1>3. CASE CreatePayoutBatch(b)
  <2>1. CommissionsTypeOK'
    BY <1>3 DEF CreatePayoutBatch, Claim, CommissionsTypeOK, CommissionStatus
  <2>2. ClaimIsHeld'
    BY <1>3 DEF CreatePayoutBatch, Claim, CommissionsTypeOK, ClaimIsHeld
  <2>3. RepeatNeedsLoss'
    BY <1>3 DEF CreatePayoutBatch, Claim, CommissionsTypeOK, RepeatNeedsLoss
  <2>4. TransferIsClaimed'
    BY <1>3 DEF CreatePayoutBatch, Claim, CommissionsTypeOK, RepeatNeedsLoss, TransferIsClaimed, PaidBy
  <2> QED
    BY <2>1, <2>2, <2>3, <2>4
<1>4. CASE CreatePayout(b)
  <2>1. CommissionsTypeOK'
    BY <1>4 DEF CreatePayout, Transfers, ClaimIsHeld, CommissionsTypeOK, CommissionStatus
  <2>2. ClaimIsHeld'
    BY <1>4 DEF CreatePayout, Transfers, CommissionsTypeOK, ClaimIsHeld
  <2>3. RepeatNeedsLoss'
    BY <1>4 DEF CreatePayout, Transfers, CommissionsTypeOK, RepeatNeedsLoss
  <2>4. TransferIsClaimed'
    BY <1>4 DEF CreatePayout, Transfers, ClaimIsHeld, CommissionsTypeOK, RepeatNeedsLoss, TransferIsClaimed, PaidBy
  <2> QED
    BY <2>1, <2>2, <2>3, <2>4
<1>5. CASE UpdatePayoutStatus(b)
  <2>1. CommissionsTypeOK'
    BY <1>5 DEF UpdatePayoutStatus, CommissionsTypeOK, CommissionStatus
  <2>2. ClaimIsHeld'
    BY <1>5 DEF UpdatePayoutStatus, CommissionsTypeOK, ClaimIsHeld
  <2>3. RepeatNeedsLoss'
    BY <1>5 DEF UpdatePayoutStatus, CommissionsTypeOK, RepeatNeedsLoss
  <2>4. TransferIsClaimed'
    BY <1>5 DEF UpdatePayoutStatus, CommissionsTypeOK, RepeatNeedsLoss, TransferIsClaimed, PaidBy
  <2> QED
    BY <2>1, <2>2, <2>3, <2>4
<1>6. CASE PayoutStops(b)
  <2>1. CommissionsTypeOK'
    BY <1>6 DEF PayoutStops, CommissionsTypeOK, CommissionStatus
  <2>2. ClaimIsHeld'
    BY <1>6 DEF PayoutStops, CommissionsTypeOK, ClaimIsHeld
  <2>3. RepeatNeedsLoss'
    BY <1>6 DEF PayoutStops, CommissionsTypeOK, RepeatNeedsLoss
  <2>4. TransferIsClaimed'
    BY <1>6 DEF PayoutStops, CommissionsTypeOK, RepeatNeedsLoss, TransferIsClaimed, PaidBy
  <2> QED
    BY <2>1, <2>2, <2>3, <2>4
<1>7. CASE AttemptFails(b)
  <2> USE <1>7 DEF AttemptFails, Transfers
  <2>1. CommissionsTypeOK'
    <3>1. attempt' \in [Batches -> 1..PayoutAttempts]
      BY CommissionsAssumption DEF CommissionsTypeOK
    <3>2. transfers' \in [Batches -> Nat]
      BY DEF CommissionsTypeOK
    <3>3. replyLost' \in [Batches -> BOOLEAN]
      BY DEF CommissionsTypeOK
    <3>4. batch' \in [Batches -> {"new", "find", "claim", "send", "processed", "failed", "over"}]
      BY DEF CommissionsTypeOK
    <3> QED
      BY <3>1, <3>2, <3>3, <3>4 DEF CommissionsTypeOK, CommissionStatus
  <2>2. ClaimIsHeld'
    BY DEF CommissionsTypeOK, ClaimIsHeld
  <2>3. RepeatNeedsLoss'
    <3> SUFFICES ASSUME NEW d \in Batches
                 PROVE  /\ batch'[d] \in {"new", "find", "claim"} => transfers'[d] = 0
                        /\ batch'[d] = "send" /\ transfers'[d] > 0 => replyLost'[d]
                        /\ transfers'[d] > 1 => replyLost'[d]
      BY DEF RepeatNeedsLoss
    <3>1. CASE d # b
      BY <3>1 DEF CommissionsTypeOK, RepeatNeedsLoss
    <3>2. CASE d = b
      <4>1. batch'[b] \in {"send", "failed"}
        BY DEF CommissionsTypeOK
      <4>2. transfers'[b] > 0 => replyLost'[b]
        BY DEF CommissionsTypeOK, RepeatNeedsLoss
      <4>3. transfers'[b] \in Nat
        BY <2>1 DEF CommissionsTypeOK
      <4> QED
        BY <3>2, <4>1, <4>2, <4>3
    <3> QED
      BY <3>1, <3>2
  <2>4. TransferIsClaimed'
    <3> SUFFICES ASSUME NEW d \in Batches, NEW c \in PaidBy(d)'
                 PROVE  commission'[c] = "PAID" /\ linked'[c] = {d}
      BY DEF TransferIsClaimed
    <3>1. CASE d # b
      BY <3>1 DEF CommissionsTypeOK, TransferIsClaimed, PaidBy
    <3>2. CASE d = b
      BY <3>2 DEF CommissionsTypeOK, ClaimIsHeld, PaidBy
    <3> QED
      BY <3>1, <3>2
  <2> QED
    BY <2>1, <2>2, <2>3, <2>4
<1> QED
  BY <1>1, <1>2, <1>3, <1>4, <1>5, <1>6, <1>7

LEMMA CommissionsStep == CommissionsInv /\ [CommissionsNext]_commissionVars => CommissionsInv'
<1> SUFFICES ASSUME CommissionsInv, [CommissionsNext]_commissionVars PROVE CommissionsInv'
  OBVIOUS
<1>1. CASE ActivateAgent \/ SuspendAgent \/ ReactivateAgent \/ TerminateAgent
  BY <1>1, AgentStep
<1>2. ASSUME NEW c \in Earnings, WindowCloses(c) PROVE CommissionsInv'
  BY <1>2 DEF WindowCloses, CommissionsInv, CommissionsTypeOK, ClaimIsHeld,
     RepeatNeedsLoss, TransferIsClaimed, PaidBy, payoutVars, bankVars, listenVars
<1>3. ASSUME NEW c \in Earnings, NEW acc \in Accounts, EarnCommission(c, acc) PROVE CommissionsInv'
  BY <1>3, EarningStep
<1>4. ASSUME NEW l \in Listeners, NEW acc \in Accounts, LoanTurnsNpa(l, acc) PROVE CommissionsInv'
  BY <1>4, ListenerStep
<1>5. ASSUME NEW l \in Listeners, FindClawable(l) \/ ClawBack(l) \/ ListenerIsLost(l) PROVE CommissionsInv'
  BY <1>5, ListeningStep
<1>6. ASSUME NEW b \in Batches,
             \/ ProcessPayout(b) \/ FindEarnedCommissions(b) \/ CreatePayoutBatch(b)
             \/ CreatePayout(b) \/ AttemptFails(b) \/ UpdatePayoutStatus(b) \/ PayoutStops(b)
      PROVE  CommissionsInv'
  BY <1>6, PayoutStep
<1>7. CASE UNCHANGED commissionVars
  BY <1>7 DEF commissionVars, agentRows, payoutVars, listenVars, CommissionsInv, CommissionsTypeOK,
     ClaimIsHeld, RepeatNeedsLoss, TransferIsClaimed, PaidBy, bankVars
<1> QED
  BY <1>1, <1>2, <1>3, <1>4, <1>5, <1>6, <1>7 DEF CommissionsNext
-----------------------------------------------------------------------------
\* The inductive invariant holds in every behaviour.
THEOREM CommissionsInvariance == CommissionsSpec => []CommissionsInv
  BY InitCommissionsInv, CommissionsStep, PTL DEF CommissionsSpec

\* Every variable keeps its type.
THEOREM CommissionsTypeCorrect == CommissionsSpec => []CommissionsTypeOK
<1>1. CommissionsInv => CommissionsTypeOK
  BY DEF CommissionsInv
<1> QED
  BY <1>1, CommissionsInvariance, PTL

\* What the bank was asked to pay is PAID and names the payout that asked.
THEOREM TransfersAreClaimed == CommissionsSpec => []TransferIsClaimed
<1>1. CommissionsInv => TransferIsClaimed
  BY DEF CommissionsInv
<1> QED
  BY <1>1, CommissionsInvariance, PTL

\* No commission is paid by two payouts, and its payout is transferred again only
\* after a lost answer.
THEOREM NoCommissionTwice == CommissionsSpec => []CommissionPaidOnce
<1>1. ASSUME CommissionsInv PROVE CommissionPaidOnce
  <2>1. ASSUME NEW b \in Batches, NEW d \in Batches, b # d PROVE PaidBy(b) \cap PaidBy(d) = {}
    BY <1>1, <2>1 DEF CommissionsInv, TransferIsClaimed
  <2>2. \A b \in Batches : transfers[b] > 1 => replyLost[b]
    BY <1>1 DEF CommissionsInv, RepeatNeedsLoss
  <2> QED
    BY <2>1, <2>2 DEF CommissionPaidOnce
<1> QED
  BY <1>1, CommissionsInvariance, PTL
-----------------------------------------------------------------------------
(* The components share no variable: a step of one is a stuttering step of   *)
(* every other, so a behaviour of the whole is a behaviour of each part.     *)

LEMMA StartsEach ==
    BackOfficeInit =>
        /\ KycInit /\ AgreementInit /\ QueueInit /\ ApplicationInit
        /\ GoldInit /\ CommissionsInit /\ SessionInit
BY DEF BackOfficeInit

LEMMA StepsEach ==
    [BackOfficeNext]_backOfficeVars =>
        /\ [KycNext]_kycVars
        /\ [AgreementNext]_agreementVars
        /\ [QueueNext]_queueVars
        /\ [ApplicationNext]_applicationVars
        /\ [GoldNext]_goldVars
        /\ [CommissionsNext]_commissionVars
        /\ [SessionNext]_sessionVars
BY DEF BackOfficeNext, backOfficeVars

\* The whole implements each of its parts.
THEOREM ImplementsEach ==
    BackOfficeSpec =>
        /\ KycSpec /\ AgreementSpec /\ QueueSpec /\ ApplicationSpec
        /\ GoldSpec /\ CommissionsSpec /\ SessionSpec
BY StartsEach, StepsEach, PTL DEF BackOfficeSpec, KycSpec, AgreementSpec, QueueSpec, ApplicationSpec,
   GoldSpec, CommissionsSpec, SessionSpec

\* Whichever components run, every variable of all of them keeps its type.
THEOREM DesksTypeCorrect == BackOfficeSpec => []DesksTypeOK
BY ImplementsEach, KycTypeCorrect, AgreementTypeCorrect, QueueTypeCorrect, ApplicationTypeCorrect,
   GoldTypeCorrect, CommissionsTypeCorrect, SessionTypeCorrect, PTL DEF DesksTypeOK

\* What each component promises on its own it keeps beside the others.
THEOREM DesksAreSafe ==
    BackOfficeSpec =>
        /\ [](CompleteIsEarned /\ ListedNeverCompletes)
        /\ [](GateIsBacked /\ SignatureIsNotOrphaned)
        /\ [](KeyedRunsOnce /\ DoneIsRecorded)
        /\ [](ApprovedHasTerms /\ GoldIsAppraised)
        /\ [](SoldOncePerScheduling /\ AuctionedIsSold)
        /\ [](CommissionPaidOnce /\ TransferIsClaimed)
        /\ []SessionKept
        /\ DecidedStays
BY ImplementsEach, CompletionIsEarned, ScreeningHolds, GateNeedsSignature, SignatureIsPointedAt,
   KeyedCallsRunOnce, DoneMeansRecorded, ApprovalSetsTerms, GoldNeedsAppraisal, NoSaleTwice,
   AuctionNeedsSale, NoCommissionTwice, TransfersAreClaimed, SessionEndsForAReason,
   DecisionStands, PTL
=============================================================================
