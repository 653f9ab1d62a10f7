----------------------------- MODULE GoldCustody -----------------------------
(***************************************************************************)
(* The pledged gold of ONE loan after it was appraised: where it is        *)
(* (collateral_gold.custody_status) and the auctions held over it          *)
(* (gold_auctions).  Staff of the finance and operations desks call the    *)
(* endpoints concurrently; a call may end at any await.                    *)
(***************************************************************************)
EXTENDS Naturals, FiniteSets

CONSTANTS
    Auctions,       \* rows of gold_auctions of the loan
    Clerks,         \* executions of the endpoints
    NoAuction,
    MaxSchedulings  \* bound on scheduleAuction

ASSUME GoldAssumption == MaxSchedulings \in Nat /\ NoAuction \notin Auctions

VARIABLES
    auction,     \* status of an auction, "none" before it is initiated
    custody,     \* collateral_gold.custody_status
    clerk,       \* next step of an execution
    over,        \* the auction it is about
    schedulings, \* history: how often an auction was scheduled
    sales,       \* history: how often an auction recorded a sale
    marked       \* history: staff marked the gold auctioned by hand

goldRows    == <<auction, custody>>
clerkVars   == <<clerk, over>>
goldHistory == <<schedulings, sales, marked>>
goldVars    == <<goldRows, clerkVars, goldHistory>>

AuctionStatus == {"NOTICE_SENT", "SCHEDULED", "COMPLETED", "CANCELLED"}

GoldTypeOK ==
    /\ auction \in [Auctions -> AuctionStatus \cup {"none"}]
    /\ custody \in {"IN_CUSTODY", "RELEASED", "AUCTIONED"}
    /\ clerk \in [Clerks -> {"idle", "sell", "moveToAuctioned", "release", "mark"}]
    /\ over \in [Clerks -> Auctions \cup {NoAuction}]
    /\ schedulings \in [Auctions -> 0..MaxSchedulings]
    /\ sales \in [Auctions -> Nat] /\ marked \in BOOLEAN

\* The appraised gold has the column's default
GoldInit ==
    /\ auction = [a \in Auctions |-> "none"]
    /\ custody = "IN_CUSTODY"
    /\ clerk = [d \in Clerks |-> "idle"]
    /\ over = [d \in Clerks |-> NoAuction]
    /\ schedulings = [a \in Auctions |-> 0]
    /\ sales = [a \in Auctions |-> 0]
    /\ marked = FALSE

TurnTo(d, step, a) == clerk' = [clerk EXCEPT ![d] = step] /\ over' = [over EXCEPT ![d] = a]
LeaveDesk(d) == TurnTo(d, "idle", NoAuction)

-----------------------------------------------------------------------------
\* goldAuction.service

\* Nobody looks for another auction of the loan
InitiateAuction(a) ==
    /\ auction[a] = "none"
    /\ auction' = [auction EXCEPT ![a] = "NOTICE_SENT"]
    /\ UNCHANGED <<custody, clerkVars, goldHistory>>

\* Whatever the status of the auction is
ScheduleAuction(a) ==
    /\ auction[a] # "none" /\ schedulings[a] < MaxSchedulings
    /\ auction' = [auction EXCEPT ![a] = "SCHEDULED"]
    /\ schedulings' = [schedulings EXCEPT ![a] = @ + 1]
    /\ UNCHANGED <<custody, clerkVars, sales, marked>>

CancelAuction(a) ==
    /\ auction[a] # "none"
    /\ auction' = [auction EXCEPT ![a] = "CANCELLED"]
    /\ UNCHANGED <<custody, clerkVars, goldHistory>>

\* completeAuction: read, one conditional UPDATE, and the custody status
CompleteAuction(d, a) ==
    /\ clerk[d] = "idle" /\ auction[a] # "none"
    /\ TurnTo(d, "sell", a)
    /\ UNCHANGED <<goldRows, goldHistory>>

\* Mutant of RecordSale: the sale is recorded for the status that was read
RecordSaleBlindly(d) ==
    LET a == over[d] IN
    /\ clerk[d] = "sell"
    /\ auction' = [auction EXCEPT ![a] = "COMPLETED"]
    /\ sales' = [sales EXCEPT ![a] = @ + 1]
    /\ TurnTo(d, "moveToAuctioned", a)
    /\ UNCHANGED <<custody, schedulings, marked>>

\* Mutant of RecordSale: the number of updated rows is not looked at
RecordSaleUnchecked(d) ==
    LET a == over[d] IN
    /\ clerk[d] = "sell"
    /\ IF auction[a] = "SCHEDULED"
       THEN auction' = [auction EXCEPT ![a] = "COMPLETED"] /\ sales' = [sales EXCEPT ![a] = @ + 1]
       ELSE UNCHANGED <<auction, sales>>
    /\ TurnTo(d, "moveToAuctioned", a)
    /\ UNCHANGED <<custody, schedulings, marked>>

RecordSale(d) ==
    LET a == over[d] IN
    /\ clerk[d] = "sell"
    /\ IF auction[a] = "SCHEDULED"
       THEN /\ auction' = [auction EXCEPT ![a] = "COMPLETED"]
            /\ sales' = [sales EXCEPT ![a] = @ + 1]
            /\ TurnTo(d, "moveToAuctioned", a)
       ELSE LeaveDesk(d) /\ UNCHANGED <<auction, sales>>
    /\ UNCHANGED <<custody, schedulings, marked>>

\* Whatever the custody status is
MoveToAuctioned(d) ==
    /\ clerk[d] = "moveToAuctioned"
    /\ custody' = "AUCTIONED"
    /\ LeaveDesk(d)
    /\ UNCHANGED <<auction, goldHistory>>

-----------------------------------------------------------------------------
\* goldCustody.service

SetVaultLocation ==
    /\ custody' = "IN_CUSTODY"
    /\ UNCHANGED <<auction, clerkVars, goldHistory>>

\* releaseGold and markAuctioned: read and check, then write by id
ReleaseGold(d) ==
    /\ clerk[d] = "idle" /\ custody = "IN_CUSTODY"
    /\ TurnTo(d, "release", NoAuction)
    /\ UNCHANGED <<goldRows, goldHistory>>

MoveToReleased(d) ==
    /\ clerk[d] = "release"
    /\ custody' = "RELEASED"
    /\ LeaveDesk(d)
    /\ UNCHANGED <<auction, goldHistory>>

MarkAuctioned(d) ==
    /\ clerk[d] = "idle" /\ custody = "IN_CUSTODY"
    /\ TurnTo(d, "mark", NoAuction)
    /\ UNCHANGED <<goldRows, goldHistory>>

MoveToMarked(d) ==
    /\ clerk[d] = "mark"
    /\ custody' = "AUCTIONED" /\ marked' = TRUE
    /\ LeaveDesk(d)
    /\ UNCHANGED <<auction, schedulings, sales>>

\* A query failed, or the instance died
ClerkStops(d) ==
    /\ clerk[d] # "idle"
    /\ LeaveDesk(d)
    /\ UNCHANGED <<goldRows, goldHistory>>

GoldNext ==
    \/ \E a \in Auctions : InitiateAuction(a) \/ ScheduleAuction(a) \/ CancelAuction(a)
    \/ SetVaultLocation
    \/ \E d \in Clerks :
        \/ \E a \in Auctions : CompleteAuction(d, a)
        \/ RecordSale(d) \/ MoveToAuctioned(d)
        \/ ReleaseGold(d) \/ MoveToReleased(d) \/ MarkAuctioned(d) \/ MoveToMarked(d)
        \/ ClerkStops(d)

GoldSpec == GoldInit /\ [][GoldNext]_goldVars

-----------------------------------------------------------------------------
\* An auction records at most one sale for every time it was scheduled: of two
\* clerks that complete it side by side, one is refused (completeAuction).
SoldOncePerScheduling == \A a \in Auctions : sales[a] <= schedulings[a]

\* Gold that counts as auctioned has a sale on record, or staff marked it so by
\* hand: no refused completion moves it.
AuctionedIsSold ==
    custody = "AUCTIONED" => marked \/ \E a \in Auctions : sales[a] > 0
=============================================================================
