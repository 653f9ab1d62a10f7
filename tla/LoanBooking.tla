----------------------------- MODULE LoanBooking -----------------------------
(***************************************************************************)
(* What the disbursement of a loan promises to the ledger, whatever calls, *)
(* webhooks and crashes bring it about.  Each row is one attempt to pay    *)
(* the loan out.                                                           *)
(*   - A row is only completed and posted after the gateway has given it a *)
(*     payout, and completion, posting and account change in ONE step.     *)
(*   - A row never returns to PENDING, an account never disappears and     *)
(*     never goes back from ACTIVE to DISBURSED.                           *)
(* The merchant route of CDL is the exception: it opens the account with   *)
(* the row, and settles a synchronous payout without posting it.           *)
(***************************************************************************)
EXTENDS Naturals

CONSTANT Rows

VARIABLES
    status,   \* of each row
    posted,   \* ledger entries of each row
    account   \* of the loan

vars == <<status, posted, account>>

Init ==
    /\ status = [r \in Rows |-> "NONE"]
    /\ posted = [r \in Rows |-> 0]
    /\ account = "NONE"

SetStatus(r, s) == status' = [status EXCEPT ![r] = s]

HasPayout(r) == status[r] \notin {"NONE", "PENDING"}

Open(r) ==
    /\ status[r] = "NONE"
    /\ SetStatus(r, "PENDING")
    /\ account' = account \/ (account = "NONE" /\ account' = "DISBURSED")
    /\ UNCHANGED posted

Send(r) ==
    /\ status[r] = "PENDING"
    /\ SetStatus(r, "INITIATED")
    /\ UNCHANGED <<posted, account>>

SettleAtOnce(r) ==
    /\ status[r] = "PENDING"
    /\ SetStatus(r, "COMPLETED")
    /\ account # "NONE" /\ account' = "ACTIVE"
    /\ UNCHANGED posted

Book(r) ==
    /\ HasPayout(r)
    /\ SetStatus(r, "COMPLETED")
    /\ posted' = [posted EXCEPT ![r] = @ + 1]
    /\ \/ account = "NONE" /\ account' \in {"DISBURSED", "ACTIVE"}
       \/ account # "NONE" /\ account' = "ACTIVE"

Close(r) ==
    /\ \/ status[r] = "PENDING" /\ SetStatus(r, "FAILED")
       \/ HasPayout(r) /\ \E s \in {"FAILED", "REVERSED"} : SetStatus(r, s)
    /\ UNCHANGED <<posted, account>>

Activate ==
    /\ account = "DISBURSED"
    /\ account' = "ACTIVE"
    /\ UNCHANGED <<status, posted>>

Next ==
    \/ \E r \in Rows : Open(r) \/ Send(r) \/ SettleAtOnce(r) \/ Book(r) \/ Close(r)
    \/ Activate

Spec == Init /\ [][Next]_vars
=============================================================================
