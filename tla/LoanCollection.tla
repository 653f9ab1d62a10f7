---------------------------- MODULE LoanCollection ----------------------------
(***************************************************************************)
(* What collecting the installments (EMIs) of a loan promises between the  *)
(* bank and the books, whatever jobs, webhooks, listeners and clerks bring *)
(* it about, and whatever dies on the way.  A debit is one attempt to      *)
(* collect one EMI from the bank.                                          *)
(*   - The bank is asked for a debit once, after its row exists.           *)
(*   - A row succeeds with a charge the bank has made, its own or one that *)
(*     it names, and no two rows name the same charge.                     *)
(*   - An EMI is paid and posted only when money of its own came in.  It   *)
(*     may lose the status of a paid one again; what is posted stays.      *)
(***************************************************************************)
EXTENDS Naturals

CONSTANTS Emis, Attempts, None

VARIABLES
    bank,      \* what the bank did with a debit
    status,    \* of the row of a debit
    charge,    \* the charge that the row of a debit names
    received,  \* EMIs with cash or a payment through a link
    paid,      \* EMIs with the status of a paid one
    posted     \* ledger entries of each EMI

vars == <<bank, status, charge, received, paid, posted>>
rows == <<status, charge>>
books == <<received, paid, posted>>

Debits == Emis \X Attempts

Init ==
    /\ bank = [d \in Debits |-> "none"]
    /\ status = [d \in Debits |-> "NONE"]
    /\ charge = [d \in Debits |-> None]
    /\ received = {} /\ paid = {}
    /\ posted = [e \in Emis |-> 0]

Record(d) ==
    /\ status[d] = "NONE"
    /\ status' = [status EXCEPT ![d] = "PENDING"]
    /\ UNCHANGED <<bank, charge, books>>

Ask(d) ==
    /\ status[d] # "NONE" /\ bank[d] = "none"
    /\ bank' = [bank EXCEPT ![d] = "asked"]
    /\ UNCHANGED <<rows, books>>

Answer(d, answer) ==
    /\ bank[d] = "asked"
    /\ bank' = [bank EXCEPT ![d] = answer]
    /\ UNCHANGED <<rows, books>>

Succeed(d) == status[d] # "NONE" /\ status' = [status EXCEPT ![d] = "SUCCESS"]

\* The reply to a debit call says that the bank made it
Capture(d) ==
    /\ bank[d] = "charged"
    /\ Succeed(d)
    /\ UNCHANGED <<bank, charge, books>>

\* The bank's message about a charge is taken for the debit's
Confirm(d, c) ==
    /\ bank[c] = "charged" /\ \A other \in Debits \ {d} : charge[other] # c
    /\ Succeed(d)
    /\ charge' = [charge EXCEPT ![d] = c]
    /\ UNCHANGED <<bank, books>>

Fail(d) ==
    /\ status[d] # "NONE" /\ status' = [status EXCEPT ![d] = "FAILED"]
    /\ UNCHANGED <<bank, charge, books>>

Backed(e) ==
    e \in received \/ \E d \in Debits : d[1] = e /\ charge[d] # None /\ bank[charge[d]] = "charged"

Receive(e) == received' = received \cup {e} /\ UNCHANGED <<bank, rows, paid, posted>>

Pay(e) == Backed(e) /\ paid' = paid \cup {e} /\ UNCHANGED <<bank, rows, received, posted>>

\* A bounce, a part payment or the nightly job that comes late
Unpay(e) == paid' = paid \ {e} /\ UNCHANGED <<bank, rows, received, posted>>

Post(e) ==
    /\ Backed(e)
    /\ posted' = [posted EXCEPT ![e] = @ + 1]
    /\ UNCHANGED <<bank, rows, received, paid>>

Next ==
    \/ \E d \in Debits : Record(d) \/ Ask(d) \/ Capture(d) \/ Fail(d)
    \/ \E d \in Debits, answer \in {"charged", "refused"} : Answer(d, answer)
    \/ \E d, c \in Debits : Confirm(d, c)
    \/ \E e \in Emis : Receive(e) \/ Pay(e) \/ Unpay(e) \/ Post(e)

Spec == Init /\ [][Next]_vars
=============================================================================
