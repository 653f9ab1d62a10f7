---------------------------- MODULE OfflineQueue ----------------------------
(***************************************************************************)
(* A call of the mobile app that must take effect once: the screen that    *)
(* runs or queues it, the offline queue in the app's storage and its flush,*)
(* and on the server the idempotency middleware and the handler behind it. *)
(*                                                                         *)
(* Three kinds of calls exist.  A gold loan's NACH registration is run or  *)
(* queued; it carries an Idempotency-Key, but its route has no middleware, *)
(* and it carries no body, without which the handler throws once it has    *)
(* asked the provider.  An agent's submit is run or queued and carries no  *)
(* key; run from its screen it is a whole application (of a consumer durable *)
(* loan; the other products are not implemented), replayed by flush it is  *)
(* the wizard's form, which the server refuses.  A consumer durable NACH   *)
(* registration is whole and carries a key its route honours.  Its screen  *)
(* never queues it, but flush replays one that the queue was left with.    *)
(***************************************************************************)
EXTENDS Naturals, SequencesExt

CONSTANTS
    GoldNach, SalesSubmit, CdlNach,  \* the calls, by kind
    CdlSubmit,                       \* the submits for a consumer durable loan
    Requests,                        \* HTTP requests and their executions on the server
    Platforms,                       \* which of "web" and "native" the app may run on
    MaxFaults,                       \* bound on what fails: the network, storage, the server
    MaxDrops,                        \* bound on how often the network goes away
    None                             \* no call

ASSUME QueueAssumption ==
    /\ Platforms \subseteq {"web", "native"} /\ CdlSubmit \subseteq SalesSubmit
    /\ MaxFaults \in Nat /\ MaxDrops \in Nat /\ None \notin GoldNach \cup SalesSubmit \cup CdlNach
    /\ GoldNach \cap SalesSubmit = {} /\ GoldNach \cap CdlNach = {} /\ SalesSubmit \cap CdlNach = {}

Ops       == GoldNach \cup SalesSubmit \cup CdlNach
Queueable == GoldNach \cup SalesSubmit
Keyed     == CdlNach
Many      == 2   \* bound on effects: twice or more

VARIABLES
    platform,
    network,     \* has the device a network?
    online,      \* onlineManager.isOnline()
    drops,       \* how often the network went away
    index,       \* the ids stored under KEY, in queue order
    entries,     \* the ids whose entry is stored
    screen,      \* where the screen of a call is, or what it told the user
    flushing,    \* isFlushingQueue and the step of flush
    items,       \* the operations flush has still to replay
    copy,        \* the index as append or removeMutation read it; "flush" for the latter
    at,          \* next step of a request
    call,        \* the call it carries
    body,        \* what the handler makes of its body: nothing, the wizard's form, or a whole input
    caller,      \* who waits for its answer: the screen, flush, or nobody
    result,      \* the answer the handler came to
    key,         \* idempotency_keys row of a call's key
    effects,     \* mandates asked of the provider, or applications filed
    recorded,    \* calls whose effect the database knows of
    faults,
    torn         \* history: an index write undid another, or storage failed

deviceVars == <<platform, network, online, drops>>
storeVars  == <<index, entries, torn>>
flushVars  == <<flushing, items>>
appVars    == <<screen, flushVars, copy>>
httpVars   == <<at, call, body, caller, result>>
serverVars == <<key, effects, recorded>>
queueVars  == <<deviceVars, storeVars, appVars, httpVars, serverVars, faults>>

DeviceTypeOK ==
    /\ platform \in Platforms /\ network \in BOOLEAN /\ online \in BOOLEAN /\ drops \in 0..MaxDrops
    /\ faults \in 0..MaxFaults /\ torn \in BOOLEAN

AppTypeOK ==
    /\ index \in Seq(Ops) /\ items \in Seq(Ops) /\ entries \subseteq Ops
    /\ copy \in [Ops \cup {"flush"} -> Seq(Ops)]
    /\ screen \in [Ops -> {"idle", "calling", "writeEntry", "readIndex", "writeIndex",
                           "queued", "done", "failed", "gone"}]
    /\ flushing \in {"no", "next", "calling", "readIndex", "writeIndex", "dropEntry"}

ServerTypeOK ==
    /\ at \in [Requests -> {"free", "sent", "check", "act", "record", "answer", "replay", "finalise"}]
    /\ call \in [Requests -> Ops \cup {None}]
    /\ body \in [Requests -> {"none", "form", "whole"}]
    /\ caller \in [Requests -> {"screen", "flush", "nobody"}]
    /\ result \in [Requests -> {"none", "ok", "error"}]
    /\ key \in [Ops -> {"none", "reserved", "ok", "error"}]
    /\ effects \in [Ops -> 0..Many] /\ recorded \subseteq Ops

QueueTypeOK == DeviceTypeOK /\ AppTypeOK /\ ServerTypeOK

\* The queue is empty, or an earlier version of the app has left an operation in it
QueueInit ==
    /\ platform \in Platforms /\ network = TRUE /\ online = TRUE /\ drops = 0
    /\ index \in {<<>>} \cup {<<o>> : o \in Keyed}
    /\ entries = {o \in Ops : Contains(index, o)} /\ torn = FALSE
    /\ screen = [o \in Ops |-> IF o \in entries THEN "queued" ELSE "idle"]
    /\ flushing = "no" /\ items = <<>>
    /\ copy = [p \in Ops \cup {"flush"} |-> <<>>]
    /\ at = [r \in Requests |-> "free"]
    /\ call = [r \in Requests |-> None]
    /\ body = [r \in Requests |-> "none"]
    /\ caller = [r \in Requests |-> "nobody"]
    /\ result = [r \in Requests |-> "none"]
    /\ key = [o \in Ops |-> "none"]
    /\ effects = [o \in Ops |-> 0] /\ recorded = {}
    /\ faults = 0

Fault == faults < MaxFaults /\ faults' = faults + 1

Show(o, what) == screen' = [screen EXCEPT ![o] = what]

\* A request is over: nobody waits for it, and its slot is free again
Release(r) ==
    /\ at' = [at EXCEPT ![r] = "free"]
    /\ call' = [call EXCEPT ![r] = None]
    /\ body' = [body EXCEPT ![r] = "none"]
    /\ caller' = [caller EXCEPT ![r] = "nobody"]
    /\ result' = [result EXCEPT ![r] = "none"]

\* A request goes on with nobody waiting
Detach(r) ==
    /\ caller' = [caller EXCEPT ![r] = "nobody"]
    /\ UNCHANGED <<at, call, body, result>>

-----------------------------------------------------------------------------
\* The device: window events drive the flag on the web; on a phone nothing
\* ever clears it

GoOffline ==
    /\ network /\ network' = FALSE
    /\ drops < MaxDrops /\ drops' = drops + 1
    /\ online' = (online /\ platform = "native")
    /\ UNCHANGED <<platform, storeVars, appVars, httpVars, serverVars, faults>>

GoOnline ==
    /\ ~ network /\ network' = TRUE /\ online' = TRUE
    /\ UNCHANGED <<platform, drops, storeVars, appVars, httpVars, serverVars, faults>>

\* The app is closed: its screens and its flush are gone, storage stays
Kill ==
    /\ Fault
    /\ screen' = [o \in Ops |->
          IF screen[o] \in {"calling", "writeEntry", "readIndex", "writeIndex"} THEN "gone" ELSE screen[o]]
    /\ flushing' = "no" /\ items' = <<>>
    /\ copy' = [p \in DOMAIN copy |-> <<>>]
    /\ caller' = [r \in Requests |-> "nobody"]
    /\ UNCHANGED <<deviceVars, storeVars, at, call, body, result, serverVars>>

-----------------------------------------------------------------------------
\* runOrQueueMoneyOp, useSubmitApplication: run now, or queue

\* Only the screen of a consumer durable loan turns the form into an application
Body(who, o) ==
    CASE o \in GoldNach -> "none"
      [] o \in SalesSubmit /\ ~ (who = "screen" /\ o \in CdlSubmit) -> "form"
      [] OTHER -> "whole"

Send(who, o) ==
    \E r \in Requests :
        /\ at[r] = "free"
        /\ at' = [at EXCEPT ![r] = "sent"]
        /\ call' = [call EXCEPT ![r] = o]
        /\ body' = [body EXCEPT ![r] = Body(who, o)]
        /\ caller' = [caller EXCEPT ![r] = who]
        /\ UNCHANGED result

\* Also the user's retry from the same screen, with the same key
Submit(o) ==
    /\ screen[o] \in {"idle", "failed"}
    /\ IF o \in Queueable /\ ~ online
       THEN Show(o, "writeEntry") /\ UNCHANGED httpVars
       ELSE Show(o, "calling") /\ Send("screen", o)
    /\ UNCHANGED <<deviceVars, storeVars, flushVars, copy, serverVars, faults>>

\* What the screen makes of a call that threw
AfterError(o) == IF o \in Queueable /\ ~ online THEN "writeEntry" ELSE "failed"

-----------------------------------------------------------------------------
\* append: the entry, then the index, each at an await of its own.  A read that
\* fails reads as an empty queue, and a write that fails goes unnoticed.

WriteEntry(o) ==
    /\ screen[o] = "writeEntry" /\ Show(o, "readIndex")
    /\ \/ entries' = entries \cup {o} /\ UNCHANGED <<torn, faults>>
       \/ Fault /\ torn' = TRUE /\ UNCHANGED entries
    /\ UNCHANGED <<deviceVars, index, flushVars, copy, httpVars, serverVars>>

ReadIndex(who) ==
    \/ copy' = [copy EXCEPT ![who] = index] /\ UNCHANGED <<torn, faults>>
    \/ Fault /\ torn' = TRUE /\ copy' = [copy EXCEPT ![who] = <<>>]

\* torn remembers that the index changed since it was read
WriteIndex(who, ids) ==
    \/ index' = ids /\ torn' = (torn \/ index # copy[who]) /\ UNCHANGED faults
    \/ Fault /\ torn' = TRUE /\ UNCHANGED index

AppendRead(o) ==
    /\ screen[o] = "readIndex" /\ Show(o, "writeIndex")
    /\ ReadIndex(o)
    /\ UNCHANGED <<deviceVars, index, entries, flushVars, httpVars, serverVars>>

AppendWrite(o) ==
    /\ screen[o] = "writeIndex" /\ Show(o, "queued")
    /\ WriteIndex(o, Append(copy[o], o))
    /\ copy' = [copy EXCEPT ![o] = <<>>]
    /\ UNCHANGED <<deviceVars, entries, flushVars, httpVars, serverVars>>

-----------------------------------------------------------------------------
\* flush: one at a time, over the queue as it was when it started

StartFlush ==
    /\ online /\ flushing = "no" /\ flushing' = "next"
    /\ items' = index
    /\ UNCHANGED <<deviceVars, storeVars, screen, copy, httpVars, serverVars, faults>>

\* An id without an entry is passed over.  It was left out when the queue was
\* read; of an id in the index, only flush itself drops the entry.
ReplayNext ==
    /\ flushing = "next"
    /\ CASE items = <<>> -> flushing' = "no" /\ UNCHANGED <<items, httpVars>>
         [] items # <<>> /\ Head(items) \notin entries -> items' = Tail(items) /\ UNCHANGED <<flushing, httpVars>>
         [] OTHER -> flushing' = "calling" /\ Send("flush", Head(items)) /\ UNCHANGED items
    /\ UNCHANGED <<deviceVars, storeVars, screen, copy, serverVars, faults>>

\* The ids other than o, each of them being in the index once
Without(ids, o) == RemoveAt(ids, CHOOSE i \in 1..Len(ids) : ids[i] = o)

RemoveRead ==
    /\ flushing = "readIndex" /\ flushing' = "writeIndex"
    /\ ReadIndex("flush")
    /\ UNCHANGED <<deviceVars, index, entries, screen, items, httpVars, serverVars>>

\* The index is written only when it holds the operation
RemoveWrite ==
    /\ flushing = "writeIndex" /\ flushing' = "dropEntry"
    /\ IF Contains(copy["flush"], Head(items))
       THEN WriteIndex("flush", Without(copy["flush"], Head(items)))
       ELSE UNCHANGED <<index, torn, faults>>
    /\ copy' = [copy EXCEPT !["flush"] = <<>>]
    /\ UNCHANGED <<deviceVars, entries, screen, items, httpVars, serverVars>>

RemoveEntry ==
    /\ flushing = "dropEntry" /\ flushing' = "next"
    /\ \/ entries' = entries \ {Head(items)} /\ UNCHANGED <<torn, faults>>
       \/ Fault /\ torn' = TRUE /\ UNCHANGED entries
    /\ items' = Tail(items)
    /\ UNCHANGED <<deviceVars, index, screen, copy, httpVars, serverVars>>

-----------------------------------------------------------------------------
\* An answer, or an error, reaches whoever waits for it

\* Mutant of Receive: a refusal counts as served, and is dequeued
ReceiveAnything(r, answer) ==
    CASE caller[r] = "screen" ->
            /\ Show(call[r], IF answer = "ok" THEN "done" ELSE AfterError(call[r]))
            /\ UNCHANGED flushVars
      [] caller[r] = "flush" ->
            /\ flushing' = "readIndex"
            /\ UNCHANGED <<screen, items>>
      [] OTHER -> UNCHANGED <<screen, flushVars>>

\* flush stops at the first operation that throws, and leaves it queued
Receive(r, answer) ==
    CASE caller[r] = "screen" ->
            /\ Show(call[r], IF answer = "ok" THEN "done" ELSE AfterError(call[r]))
            /\ UNCHANGED flushVars
      [] caller[r] = "flush" ->
            /\ IF answer = "ok"
               THEN flushing' = "readIndex" /\ UNCHANGED items
               ELSE flushing' = "no" /\ items' = <<>>
            /\ UNCHANGED screen
      [] OTHER -> UNCHANGED <<screen, flushVars>>

\* The call times out or the connection drops.  The request may have been lost,
\* may be executing, or its answer is.
GiveUp(r) ==
    /\ caller[r] # "nobody" /\ Fault
    /\ Receive(r, "error")
    /\ Detach(r) \/ (at[r] = "sent" /\ Release(r))
    /\ UNCHANGED <<deviceVars, storeVars, copy, serverVars>>

\* Without a network a call fails at once
Unreachable(r) ==
    /\ caller[r] # "nobody" /\ at[r] = "sent" /\ ~ network
    /\ Receive(r, "error") /\ Release(r)
    /\ UNCHANGED <<deviceVars, storeVars, copy, serverVars, faults>>

-----------------------------------------------------------------------------
\* The server

\* Mutant of Arrive: a key is free until its answer is stored
ArriveUnreserved(r) ==
    LET o == call[r] IN
    /\ at[r] = "sent" /\ network
    /\ IF o \in Keyed /\ key[o] \in {"ok", "error"}
       THEN at' = [at EXCEPT ![r] = "replay"] /\ result' = [result EXCEPT ![r] = key[o]] /\ UNCHANGED key
       ELSE /\ at' = [at EXCEPT ![r] = "check"] /\ UNCHANGED result
            /\ key' = IF o \in Keyed THEN [key EXCEPT ![o] = "reserved"] ELSE key
    /\ UNCHANGED <<deviceVars, storeVars, appVars, call, body, caller, effects, recorded, faults>>


\* idempotency(): insert the key; when it is there, replay its answer, or
\* answer 409 while there is none
Arrive(r) ==
    LET o == call[r] IN
    /\ at[r] = "sent" /\ network
    /\ IF o \in Keyed /\ key[o] # "none"
       THEN /\ at' = [at EXCEPT ![r] = "replay"]
            /\ result' = [result EXCEPT ![r] = IF key[o] = "reserved" THEN "error" ELSE key[o]]
            /\ UNCHANGED key
       ELSE /\ at' = [at EXCEPT ![r] = "check"] /\ UNCHANGED result
            /\ key' = IF o \in Keyed THEN [key EXCEPT ![o] = "reserved"] ELSE key
    /\ UNCHANGED <<deviceVars, storeVars, appVars, call, body, caller, effects, recorded, faults>>

\* The handler answers or throws; the error handler answers, too
Conclude(r, answer) ==
    /\ result' = [result EXCEPT ![r] = answer]
    /\ at' = [at EXCEPT ![r] = "answer"]

\* A submit that is not a whole application fails validation, each time.  Then
\* createMandateForApplication, submitApplication: not twice, as far as the
\* database knows.
CheckDuplicate(r) ==
    /\ at[r] = "check"
    /\ IF body[r] = "form" \/ call[r] \in recorded
       THEN Conclude(r, "error")
       ELSE at' = [at EXCEPT ![r] = "act"] /\ UNCHANGED result
    /\ UNCHANGED <<deviceVars, storeVars, appVars, call, body, caller, serverVars, faults>>

\* The mandate is asked of the provider, which may refuse; an application is filed
\* by its row
Act(r) ==
    /\ at[r] = "act"
    /\ \/ Fault /\ Conclude(r, "error") /\ UNCHANGED <<effects, recorded>>
       \/ /\ effects' = [effects EXCEPT ![call[r]] = IF @ = Many THEN Many ELSE @ + 1]
          /\ recorded' = IF call[r] \in SalesSubmit THEN recorded \cup {call[r]} ELSE recorded
          /\ at' = [at EXCEPT ![r] = "record"] /\ UNCHANGED <<result, faults>>
    /\ UNCHANGED <<deviceVars, storeVars, appVars, call, body, caller, key>>

\* The mandate's row, which takes the account number from the body; the terms and
\* the status of an application
Record(r) ==
    /\ at[r] = "record"
    /\ \/ body[r] = "none" /\ Conclude(r, "error") /\ UNCHANGED <<recorded, faults>>
       \/ body[r] # "none" /\ Fault /\ Conclude(r, "error") /\ UNCHANGED recorded
       \/ /\ body[r] # "none" /\ recorded' = recorded \cup {call[r]} /\ Conclude(r, "ok")
          /\ UNCHANGED faults
    /\ UNCHANGED <<deviceVars, storeVars, appVars, call, body, caller, key, effects>>

\* An answer without a network is an error.  Only a keyed call that the handler
\* answered has something left to store.
Answer(r) ==
    /\ at[r] \in {"answer", "replay"}
    /\ Receive(r, IF network THEN result[r] ELSE "error")
    /\ IF at[r] = "answer" /\ call[r] \in Keyed
       THEN /\ at' = [at EXCEPT ![r] = "finalise"]
            /\ caller' = [caller EXCEPT ![r] = "nobody"]
            /\ UNCHANGED <<call, body, result>>
       ELSE Release(r)
    /\ UNCHANGED <<deviceVars, storeVars, copy, serverVars, faults>>

\* The row gets the answer, an error included, after the answer was sent
Finalise(r) ==
    /\ at[r] = "finalise"
    /\ key' = [key EXCEPT ![call[r]] = result[r]]
    /\ Release(r)
    /\ UNCHANGED <<deviceVars, storeVars, appVars, effects, recorded, faults>>

\* The instance dies, or the row cannot be written: nobody frees the key
Crash(r) ==
    /\ at[r] \notin {"free", "sent"} /\ Fault
    /\ Receive(r, "error") /\ Release(r)
    /\ UNCHANGED <<deviceVars, storeVars, copy, serverVars>>

Appending(o) == WriteEntry(o) \/ AppendRead(o) \/ AppendWrite(o)
Flushing     == ReplayNext \/ RemoveRead \/ RemoveWrite \/ RemoveEntry
Serving(r)   == \/ Unreachable(r) \/ Arrive(r) \/ CheckDuplicate(r) \/ Act(r) \/ Record(r)
                \/ Answer(r) \/ Finalise(r)

QueueNext ==
    \/ GoOffline \/ GoOnline \/ Kill
    \/ \E o \in Ops : Submit(o) \/ Appending(o)
    \/ StartFlush \/ Flushing
    \/ \E r \in Requests : Serving(r) \/ GiveUp(r) \/ Crash(r)

QueueSpec == QueueInit /\ [][QueueNext]_queueVars

-----------------------------------------------------------------------------
\* However a keyed call is repeated, and whatever fails in between, the handler
\* asks the provider once.
KeyedRunsOnce == \A o \in Keyed : effects[o] <= 1

\* What the app takes for done is done: a screen that showed success and an
\* operation that left the queue have their record in the database.
DoneIsRecorded ==
    \A o \in Ops :
        /\ screen[o] = "done" => o \in recorded
        /\ screen[o] = "queued" /\ ~ Contains(index, o) /\ ~ torn => o \in recorded

\* flush has still to get this operation through
ToReplay(o) == Contains(index, o) /\ o \in entries

=============================================================================
