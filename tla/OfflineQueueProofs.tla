-------------------------- MODULE OfflineQueueProofs --------------------------
(***************************************************************************)
(* Safety of OfflineQueue for every set of calls and requests: whatever is *)
(* lost, repeated, killed or left half-written.                            *)
(***************************************************************************)
EXTENDS OfflineQueue, TLAPS

\* A slot in use has a call, and an answer once the handler came to one
RequestsCarryCalls ==
    \A r \in Requests :
        /\ at[r] = "free" => result[r] = "none" /\ caller[r] = "nobody"
        /\ at[r] # "free" => call[r] \in Ops
        /\ at[r] \in {"answer", "replay", "finalise"} => result[r] # "none"

\* A success is the answer of a handler that wrote its record
SuccessIsRecorded ==
    /\ \A r \in Requests : result[r] = "ok" => call[r] \in recorded
    /\ \A o \in Ops : key[o] = "ok" => o \in recorded

\* Who waits for a request is in the step that made it, and waits for one only
WaitsForOne ==
    /\ \A r \in Requests :
        /\ caller[r] = "screen" => screen[call[r]] = "calling"
        /\ caller[r] = "flush" => flushing = "calling" /\ call[r] = Head(items)
    /\ \A r, q \in Requests :
        caller[r] # "nobody" /\ caller[r] = caller[q] /\ call[r] = call[q] => r = q

\* flush takes an operation off the queue once it is recorded
FlushIsServed ==
    /\ flushing \notin {"no", "next"} => items # <<>>
    /\ flushing \in {"readIndex", "writeIndex"} => Head(items) \in recorded

NoDuplicates(ids) == \A i, j \in 1..Len(ids) : ids[i] = ids[j] => i = j

\* An operation is in the index, and in what was read of it, once, and only
\* when its screen has queued it
OnlyQueued(ids) == NoDuplicates(ids) /\ \A o \in Ops : Contains(ids, o) => screen[o] = "queued"
QueuedOnce      == OnlyQueued(index) /\ \A p \in Ops \cup {"flush"} : OnlyQueued(copy[p])

\* One request at a time is between the key's row and the provider
HasKey(r, o) == call[r] = o /\ at[r] \in {"check", "act", "record", "answer", "finalise"}
MayAct(r, o) == call[r] = o /\ at[r] \in {"check", "act"}
KeyIsHeld ==
    \A o \in Keyed :
        /\ effects[o] <= 1
        /\ key[o] = "none" => effects[o] = 0 /\ \A r \in Requests : ~ HasKey(r, o)
        /\ \A r \in Requests : MayAct(r, o) => effects[o] = 0
        /\ \A r, q \in Requests : MayAct(r, o) /\ MayAct(q, o) => r = q

QueueInv ==
    /\ QueueTypeOK
    /\ RequestsCarryCalls /\ SuccessIsRecorded /\ KeyIsHeld
    /\ WaitsForOne /\ FlushIsServed
    /\ QueuedOnce /\ DoneIsRecorded
-----------------------------------------------------------------------------
LEMMA InitQueueInv == QueueInit => QueueInv
<1> SUFFICES ASSUME QueueInit PROVE QueueInv
  OBVIOUS
<1>1. /\ index \in Seq(Ops) /\ entries \subseteq Ops /\ NoDuplicates(index)
      /\ \A o \in Ops : Contains(index, o) => o \in entries
  <2>1. index = <<>> \/ \E o \in Ops : index = <<o>>
    BY DEF QueueInit, Keyed, Ops
  <2>2. index \in Seq(Ops) /\ Len(index) \in {0, 1}
    <3>1. CASE index = <<>>
      BY <3>1
    <3>2. ASSUME NEW o \in Ops, index = <<o>> PROVE index \in Seq(Ops) /\ Len(index) \in {0, 1}
      <4>1. <<o>> \in Seq(Ops) /\ Len(<<o>>) = 1
        OBVIOUS
      <4> QED
        BY <3>2, <4>1
    <3> QED
      BY <2>1, <3>1, <3>2
  <2>3. NoDuplicates(index)
    BY <2>2 DEF NoDuplicates
  <2>4. entries = {o \in Ops : Contains(index, o)}
    BY DEF QueueInit
  <2> QED
    BY <2>2, <2>3, <2>4
<1>2. DeviceTypeOK
  <2>1. drops \in 0..MaxDrops /\ faults \in 0..MaxFaults
    BY QueueAssumption DEF QueueInit
  <2>2. network \in BOOLEAN /\ online \in BOOLEAN /\ torn \in BOOLEAN
    BY DEF QueueInit
  <2> QED
    BY <2>1, <2>2 DEF QueueInit, DeviceTypeOK
<1>3. AppTypeOK
  BY <1>1 DEF QueueInit, AppTypeOK
<1>4. ServerTypeOK
  BY DEF QueueInit, ServerTypeOK, Many
<1>5. RequestsCarryCalls /\ SuccessIsRecorded /\ KeyIsHeld /\ WaitsForOne /\ FlushIsServed
  BY DEF QueueInit, RequestsCarryCalls, SuccessIsRecorded, KeyIsHeld, HasKey, MayAct, WaitsForOne,
     FlushIsServed, Ops, Keyed
<1>6. QueuedOnce
  BY <1>1 DEF QueueInit, QueuedOnce, OnlyQueued, NoDuplicates, Contains
<1>7. DoneIsRecorded
  BY <1>1 DEF QueueInit, DoneIsRecorded, Contains
<1> QED
  BY <1>2, <1>3, <1>4, <1>5, <1>6, <1>7 DEF QueueInv, QueueTypeOK
-----------------------------------------------------------------------------
\* The ids of a queue

LEMMA AppendContains ==
    ASSUME NEW ids \in Seq(Ops), NEW o \in Ops, NEW p \in Ops
    PROVE  /\ Append(ids, o) \in Seq(Ops)
           /\ Contains(Append(ids, o), p) <=> Contains(ids, p) \/ p = o
BY DEF Contains

LEMMA AppendIsNew ==
    ASSUME NEW ids \in Seq(Ops), NEW o \in Ops, NoDuplicates(ids), ~ Contains(ids, o)
    PROVE  NoDuplicates(Append(ids, o))
BY DEF Contains, NoDuplicates

\* Without takes off o and nothing else
LEMMA WithoutContains ==
    ASSUME NEW ids \in Seq(Ops), NEW o \in Ops, Contains(ids, o), NoDuplicates(ids)
    PROVE  /\ Without(ids, o) \in Seq(Ops)
           /\ NoDuplicates(Without(ids, o))
           /\ \A p \in Ops : Contains(Without(ids, o), p) <=> Contains(ids, p) /\ p # o
<1> DEFINE k   == CHOOSE i \in 1..Len(ids) : ids[i] = o
           cut == Without(ids, o)
<1>1. k \in 1..Len(ids) /\ ids[k] = o
  BY DEF Contains
<1>2. cut = SubSeq(ids, 1, k - 1) \o SubSeq(ids, k + 1, Len(ids))
  BY DEF Without, RemoveAt
<1> HIDE DEF k, cut
<1>3. /\ SubSeq(ids, 1, k - 1) \in Seq(Ops) /\ Len(SubSeq(ids, 1, k - 1)) = k - 1
      /\ \A i \in 1..(k - 1) : SubSeq(ids, 1, k - 1)[i] = ids[i]
  BY <1>1
<1>4. /\ SubSeq(ids, k + 1, Len(ids)) \in Seq(Ops) /\ Len(SubSeq(ids, k + 1, Len(ids))) = Len(ids) - k
      /\ \A i \in 1..(Len(ids) - k) : SubSeq(ids, k + 1, Len(ids))[i] = ids[k + i]
  BY <1>1
<1>5. /\ cut \in Seq(Ops) /\ Len(cut) = Len(ids) - 1
      /\ \A i \in 1..(Len(ids) - 1) : cut[i] = IF i < k THEN ids[i] ELSE ids[i + 1]
  <2> DEFINE front == SubSeq(ids, 1, k - 1)
             back  == SubSeq(ids, k + 1, Len(ids))
  <2>1. front \in Seq(Ops) /\ Len(front) = k - 1 /\ \A i \in 1..(k - 1) : front[i] = ids[i]
    BY <1>3
  <2>2. back \in Seq(Ops) /\ Len(back) = Len(ids) - k /\ \A i \in 1..(Len(ids) - k) : back[i] = ids[k + i]
    BY <1>4
  <2>3. cut = front \o back
    BY <1>2
  <2> HIDE DEF front, back
  <2>4. cut \in Seq(Ops) /\ Len(cut) = Len(ids) - 1
    BY <1>1, <2>1, <2>2, <2>3
  <2>5. ASSUME NEW i \in 1..(Len(ids) - 1) PROVE cut[i] = IF i < k THEN ids[i] ELSE ids[i + 1]
    <3>1. CASE i < k
      BY <1>1, <2>1, <2>2, <2>3, <3>1
    <3>2. CASE ~ (i < k)
      <4>1. i - (k - 1) \in 1..(Len(ids) - k) /\ cut[i] = back[i - (k - 1)]
        BY <1>1, <2>1, <2>2, <2>3, <3>2
      <4>2. k + (i - (k - 1)) = i + 1
        BY <1>1
      <4> QED
        BY <2>2, <3>2, <4>1, <4>2
    <3> QED
      BY <3>1, <3>2
  <2> QED
    BY <2>4, <2>5
<1>6. NoDuplicates(cut)
  BY <1>1, <1>5 DEF NoDuplicates
<1>7. ASSUME NEW p \in Ops PROVE Contains(cut, p) <=> Contains(ids, p) /\ p # o
  <2>1. ASSUME Contains(cut, p) PROVE Contains(ids, p) /\ p # o
    <3>1. PICK i \in 1..(Len(ids) - 1) : cut[i] = p
      BY <1>5, <2>1 DEF Contains
    <3>2. CASE i < k
      <4>1. i \in 1..Len(ids) /\ i # k /\ ids[i] = p
        BY <1>5, <3>1, <3>2
      <4> QED
        BY <1>1, <4>1 DEF Contains, NoDuplicates
    <3>3. CASE ~ (i < k)
      <4>1. i + 1 \in 1..Len(ids) /\ i + 1 # k /\ ids[i + 1] = p
        BY <1>1, <1>5, <3>1, <3>3
      <4> QED
        BY <1>1, <4>1 DEF Contains, NoDuplicates
    <3> QED
      BY <3>2, <3>3
  <2>2. ASSUME Contains(ids, p), p # o PROVE Contains(cut, p)
    <3>1. PICK i \in 1..Len(ids) : ids[i] = p
      BY <2>2 DEF Contains
    <3>2. CASE i < k
      <4>1. i \in 1..Len(cut) /\ cut[i] = p
        BY <1>1, <1>5, <3>1, <3>2
      <4> QED
        BY <4>1 DEF Contains
    <3>3. CASE ~ (i < k)
      <4>1. i - 1 \in 1..Len(cut) /\ cut[i - 1] = p
        BY <1>1, <1>5, <2>2, <3>1, <3>3
      <4> QED
        BY <4>1 DEF Contains
    <3> QED
      BY <3>2, <3>3
  <2> QED
    BY <2>1, <2>2
<1> QED
  BY <1>5, <1>6, <1>7 DEF cut
-----------------------------------------------------------------------------
\* The operations that several actions share

LEMMA Faulting == ASSUME DeviceTypeOK, Fault PROVE faults' \in 0..MaxFaults
BY QueueAssumption DEF DeviceTypeOK, Fault

LEMMA ReadingIndex ==
    ASSUME QueueInv, NEW who \in Ops \cup {"flush"}, ReadIndex(who)
    PROVE  /\ copy' \in [Ops \cup {"flush"} -> Seq(Ops)]
           /\ \A p \in Ops \cup {"flush"} : OnlyQueued(copy'[p])
           /\ torn' \in BOOLEAN /\ faults' \in 0..MaxFaults /\ (torn => torn')
<1> USE DEF QueueInv, QueueTypeOK
<1>1. \E ids \in {index, <<>>} : copy' = [copy EXCEPT ![who] = ids] /\ ids \in Seq(Ops)
  BY DEF ReadIndex, AppTypeOK
<1>2. OnlyQueued(<<>>)
  BY DEF OnlyQueued, NoDuplicates, Contains
<1>3. /\ copy' \in [Ops \cup {"flush"} -> Seq(Ops)]
      /\ \A p \in Ops \cup {"flush"} : OnlyQueued(copy'[p])
  BY <1>1, <1>2 DEF AppTypeOK, QueuedOnce
<1>4. torn' \in BOOLEAN /\ faults' \in 0..MaxFaults /\ (torn => torn')
  BY Faulting DEF ReadIndex, DeviceTypeOK
<1> QED
  BY <1>3, <1>4

\* A write that went through over what was read before is the only one that
\* leaves no trace
LEMMA WritingIndex ==
    ASSUME QueueInv, NEW who \in Ops \cup {"flush"}, NEW ids \in Seq(Ops), WriteIndex(who, ids)
    PROVE  /\ index' \in {index, ids}
           /\ torn' \in BOOLEAN /\ faults' \in 0..MaxFaults
           /\ ~ torn' => ~ torn /\ index = copy[who] /\ index' = ids
<1> USE DEF QueueInv, QueueTypeOK
<1>1. CASE index' = ids /\ torn' = (torn \/ index # copy[who]) /\ UNCHANGED faults
  BY <1>1 DEF DeviceTypeOK
<1>2. CASE Fault /\ torn' = TRUE /\ UNCHANGED index
  BY <1>2, Faulting
<1> QED
  BY <1>1, <1>2 DEF WriteIndex

LEMMA Sending ==
    ASSUME QueueInv, NEW who \in {"screen", "flush"}, NEW o \in Ops, Send(who, o), UNCHANGED serverVars
    PROVE  /\ ServerTypeOK' /\ RequestsCarryCalls' /\ SuccessIsRecorded' /\ KeyIsHeld'
           /\ \E r \in Requests : /\ caller' = [caller EXCEPT ![r] = who]
                                  /\ call' = [call EXCEPT ![r] = o]
                                  /\ caller[r] = "nobody"
<1> USE DEF QueueInv, QueueTypeOK, serverVars
<1>1. PICK r \in Requests : /\ at[r] = "free" /\ at' = [at EXCEPT ![r] = "sent"]
                            /\ call' = [call EXCEPT ![r] = o]
                            /\ caller' = [caller EXCEPT ![r] = who]
                            /\ body' = [body EXCEPT ![r] = Body(who, o)]
                            /\ UNCHANGED result
  BY DEF Send
<1>2. ServerTypeOK'
  BY <1>1 DEF ServerTypeOK, Body
<1>3. RequestsCarryCalls'
  BY <1>1 DEF ServerTypeOK, RequestsCarryCalls
<1>4. SuccessIsRecorded'
  BY <1>1 DEF ServerTypeOK, RequestsCarryCalls, SuccessIsRecorded
<1>5. KeyIsHeld'
  <2>1. ASSUME NEW q \in Requests, NEW p \in Keyed PROVE HasKey(q, p)' = HasKey(q, p) /\ MayAct(q, p)' = MayAct(q, p)
    BY <1>1, <2>1 DEF ServerTypeOK, HasKey, MayAct
  <2> QED
    BY <2>1 DEF KeyIsHeld
<1>6. caller[r] = "nobody"
  BY <1>1 DEF RequestsCarryCalls
<1> QED
  BY <1>1, <1>2, <1>3, <1>4, <1>5, <1>6

\* Whoever waits gets the answer, and waits no more
LEMMA Receiving ==
    ASSUME QueueInv, NEW r \in Requests, NEW answer \in {"ok", "error"}, Receive(r, answer),
           at[r] # "free", answer = "ok" => call[r] \in recorded,
           caller' = [caller EXCEPT ![r] = "nobody"], \A q \in Requests \ {r} : call'[q] = call[q],
           UNCHANGED <<index, copy, entries, recorded, torn>>
    PROVE  AppTypeOK' /\ WaitsForOne' /\ FlushIsServed' /\ QueuedOnce' /\ DoneIsRecorded'
<1> USE DEF QueueInv, QueueTypeOK
<1>1. call[r] \in Ops /\ caller[r] \in {"screen", "flush", "nobody"}
  BY DEF ServerTypeOK, RequestsCarryCalls
<1>2. /\ caller' \in [Requests -> {"screen", "flush", "nobody"}] /\ caller'[r] = "nobody"
      /\ \A q \in Requests \ {r} : caller'[q] = caller[q]
  BY DEF ServerTypeOK
<1>3. CASE caller[r] = "screen"
  <2>1. PICK what \in {"done", "writeEntry", "failed"} :
            /\ screen' = [screen EXCEPT ![call[r]] = what]
            /\ what = "done" => answer = "ok"
    BY <1>3 DEF Receive, Show, AfterError
  <2>2. UNCHANGED <<flushing, items>>
    BY <1>3 DEF Receive, flushVars
  <2>3. screen[call[r]] = "calling" /\ \A q \in Requests \ {r} : caller[q] = "screen" => call[q] # call[r]
    BY <1>3 DEF WaitsForOne
  <2>4. AppTypeOK'
    BY <1>1, <2>1, <2>2 DEF AppTypeOK
  <2>5. WaitsForOne'
    <3>1. ASSUME NEW q \in Requests, caller'[q] = "screen" PROVE screen'[call'[q]] = "calling"
      <4>1. q # r /\ call'[q] = call[q] /\ caller[q] = "screen" /\ call[q] # call[r]
        BY <1>2, <2>3, <3>1
      <4>2. screen[call[q]] = "calling" /\ call[q] \in Ops
        BY <4>1 DEF WaitsForOne, RequestsCarryCalls
      <4> QED
        BY <2>1, <4>1, <4>2 DEF AppTypeOK
    <3> QED
      BY <1>2, <2>2, <3>1 DEF WaitsForOne
  <2>6. FlushIsServed'
    BY <2>2 DEF FlushIsServed
  <2>7. QueuedOnce'
    BY <1>1, <2>1, <2>3 DEF QueuedOnce, OnlyQueued, AppTypeOK
  <2>8. DoneIsRecorded'
    BY <1>1, <2>1, <2>3 DEF DoneIsRecorded, AppTypeOK
  <2> QED
    BY <2>4, <2>5, <2>6, <2>7, <2>8
<1>4. CASE caller[r] = "flush"
  <2>1. /\ \/ answer = "ok" /\ flushing' = "readIndex" /\ items' = items
           \/ flushing' = "no" /\ items' = <<>>
        /\ screen' = screen
    BY <1>4 DEF Receive
  <2>2. flushing = "calling" /\ call[r] = Head(items) /\ items # <<>>
    BY <1>4 DEF WaitsForOne, FlushIsServed
  <2>3. \A q \in Requests \ {r} : caller[q] # "flush"
    BY <1>4 DEF WaitsForOne
  <2>4. AppTypeOK'
    <3>1. items' \in {items, <<>>} /\ flushing' \in {"readIndex", "no"}
      BY <2>1
    <3>2. items \in Seq(Ops) /\ <<>> \in Seq(Ops)
      BY DEF AppTypeOK
    <3> QED
      BY <2>1, <3>1, <3>2 DEF AppTypeOK
  <2>5. WaitsForOne'
    BY <1>2, <2>1, <2>3 DEF WaitsForOne
  <2>6. FlushIsServed'
    BY <2>1, <2>2 DEF FlushIsServed
  <2>7. QueuedOnce' /\ DoneIsRecorded'
    BY <2>1 DEF QueuedOnce, OnlyQueued, DoneIsRecorded
  <2> QED
    BY <2>4, <2>5, <2>6, <2>7
<1>5. CASE caller[r] = "nobody"
  <2>1. UNCHANGED <<screen, flushing, items>>
    BY <1>5 DEF Receive, flushVars
  <2>2. AppTypeOK' /\ FlushIsServed'
    BY <2>1 DEF AppTypeOK, FlushIsServed
  <2>3. WaitsForOne'
    BY <1>2, <2>1 DEF WaitsForOne
  <2>4. QueuedOnce' /\ DoneIsRecorded'
    BY <2>1 DEF QueuedOnce, OnlyQueued, DoneIsRecorded
  <2> QED
    BY <2>2, <2>3, <2>4
<1> QED
  BY <1>1, <1>3, <1>4, <1>5
-----------------------------------------------------------------------------
\* The network, and the app that is closed
LEMMA DeviceStep ==
    ASSUME QueueInv,
           GoOffline \/ GoOnline \/ Kill
    PROVE  QueueInv'
<1> USE DEF QueueInv, QueueTypeOK, deviceVars, storeVars, flushVars, appVars, httpVars, serverVars
<1>1. CASE GoOffline
  <2>1. DeviceTypeOK'
    <3>1. online' \in BOOLEAN /\ network' \in BOOLEAN
      BY <1>1 DEF GoOffline, DeviceTypeOK
    <3>2. drops' \in 0..MaxDrops
      BY <1>1, QueueAssumption DEF GoOffline, DeviceTypeOK
    <3> QED
      BY <1>1, <3>1, <3>2 DEF GoOffline, DeviceTypeOK
  <2>2. AppTypeOK' /\ ServerTypeOK' /\ RequestsCarryCalls' /\ SuccessIsRecorded' /\ KeyIsHeld' /\ WaitsForOne' /\ FlushIsServed' /\ QueuedOnce' /\ DoneIsRecorded'
    BY <1>1 DEF GoOffline, AppTypeOK, ServerTypeOK, RequestsCarryCalls, SuccessIsRecorded, KeyIsHeld, HasKey, MayAct, WaitsForOne, FlushIsServed, QueuedOnce, OnlyQueued, DoneIsRecorded
  <2> QED
    BY <2>1, <2>2
<1>2. CASE GoOnline
  <2>1. DeviceTypeOK'
    BY <1>2 DEF GoOnline, DeviceTypeOK
  <2>2. AppTypeOK' /\ ServerTypeOK' /\ RequestsCarryCalls' /\ SuccessIsRecorded' /\ KeyIsHeld' /\ WaitsForOne' /\ FlushIsServed' /\ QueuedOnce' /\ DoneIsRecorded'
    BY <1>2 DEF GoOnline, AppTypeOK, ServerTypeOK, RequestsCarryCalls, SuccessIsRecorded, KeyIsHeld, HasKey, MayAct, WaitsForOne, FlushIsServed, QueuedOnce, OnlyQueued, DoneIsRecorded
  <2> QED
    BY <2>1, <2>2
<1>3. CASE Kill
  <2>1. DeviceTypeOK'
    BY <1>3, Faulting DEF Kill, DeviceTypeOK
  <2>2. AppTypeOK'
    <3>1. <<>> \in Seq(Ops)
      OBVIOUS
    <3> QED
      BY <1>3, <3>1 DEF Kill, AppTypeOK
  <2>3. ServerTypeOK' /\ RequestsCarryCalls'
    BY <1>3 DEF Kill, ServerTypeOK, RequestsCarryCalls
  <2>4. WaitsForOne'
    BY <1>3 DEF Kill, WaitsForOne
  <2>5. QueuedOnce'
    BY <1>3 DEF Kill, AppTypeOK, NoDuplicates, Contains, QueuedOnce, OnlyQueued
  <2>6. DoneIsRecorded'
    BY <1>3 DEF Kill, AppTypeOK, DoneIsRecorded
  <2>7. SuccessIsRecorded' /\ KeyIsHeld' /\ FlushIsServed'
    BY <1>3 DEF Kill, SuccessIsRecorded, KeyIsHeld, HasKey, MayAct, FlushIsServed
  <2> QED
    BY <2>1, <2>2, <2>3, <2>4, <2>5, <2>6, <2>7
<1> QED
  BY <1>1, <1>2, <1>3

\* append
LEMMA ScreenStep ==
    ASSUME QueueInv, NEW o \in Ops,
           WriteEntry(o) \/ AppendRead(o)
    PROVE  QueueInv'
<1> USE DEF QueueInv, QueueTypeOK, deviceVars, storeVars, flushVars, appVars, httpVars, serverVars
<1>1. CASE WriteEntry(o)
  <2>1. DeviceTypeOK'
    BY <1>1, Faulting DEF WriteEntry, Show, DeviceTypeOK
  <2>2. AppTypeOK'
    BY <1>1 DEF WriteEntry, Show, AppTypeOK
  <2>3. WaitsForOne'
    BY <1>1 DEF WriteEntry, Show, AppTypeOK, RequestsCarryCalls, WaitsForOne
  <2>4. QueuedOnce'
    BY <1>1 DEF WriteEntry, Show, AppTypeOK, QueuedOnce, OnlyQueued
  <2>5. DoneIsRecorded'
    BY <1>1, Faulting DEF WriteEntry, Show, AppTypeOK, DeviceTypeOK, DoneIsRecorded
  <2>6. ServerTypeOK' /\ RequestsCarryCalls' /\ SuccessIsRecorded' /\ KeyIsHeld' /\ FlushIsServed'
    BY <1>1 DEF WriteEntry, Show, ServerTypeOK, RequestsCarryCalls, SuccessIsRecorded, KeyIsHeld, HasKey, MayAct, FlushIsServed
  <2> QED
    BY <2>1, <2>2, <2>3, <2>4, <2>5, <2>6
<1>2. CASE AppendRead(o)
  <2>1. ReadIndex(o)
    BY <1>2 DEF AppendRead
  <2>2. /\ copy' \in [Ops \cup {"flush"} -> Seq(Ops)]
        /\ \A p \in Ops \cup {"flush"} : OnlyQueued(copy'[p])
        /\ torn' \in BOOLEAN /\ faults' \in 0..MaxFaults /\ (torn => torn')
    BY <2>1, ReadingIndex
  <2>3. DeviceTypeOK'
    BY <1>2, <2>1, <2>2 DEF AppendRead, Show, DeviceTypeOK
  <2>4. AppTypeOK'
    BY <1>2, <2>1, <2>2 DEF AppendRead, Show, AppTypeOK
  <2>5. WaitsForOne'
    BY <1>2, <2>1, <2>2 DEF AppendRead, Show, AppTypeOK, RequestsCarryCalls, WaitsForOne
  <2>6. QueuedOnce'
    BY <1>2, <2>1, <2>2 DEF AppendRead, Show, AppTypeOK, QueuedOnce, OnlyQueued
  <2>7. DoneIsRecorded'
    BY <1>2, <2>1, <2>2 DEF AppendRead, Show, AppTypeOK, DoneIsRecorded
  <2>8. ServerTypeOK' /\ RequestsCarryCalls' /\ SuccessIsRecorded' /\ KeyIsHeld' /\ FlushIsServed'
    BY <1>2, <2>1, <2>2 DEF AppendRead, Show, ServerTypeOK, RequestsCarryCalls, SuccessIsRecorded, KeyIsHeld, HasKey, MayAct, FlushIsServed
  <2> QED
    BY <2>1, <2>2, <2>3, <2>4, <2>5, <2>6, <2>7, <2>8
<1> QED
  BY <1>1, <1>2


\* A call is run, or its entry is written
LEMMA SubmitStep == ASSUME QueueInv, NEW o \in Ops, Submit(o) PROVE QueueInv'
<1> USE DEF QueueInv, QueueTypeOK, deviceVars, storeVars, flushVars, httpVars, serverVars
<1>1. PICK where \in {"writeEntry", "calling"} :
        /\ screen[o] \in {"idle", "failed"} /\ screen' = [screen EXCEPT ![o] = where]
        /\ where = "writeEntry" => UNCHANGED httpVars
        /\ where = "calling" => Send("screen", o)
        /\ UNCHANGED <<deviceVars, storeVars, flushVars, copy, serverVars, faults>>
  BY DEF Submit, Show
<1>2. AppTypeOK' /\ DeviceTypeOK' /\ FlushIsServed' /\ DoneIsRecorded' /\ QueuedOnce'
  BY <1>1 DEF AppTypeOK, DeviceTypeOK, FlushIsServed, DoneIsRecorded, QueuedOnce, OnlyQueued
<1>3. \A q \in Requests : caller[q] = "screen" => call[q] # o
  BY <1>1 DEF WaitsForOne
<1>4. CASE where = "writeEntry"
  <2>1. ServerTypeOK' /\ RequestsCarryCalls' /\ SuccessIsRecorded' /\ KeyIsHeld'
    BY <1>1, <1>4 DEF ServerTypeOK, RequestsCarryCalls, SuccessIsRecorded, KeyIsHeld, HasKey, MayAct
  <2>2. WaitsForOne'
    BY <1>1, <1>3, <1>4 DEF WaitsForOne, AppTypeOK, RequestsCarryCalls
  <2> QED
    BY <1>2, <2>1, <2>2
<1>5. CASE where = "calling"
  <2>1. Send("screen", o) /\ UNCHANGED serverVars
    BY <1>1, <1>5
  <2>2. ServerTypeOK' /\ RequestsCarryCalls' /\ SuccessIsRecorded' /\ KeyIsHeld'
    BY <2>1, Sending
  <2>3. PICK r \in Requests : /\ caller' = [caller EXCEPT ![r] = "screen"]
                              /\ call' = [call EXCEPT ![r] = o] /\ caller[r] = "nobody"
    BY <2>1, Sending
  <2>4. WaitsForOne'
    BY <1>1, <1>3, <1>5, <2>3 DEF WaitsForOne, AppTypeOK, ServerTypeOK, RequestsCarryCalls
  <2> QED
    BY <1>2, <2>2, <2>4
<1> QED
  BY <1>1, <1>4, <1>5

\* The operation is published
LEMMA AppendWriteStep == ASSUME QueueInv, NEW o \in Ops, AppendWrite(o) PROVE QueueInv'
<1> DEFINE ids == Append(copy[o], o)
<1> USE DEF QueueInv, QueueTypeOK, deviceVars, flushVars, httpVars, serverVars
<1>1. /\ screen[o] = "writeIndex" /\ screen' = [screen EXCEPT ![o] = "queued"]
      /\ WriteIndex(o, ids) /\ copy' = [copy EXCEPT ![o] = <<>>]
      /\ UNCHANGED <<deviceVars, entries, flushVars, httpVars, serverVars>>
  BY DEF AppendWrite, Show
<1>2. copy[o] \in Seq(Ops) /\ NoDuplicates(copy[o]) /\ ~ Contains(copy[o], o)
  BY <1>1 DEF AppTypeOK, QueuedOnce, OnlyQueued
<1>3. ids \in Seq(Ops) /\ NoDuplicates(ids) /\ \A p \in Ops : Contains(ids, p) <=> Contains(copy[o], p) \/ p = o
  BY <1>2, AppendContains, AppendIsNew
<1> HIDE DEF ids
<1>4. /\ index' \in {index, ids} /\ torn' \in BOOLEAN /\ faults' \in 0..MaxFaults
      /\ ~ torn' => ~ torn /\ index = copy[o] /\ index' = ids
  BY <1>1, <1>3, WritingIndex
<1>5. DeviceTypeOK' /\ ServerTypeOK' /\ RequestsCarryCalls' /\ SuccessIsRecorded' /\ KeyIsHeld' /\ FlushIsServed'
  BY <1>1, <1>4 DEF DeviceTypeOK, ServerTypeOK, RequestsCarryCalls, SuccessIsRecorded, KeyIsHeld, HasKey,
     MayAct, FlushIsServed
<1>6. AppTypeOK'
  <2>1. <<>> \in Seq(Ops)
    OBVIOUS
  <2> QED
    BY <1>1, <1>3, <1>4, <2>1 DEF AppTypeOK
<1>7. WaitsForOne'
  BY <1>1 DEF WaitsForOne, AppTypeOK, RequestsCarryCalls
<1>8. QueuedOnce'
  <2>1. \A p \in Ops : screen[p] = "queued" \/ p = o => screen'[p] = "queued"
    BY <1>1 DEF AppTypeOK
  <2>2. OnlyQueued(index)'
    BY <1>3, <1>4, <2>1 DEF QueuedOnce, OnlyQueued
  <2>3. ASSUME NEW p \in Ops \cup {"flush"} PROVE OnlyQueued(copy[p])'
    <3>1. NoDuplicates(<<>>) /\ \A q \in Ops : ~ Contains(<<>>, q)
      BY DEF NoDuplicates, Contains
    <3> QED
      BY <1>1, <2>1, <3>1 DEF QueuedOnce, OnlyQueued, AppTypeOK
  <2> QED
    BY <2>2, <2>3 DEF QueuedOnce
<1>9. DoneIsRecorded'
  BY <1>1, <1>3, <1>4 DEF DoneIsRecorded, AppTypeOK
<1> QED
  BY <1>5, <1>6, <1>7, <1>8, <1>9

\* flush goes over the queue
LEMMA ReplayStep == ASSUME QueueInv, StartFlush \/ ReplayNext PROVE QueueInv'
<1> USE DEF QueueInv, QueueTypeOK, deviceVars, storeVars, httpVars, serverVars
<1>1. CASE StartFlush \/ (ReplayNext /\ flushing' # "calling")
  <2>1. /\ flushing \in {"no", "next"} /\ flushing' \in {"no", "next"} /\ items' \in Seq(Ops)
        /\ UNCHANGED <<deviceVars, storeVars, screen, copy, httpVars, serverVars, faults>>
    <3>1. index \in Seq(Ops) /\ items \in Seq(Ops) /\ (items # <<>> => Tail(items) \in Seq(Ops))
      BY DEF AppTypeOK
    <3>2. CASE StartFlush
      BY <3>1, <3>2 DEF StartFlush
    <3>3. CASE ReplayNext /\ flushing' # "calling"
      <4>1. items = <<>> \/ (items # <<>> /\ Head(items) \notin entries)
        BY <3>3 DEF ReplayNext
      <4> QED
        BY <3>1, <3>3, <4>1 DEF ReplayNext
    <3> QED
      BY <1>1, <3>2, <3>3
  <2>2. DeviceTypeOK' /\ AppTypeOK' /\ ServerTypeOK' /\ FlushIsServed'
    BY <2>1 DEF DeviceTypeOK, AppTypeOK, ServerTypeOK, FlushIsServed
  <2>3. RequestsCarryCalls' /\ SuccessIsRecorded' /\ KeyIsHeld' /\ WaitsForOne'
    BY <2>1 DEF RequestsCarryCalls, SuccessIsRecorded, KeyIsHeld, HasKey, MayAct, WaitsForOne
  <2>4. QueuedOnce' /\ DoneIsRecorded'
    BY <2>1 DEF QueuedOnce, OnlyQueued, DoneIsRecorded
  <2> QED
    BY <2>2, <2>3, <2>4
<1>2. CASE ReplayNext /\ flushing' = "calling"
  <2>1. /\ flushing = "next" /\ items # <<>> /\ Send("flush", Head(items))
        /\ UNCHANGED <<deviceVars, storeVars, items, screen, copy, serverVars, faults>>
    BY <1>2 DEF ReplayNext
  <2>2. Head(items) \in Ops
    BY <2>1 DEF AppTypeOK
  <2>3. ServerTypeOK' /\ RequestsCarryCalls' /\ SuccessIsRecorded' /\ KeyIsHeld'
    BY <2>1, <2>2, Sending
  <2>4. PICK r \in Requests : /\ caller' = [caller EXCEPT ![r] = "flush"]
                              /\ call' = [call EXCEPT ![r] = Head(items)] /\ caller[r] = "nobody"
    BY <2>1, <2>2, Sending
  <2>5. \A q \in Requests : caller[q] # "flush"
    BY <2>1 DEF WaitsForOne
  <2>6. WaitsForOne'
    BY <1>2, <2>1, <2>4, <2>5 DEF WaitsForOne, ServerTypeOK
  <2>7. DeviceTypeOK' /\ AppTypeOK' /\ FlushIsServed' /\ QueuedOnce' /\ DoneIsRecorded'
    BY <1>2, <2>1 DEF DeviceTypeOK, AppTypeOK, FlushIsServed, QueuedOnce, OnlyQueued, DoneIsRecorded
  <2> QED
    BY <2>3, <2>6, <2>7
<1> QED
  BY <1>1, <1>2

\* ... and takes what was served off it
LEMMA RemovalStep == ASSUME QueueInv, RemoveRead \/ RemoveWrite \/ RemoveEntry PROVE QueueInv'
<1> USE DEF QueueInv, QueueTypeOK, deviceVars, httpVars, serverVars
<1>1. CASE RemoveRead
  <2>1. /\ flushing = "readIndex" /\ flushing' = "writeIndex" /\ ReadIndex("flush")
        /\ UNCHANGED <<deviceVars, index, entries, screen, items, httpVars, serverVars>>
    BY <1>1 DEF RemoveRead
  <2>2. /\ copy' \in [Ops \cup {"flush"} -> Seq(Ops)]
        /\ \A p \in Ops \cup {"flush"} : OnlyQueued(copy'[p])
        /\ torn' \in BOOLEAN /\ faults' \in 0..MaxFaults /\ (torn => torn')
    BY <2>1, ReadingIndex
  <2>3. DeviceTypeOK' /\ AppTypeOK' /\ ServerTypeOK' /\ FlushIsServed' /\ DoneIsRecorded'
    BY <2>1, <2>2 DEF DeviceTypeOK, AppTypeOK, ServerTypeOK, FlushIsServed, DoneIsRecorded
  <2>4. RequestsCarryCalls' /\ SuccessIsRecorded' /\ KeyIsHeld' /\ WaitsForOne'
    BY <2>1 DEF RequestsCarryCalls, SuccessIsRecorded, KeyIsHeld, HasKey, MayAct, WaitsForOne
  <2>5. QueuedOnce'
    BY <2>1, <2>2 DEF QueuedOnce, OnlyQueued
  <2> QED
    BY <2>3, <2>4, <2>5
<1>2. CASE RemoveWrite
  <2> DEFINE served == Head(items)
             ids    == Without(copy["flush"], served)
  <2>1. /\ flushing = "writeIndex" /\ flushing' = "dropEntry" /\ copy' = [copy EXCEPT !["flush"] = <<>>]
        /\ \/ Contains(copy["flush"], served) /\ WriteIndex("flush", ids)
           \/ UNCHANGED <<index, torn, faults>>
        /\ UNCHANGED <<deviceVars, entries, screen, items, httpVars, serverVars>>
    BY <1>2 DEF RemoveWrite
  <2>2. served \in Ops /\ served \in recorded /\ copy["flush"] \in Seq(Ops) /\ OnlyQueued(copy["flush"])
    BY <2>1 DEF FlushIsServed, AppTypeOK, QueuedOnce
  <2>3. ASSUME Contains(copy["flush"], served)
        PROVE  /\ ids \in Seq(Ops) /\ NoDuplicates(ids)
               /\ \A p \in Ops : Contains(ids, p) <=> Contains(copy["flush"], p) /\ p # served
    BY <2>2, <2>3, WithoutContains DEF OnlyQueued
  <2>4. /\ index' \in Seq(Ops) /\ torn' \in BOOLEAN /\ faults' \in 0..MaxFaults
        /\ OnlyQueued(index')
        /\ ~ torn' => ~ torn /\ \A p \in Ops : Contains(index, p) /\ ~ Contains(index', p) => p = served
    <3>1. CASE Contains(copy["flush"], served) /\ WriteIndex("flush", ids)
      <4>1. /\ ids \in Seq(Ops) /\ OnlyQueued(ids)
            /\ \A p \in Ops : Contains(ids, p) <=> Contains(copy["flush"], p) /\ p # served
        BY <2>2, <2>3, <3>1 DEF OnlyQueued
      <4>2. /\ index' \in {index, ids} /\ torn' \in BOOLEAN /\ faults' \in 0..MaxFaults
            /\ ~ torn' => ~ torn /\ index = copy["flush"] /\ index' = ids
        BY <3>1, <4>1, WritingIndex
      <4> HIDE DEF ids
      <4> QED
        BY <4>1, <4>2 DEF AppTypeOK, QueuedOnce
    <3>2. CASE UNCHANGED <<index, torn, faults>>
      BY <3>2 DEF AppTypeOK, DeviceTypeOK, QueuedOnce
    <3> QED
      BY <2>1, <3>1, <3>2
  <2> HIDE DEF ids
  <2>5. DeviceTypeOK' /\ ServerTypeOK' /\ RequestsCarryCalls' /\ SuccessIsRecorded' /\ KeyIsHeld' /\ WaitsForOne'
    BY <2>1, <2>4 DEF DeviceTypeOK, ServerTypeOK, RequestsCarryCalls, SuccessIsRecorded, KeyIsHeld, HasKey,
       MayAct, WaitsForOne
  <2>6. AppTypeOK'
    <3>1. <<>> \in Seq(Ops)
      OBVIOUS
    <3> QED
      BY <2>1, <2>4, <3>1 DEF AppTypeOK
  <2>7. FlushIsServed'
    BY <2>1 DEF FlushIsServed
  <2>8. QueuedOnce'
    <3>1. OnlyQueued(<<>>)
      BY DEF OnlyQueued, NoDuplicates, Contains
    <3>2. \A p \in Ops \cup {"flush"} : OnlyQueued(copy'[p])
      BY <2>1, <3>1 DEF AppTypeOK, QueuedOnce
    <3> QED
      BY <2>1, <2>4, <3>2 DEF QueuedOnce, OnlyQueued
  <2>9. DoneIsRecorded'
    BY <2>1, <2>2, <2>4 DEF DoneIsRecorded
  <2> QED
    BY <2>5, <2>6, <2>7, <2>8, <2>9
<1>3. CASE RemoveEntry
  <2>1. /\ flushing = "dropEntry" /\ flushing' = "next" /\ items' = Tail(items) /\ items # <<>>
        /\ entries' \subseteq entries
        /\ \/ UNCHANGED <<torn, faults>>
           \/ Fault /\ torn' = TRUE
        /\ UNCHANGED <<deviceVars, index, screen, copy, httpVars, serverVars>>
    BY <1>3 DEF RemoveEntry, FlushIsServed
  <2>2. torn' \in BOOLEAN /\ faults' \in 0..MaxFaults /\ (torn => torn')
    <3>1. CASE UNCHANGED <<torn, faults>>
      BY <3>1 DEF DeviceTypeOK
    <3>2. CASE Fault /\ torn' = TRUE
      BY <3>2, Faulting
    <3> QED
      BY <2>1, <3>1, <3>2
  <2>3. items' \in Seq(Ops)
    BY <2>1 DEF AppTypeOK
  <2>4. DeviceTypeOK' /\ AppTypeOK' /\ ServerTypeOK' /\ FlushIsServed' /\ DoneIsRecorded'
    BY <2>1, <2>2, <2>3 DEF DeviceTypeOK, AppTypeOK, ServerTypeOK, FlushIsServed, DoneIsRecorded
  <2>5. RequestsCarryCalls' /\ SuccessIsRecorded' /\ KeyIsHeld'
    BY <2>1 DEF RequestsCarryCalls, SuccessIsRecorded, KeyIsHeld, HasKey, MayAct
  <2>6. WaitsForOne' /\ QueuedOnce'
    BY <2>1 DEF WaitsForOne, QueuedOnce, OnlyQueued
  <2> QED
    BY <2>4, <2>5, <2>6
<1> QED
  BY <1>1, <1>2, <1>3
-----------------------------------------------------------------------------
\* The middleware and the handler
LEMMA HandlerStep ==
    ASSUME QueueInv, NEW r \in Requests,
           Arrive(r) \/ CheckDuplicate(r) \/ Act(r) \/ Record(r) \/ Finalise(r)
    PROVE  QueueInv'
<1> USE DEF QueueInv, QueueTypeOK, deviceVars, storeVars, flushVars, appVars, httpVars, serverVars
<1>1. CASE Arrive(r)
  <2>1. ServerTypeOK'
    BY <1>1 DEF Arrive, RequestsCarryCalls, ServerTypeOK
  <2>2. KeyIsHeld'
    BY <1>1 DEF Arrive, ServerTypeOK, RequestsCarryCalls, Ops, Keyed, KeyIsHeld, HasKey, MayAct
  <2>3. SuccessIsRecorded'
    BY <1>1 DEF Arrive, ServerTypeOK, RequestsCarryCalls, Ops, Keyed, SuccessIsRecorded
  <2>4. RequestsCarryCalls'
    BY <1>1 DEF Arrive, ServerTypeOK, Ops, Keyed, RequestsCarryCalls
  <2>5. DeviceTypeOK' /\ AppTypeOK' /\ WaitsForOne' /\ FlushIsServed' /\ QueuedOnce' /\ DoneIsRecorded'
    BY <1>1 DEF Arrive, DeviceTypeOK, AppTypeOK, WaitsForOne, FlushIsServed, QueuedOnce, OnlyQueued, DoneIsRecorded
  <2> QED
    BY <2>1, <2>2, <2>3, <2>4, <2>5
<1>2. CASE CheckDuplicate(r)
  <2>1. ServerTypeOK'
    BY <1>2 DEF CheckDuplicate, Conclude, ServerTypeOK
  <2>2. KeyIsHeld'
    BY <1>2 DEF CheckDuplicate, Conclude, ServerTypeOK, KeyIsHeld, HasKey, MayAct
  <2>3. SuccessIsRecorded'
    BY <1>2 DEF CheckDuplicate, Conclude, ServerTypeOK, SuccessIsRecorded
  <2>4. RequestsCarryCalls'
    BY <1>2 DEF CheckDuplicate, Conclude, ServerTypeOK, RequestsCarryCalls
  <2>5. DeviceTypeOK' /\ AppTypeOK' /\ WaitsForOne' /\ FlushIsServed' /\ QueuedOnce' /\ DoneIsRecorded'
    BY <1>2 DEF CheckDuplicate, Conclude, DeviceTypeOK, AppTypeOK, WaitsForOne, FlushIsServed, QueuedOnce, OnlyQueued, DoneIsRecorded
  <2> QED
    BY <2>1, <2>2, <2>3, <2>4, <2>5
<1>3. CASE Act(r)
  <2>1. DeviceTypeOK'
    BY <1>3, Faulting DEF Act, Conclude, DeviceTypeOK
  <2>2. ServerTypeOK'
    BY <1>3 DEF Act, Conclude, RequestsCarryCalls, ServerTypeOK, Many
  <2>3. KeyIsHeld'
    BY <1>3 DEF Act, Conclude, ServerTypeOK, RequestsCarryCalls, Ops, Keyed, KeyIsHeld, HasKey, MayAct
  <2>4. SuccessIsRecorded'
    BY <1>3 DEF Act, Conclude, ServerTypeOK, SuccessIsRecorded
  <2>5. RequestsCarryCalls'
    BY <1>3 DEF Act, Conclude, ServerTypeOK, RequestsCarryCalls
  <2>6. AppTypeOK' /\ WaitsForOne' /\ FlushIsServed' /\ QueuedOnce' /\ DoneIsRecorded'
    BY <1>3 DEF Act, Conclude, AppTypeOK, WaitsForOne, FlushIsServed, QueuedOnce, OnlyQueued, DoneIsRecorded
  <2> QED
    BY <2>1, <2>2, <2>3, <2>4, <2>5, <2>6
<1>4. CASE Record(r)
  <2>1. DeviceTypeOK'
    BY <1>4, Faulting DEF Record, Conclude, DeviceTypeOK
  <2>2. ServerTypeOK'
    BY <1>4 DEF Record, Conclude, RequestsCarryCalls, ServerTypeOK
  <2>3. KeyIsHeld'
    BY <1>4 DEF Record, Conclude, ServerTypeOK, KeyIsHeld, HasKey, MayAct
  <2>4. SuccessIsRecorded'
    BY <1>4 DEF Record, Conclude, ServerTypeOK, SuccessIsRecorded
  <2>5. RequestsCarryCalls'
    BY <1>4 DEF Record, Conclude, ServerTypeOK, RequestsCarryCalls
  <2>6. AppTypeOK' /\ WaitsForOne' /\ FlushIsServed' /\ QueuedOnce' /\ DoneIsRecorded'
    BY <1>4 DEF Record, Conclude, AppTypeOK, WaitsForOne, FlushIsServed, QueuedOnce, OnlyQueued, DoneIsRecorded
  <2> QED
    BY <2>1, <2>2, <2>3, <2>4, <2>5, <2>6
<1>5. CASE Finalise(r)
  <2>1. ServerTypeOK'
    BY <1>5 DEF Finalise, Release, RequestsCarryCalls, ServerTypeOK
  <2>2. KeyIsHeld'
    BY <1>5 DEF Finalise, Release, ServerTypeOK, RequestsCarryCalls, Ops, Keyed, KeyIsHeld, HasKey, MayAct
  <2>3. SuccessIsRecorded'
    BY <1>5 DEF Finalise, Release, ServerTypeOK, RequestsCarryCalls, SuccessIsRecorded
  <2>4. RequestsCarryCalls'
    BY <1>5 DEF Finalise, Release, ServerTypeOK, RequestsCarryCalls
  <2>5. WaitsForOne'
    BY <1>5 DEF Finalise, Release, ServerTypeOK, RequestsCarryCalls, WaitsForOne
  <2>6. DeviceTypeOK' /\ AppTypeOK' /\ FlushIsServed' /\ QueuedOnce' /\ DoneIsRecorded'
    BY <1>5 DEF Finalise, Release, DeviceTypeOK, AppTypeOK, FlushIsServed, QueuedOnce, OnlyQueued, DoneIsRecorded
  <2> QED
    BY <2>1, <2>2, <2>3, <2>4, <2>5, <2>6
<1> QED
  BY <1>1, <1>2, <1>3, <1>4, <1>5

\* An answer, or an error, gets through; or nobody is left to hear it
LEMMA AnswerStep ==
    ASSUME QueueInv, NEW r \in Requests, Unreachable(r) \/ Answer(r) \/ GiveUp(r) \/ Crash(r)
    PROVE  QueueInv'
<1> USE DEF QueueInv, QueueTypeOK, deviceVars, storeVars, serverVars
<1>1. PICK answer \in {"ok", "error"} : Receive(r, answer) /\ (answer = "ok" => call[r] \in recorded)
  BY DEF Unreachable, Answer, GiveUp, Crash, SuccessIsRecorded, RequestsCarryCalls, ServerTypeOK
<1>2. /\ at[r] # "free" /\ caller' = [caller EXCEPT ![r] = "nobody"]
      /\ UNCHANGED <<deviceVars, storeVars, copy, serverVars>>
  BY DEF Unreachable, Answer, GiveUp, Crash, Release, Detach, RequestsCarryCalls
<1>3. /\ \/ at' = [at EXCEPT ![r] = "free"] /\ call' = [call EXCEPT ![r] = None] /\ result' = [result EXCEPT ![r] = "none"]
         \/ UNCHANGED <<at, call, result>>
         \/ at[r] = "answer" /\ at' = [at EXCEPT ![r] = "finalise"] /\ UNCHANGED <<call, result>>
      /\ body' = body \/ body' = [body EXCEPT ![r] = "none"]
  BY DEF Unreachable, Answer, GiveUp, Crash, Release, Detach
<1>4. \A q \in Requests \ {r} : call'[q] = call[q]
  BY <1>3 DEF ServerTypeOK
<1>5. AppTypeOK' /\ WaitsForOne' /\ FlushIsServed' /\ QueuedOnce' /\ DoneIsRecorded'
  BY <1>1, <1>2, <1>4, Receiving
<1>6. DeviceTypeOK'
  BY <1>2, Faulting DEF DeviceTypeOK, Unreachable, Answer, GiveUp, Crash
<1>7. ServerTypeOK' /\ RequestsCarryCalls' /\ SuccessIsRecorded'
  BY <1>2, <1>3 DEF ServerTypeOK, RequestsCarryCalls, SuccessIsRecorded
<1>8. KeyIsHeld'
  <2>1. ASSUME NEW q \in Requests, NEW o \in Keyed
        PROVE  (HasKey(q, o)' => HasKey(q, o)) /\ (MayAct(q, o)' => MayAct(q, o))
    BY <1>3, QueueAssumption DEF ServerTypeOK, HasKey, MayAct, Keyed, Ops
  <2> QED
    BY <1>2, <2>1 DEF KeyIsHeld
<1> QED
  BY <1>5, <1>6, <1>7, <1>8

LEMMA QueueStep == QueueInv /\ [QueueNext]_queueVars => QueueInv'
<1> SUFFICES ASSUME QueueInv, [QueueNext]_queueVars PROVE QueueInv'
  OBVIOUS
<1>1. CASE GoOffline \/ GoOnline \/ Kill
  BY <1>1, DeviceStep
<1>2. ASSUME NEW o \in Ops, Submit(o) \/ Appending(o) PROVE QueueInv'
  BY <1>2, SubmitStep, ScreenStep, AppendWriteStep DEF Appending
<1>3. CASE StartFlush \/ Flushing
  BY <1>3, ReplayStep, RemovalStep DEF Flushing
<1>4. ASSUME NEW r \in Requests, Serving(r) \/ GiveUp(r) \/ Crash(r) PROVE QueueInv'
  BY <1>4, AnswerStep, HandlerStep DEF Serving
<1>5. CASE UNCHANGED queueVars
  BY <1>5 DEF QueueInv, QueueTypeOK, DeviceTypeOK, AppTypeOK, ServerTypeOK, RequestsCarryCalls, SuccessIsRecorded,
     KeyIsHeld, HasKey, MayAct, WaitsForOne, FlushIsServed, QueuedOnce, OnlyQueued, DoneIsRecorded,
     queueVars, deviceVars, storeVars, flushVars, appVars, httpVars, serverVars
<1> QED
  BY <1>1, <1>2, <1>3, <1>4, <1>5 DEF QueueNext
-----------------------------------------------------------------------------
\* The inductive invariant holds in every behaviour.
THEOREM QueueInvariance == QueueSpec => []QueueInv
  BY InitQueueInv, QueueStep, PTL DEF QueueSpec

\* Every variable keeps its type.
THEOREM QueueTypeCorrect == QueueSpec => []QueueTypeOK
<1>1. QueueInv => QueueTypeOK
  BY DEF QueueInv
<1> QED
  BY <1>1, QueueInvariance, PTL

\* A call whose route honours its key reaches the provider once, however often
\* and from wherever it is repeated, and whatever dies or is lost in between.
THEOREM KeyedCallsRunOnce == QueueSpec => []KeyedRunsOnce
<1>1. QueueInv => KeyedRunsOnce
  BY DEF QueueInv, KeyIsHeld, KeyedRunsOnce
<1> QED
  BY <1>1, QueueInvariance, PTL

\* What a screen showed as done, and what left the queue with no index write
\* lost, is in the database.
THEOREM DoneMeansRecorded == QueueSpec => []DoneIsRecorded
<1>1. QueueInv => DoneIsRecorded
  BY DEF QueueInv
<1> QED
  BY <1>1, QueueInvariance, PTL

\* No operation is in the index twice, so taking its id off takes it off.
THEOREM NoOperationTwice == QueueSpec => []NoDuplicates(index)
<1>1. QueueInv => NoDuplicates(index)
  BY DEF QueueInv, QueuedOnce, OnlyQueued
<1> QED
  BY <1>1, QueueInvariance, PTL
=============================================================================
