------------------------- MODULE StorageQueueProofs -------------------------
(***************************************************************************)
(* TLAPS proofs about StorageQueue, for any set of clients and keys, any   *)
(* channel size and any number of request ids: each request returns its    *)
(* own answer, what flash holds is right, and the whole implements the     *)
(* atomic store of FlashStore.                                             *)
(*                                                                         *)
(* ReplyIsOwn is not inductive: that the id of a reply identifies its      *)
(* request depends on every id still in the channel, in the storage task's *)
(* hands and in the signal.  IdOf says which id an outstanding serial must *)
(* carry: the current id minus the number of requests issued since, modulo *)
(* the width of the id.  FlashIsTrue needs the order of what is still      *)
(* queued against what is on flash, and the refinement that the answer in  *)
(* the signal is the one its client will take.                             *)
(***************************************************************************)
EXTENDS StorageQueue, TLAPS

\* The id that the request with this serial took, from the current id.
IdOf(s) == IF requestId >= issued - s THEN requestId - (issued - s)
           ELSE requestId + IdModulus - (issued - s)

\* An outstanding request is within the window of distinct ids, and carries
\* the id that belongs to its serial.
Identified(x) == x.serial = 0 \/ (/\ x.serial <= issued
                                  /\ issued - x.serial < IdModulus
                                  /\ x.id = IdOf(x.serial))

\* The client that holds the lock is the one that is sending or waiting, and
\* its request is the last one issued.
HolderInv ==
    \A c \in Clients :
        /\ pc[c] \in {"send", "wait"} =>
              holder = {c} /\ req[c].serial = issued /\ issued # 0
        /\ c \in holder => pc[c] \in {"send", "wait"}
        /\ pc[c] # "idle" => req[c].op \in {"store", "read"}

\* Every request on its way to an answer is identified by its id.
OutstandingInv ==
    /\ \A i \in 1 .. Len(queue) : Identified(queue[i])
    /\ \A m \in busy : Identified(m)
    /\ \A r \in reply : Identified(r) /\ r.serial # 0

\* The inductive invariant behind ReplyIsOwn.
IInv == TypeOK /\ HolderInv /\ OutstandingInv /\ ReplyIsOwn

-----------------------------------------------------------------------------
LEMMA AbsentType == Absent \in Item /\ NoRequest \in Request /\ NoResult \in Result
<1>1. PICK s \in Schemas : s = Absent.schema
  BY SetsAssumption DEF Absent
<1>2. NoRequest.key \in Keys
  BY SetsAssumption DEF NoRequest
<1> QED
  BY <1>1, <1>2 DEF Absent, Item, NoRequest, Request, NoResult, Result

\* Filling in a request's history keeps its operation and its key.
LEMMA RequestUpdate ==
    ASSUME NEW r \in Request, NEW n \in Nat, NEW f \in Nat
    PROVE  /\ [r EXCEPT !.seq = n] \in Request
           /\ [r EXCEPT !.serial = n, !.floor = f] \in Request
BY DEF Request

\* A request and an answer make a result.
LEMMA ResultType ==
    ASSUME NEW q \in Request, NEW r \in Answer
    PROVE  [op |-> q.op, ok |-> r.ok, val |-> r.val, serial |-> q.serial,
            floor |-> q.floor, for |-> r.serial] \in Result
BY DEF Request, Answer, Result

\* The wrapping increment stays within the ids.
LEMMA NextIdValue ==
    ASSUME requestId \in Ids
    PROVE  /\ NextId = IF requestId + 1 = IdModulus THEN 0 ELSE requestId + 1
           /\ NextId \in Ids
<1>1. CASE requestId + 1 = IdModulus
  BY <1>1, SizesAssumption DEF Ids, NextId
<1>2. CASE requestId + 1 # IdModulus
  <2>1. requestId + 1 \in 0 .. IdModulus - 1
    BY <1>2, SizesAssumption DEF Ids
  <2>2. (requestId + 1) % IdModulus = requestId + 1
    BY <2>1, SizesAssumption
  <2> QED
    BY <1>2, <2>1, <2>2 DEF Ids, NextId
<1> QED
  BY <1>1, <1>2

\* An answer under the current id is the answer to the last request issued.
LEMMA CurrentId ==
    ASSUME TypeOK, NEW s \in Nat, s <= issued, issued - s < IdModulus,
           requestId = IdOf(s)
    PROVE  s = issued
BY SizesAssumption DEF TypeOK, Ids, IdOf

-----------------------------------------------------------------------------
LEMMA InitIInv == Init => IInv
<1> SUFFICES ASSUME Init PROVE IInv
  OBVIOUS
<1>1. TypeOK
  BY AbsentType, SizesAssumption DEF Init, TypeOK, Ids
<1> QED
  BY <1>1 DEF Init, IInv, HolderInv, OutstandingInv, ReplyIsOwn, NoResult, NoRequest

\* Moving an identified message along changes nothing while no id is handed out.
LEMMA SameIds ==
    ASSUME UNCHANGED <<requestId, issued>>
    PROVE  \A x : Identified(x)' <=> Identified(x)
BY DEF Identified, IdOf

LEMMA NextTypeOK ==
    ASSUME IInv, [Next]_vars
    PROVE  TypeOK'
<1> USE AbsentType DEF IInv
<1>1. ASSUME NEW c \in Clients, NEW op \in {"store", "read"}, NEW k \in Keys,
             Call(c, op, k)
      PROVE  TypeOK'
  BY <1>1 DEF TypeOK, Call, Request, NoRequest
<1>2. ASSUME NEW c \in Clients, Lock(c) PROVE TypeOK'
  <2>1. req[c] \in Request /\ flash[req[c].key].seq \in Nat /\ issued + 1 \in Nat
    BY DEF TypeOK, Request, Item
  <2>2. [req[c] EXCEPT !.serial = issued + 1, !.floor = flash[req[c].key].seq]
            \in Request
    BY <2>1, RequestUpdate, Zenon
  <2>3. req' \in [Clients -> Request]
    BY <1>2, <2>2 DEF TypeOK, Lock
  <2> QED
    BY <1>2, <2>3, NextIdValue DEF TypeOK, Lock
<1>3. ASSUME NEW c \in Clients, Send(c) PROVE TypeOK'
  <2>1. req[c].op \in {"store", "read"}
    BY <1>3 DEF Send, HolderInv
  <2>2. [op |-> req[c].op, key |-> req[c].key, id |-> requestId,
         serial |-> req[c].serial, seq |-> accepted + 1] \in Message
    BY <2>1 DEF TypeOK, Request, Message
  <2>3. queue' \in Seq(Message) /\ Len(queue') <= QueueSize
    BY <1>3, <2>2, SizesAssumption DEF Send, TypeOK, Enqueue, Room
  <2>4. req' \in [Clients -> Request]
    <3>1. \A r \in Request, n \in Nat : [r EXCEPT !.seq = n] \in Request
      BY RequestUpdate
    <3>2. req[c] \in Request /\ accepted + 1 \in Nat
      BY DEF TypeOK
    <3>3. [req[c] EXCEPT !.seq = accepted + 1] \in Request
      BY <3>1, <3>2, Zenon
    <3> QED
      BY <1>3, <3>3 DEF Send, TypeOK
  <2> QED
    BY <1>3, <2>3, <2>4 DEF TypeOK, Send
<1>4. ASSUME NEW c \in Clients, TakeReply(c) PROVE TypeOK'
  <2>1. PICK r \in reply :
            IF Mine(r) THEN Return(c, r)
            ELSE UNCHANGED <<result, acked, pc, req, holder>>
    BY <1>4 DEF TakeReply
  <2>2. CASE Mine(r)
    <3>1. req[c] \in Request /\ r \in Answer /\ req[c].key \in Keys
          /\ req[c].seq \in Nat
      BY DEF TypeOK, Request
    <3>2. result' \in [Clients -> Result]
      BY <2>1, <2>2, <3>1, ResultType DEF TypeOK, Return
    <3>3. acked' \in [Keys -> Nat]
      BY <2>1, <2>2, <3>1 DEF TypeOK, Return
    <3>4. pc' \in [Clients -> {"idle", "lock", "send", "wait"}]
          /\ req' \in [Clients -> Request] /\ holder' \in SUBSET Clients
      BY <2>1, <2>2 DEF TypeOK, Return
    <3> QED
      BY <1>4, <3>2, <3>3, <3>4 DEF TypeOK, TakeReply
  <2>3. CASE ~ Mine(r)
    BY <1>4, <2>1, <2>3 DEF TypeOK, TakeReply
  <2> QED
    BY <2>2, <2>3
<1>5. ASSUME NEW c \in Clients, Cancel(c) PROVE TypeOK'
  BY <1>5 DEF TypeOK, Cancel
<1>6. ASSUME NEW op \in {"store", "reset"}, NEW k \in Keys, SendUnchecked(op, k)
      PROVE  TypeOK'
  <2>1. [op |-> op, key |-> k, id |-> 0, serial |-> 0, seq |-> accepted + 1]
            \in Message
    BY SizesAssumption DEF TypeOK, Message, Ids
  <2>2. queue' \in Seq(Message) /\ Len(queue') <= QueueSize
    BY <1>6, <2>1, SizesAssumption DEF SendUnchecked, TypeOK, Enqueue, Room
  <2> QED
    BY <1>6, <2>2 DEF TypeOK, SendUnchecked, clientVars, flashVars
<1>7. ASSUME Receive PROVE TypeOK'
  <2>1. Head(queue) \in Message /\ Tail(queue) \in Seq(Message)
        /\ Len(Tail(queue)) <= QueueSize
    BY <1>7, SizesAssumption DEF Receive, TypeOK
  <2> QED
    BY <1>7, <2>1 DEF TypeOK, Receive, clientVars, flashVars
<1>8. ASSUME NEW ok \in BOOLEAN, FinishStore(ok) PROVE TypeOK'
  BY <1>8 DEF TypeOK, FinishStore, clientVars, Signal, Message, Answer, Item
<1>9. ASSUME NEW ok \in BOOLEAN, FinishRead(ok) PROVE TypeOK'
  BY <1>9 DEF TypeOK, FinishRead, clientVars, flashVars, Signal, Message, Answer, Item
<1>10. ASSUME StartReset PROVE TypeOK'
  BY <1>10 DEF TypeOK, StartReset, clientVars, flashVars
<1>11. ASSUME NEW keys \in SUBSET Keys, NEW h \in BOOLEAN, EraseStep(keys, h)
       PROVE  TypeOK'
  BY <1>11 DEF TypeOK, EraseStep, EraseSome, clientVars
<1>12. ASSUME FinishReset PROVE TypeOK'
  BY <1>12, SizesAssumption DEF TypeOK, FinishReset, RamReset, flashVars, Ids
<1>13. ASSUME NEW ok \in BOOLEAN, Probe(ok) PROVE TypeOK'
  BY <1>13 DEF TypeOK, Probe, clientVars, flashVars
<1>14. ASSUME FinishErase PROVE TypeOK'
  BY <1>14 DEF TypeOK, FinishErase, clientVars, flashVars
<1>15. ASSUME NEW ok \in BOOLEAN, WriteHash(ok) PROVE TypeOK'
  BY <1>15 DEF TypeOK, WriteHash, clientVars
<1>16. ASSUME NEW newFw \in [schema : Schemas, clear : BOOLEAN],
              NEW landed \in {{}, busy}, PowerCycle(newFw, landed)
       PROVE  TypeOK'
  <2>1. landed \subseteq Message
    BY DEF TypeOK
  <2>2. flash' \in [Keys -> Item]
    <3>1. CASE UNCHANGED flash
      BY <3>1 DEF TypeOK
    <3>2. ASSUME NEW m \in landed,
                 flash' = [flash EXCEPT ![m.key] = [seq |-> m.seq, schema |-> fw.schema]]
          PROVE  flash' \in [Keys -> Item]
      <4>1. [seq |-> m.seq, schema |-> fw.schema] \in Item
        BY <2>1 DEF TypeOK, Message, Item
      <4> QED
        BY <3>2, <4>1 DEF TypeOK
    <3> QED
      BY <1>16, <3>1, <3>2 DEF PowerCycle
  <2> QED
    BY <1>16, <2>2, SizesAssumption DEF TypeOK, PowerCycle, RamReset, Ids
<1>17. ASSUME UNCHANGED vars PROVE TypeOK'
  BY <1>17 DEF TypeOK, vars
<1> QED
  BY <1>1, <1>2, <1>3, <1>4, <1>5, <1>6, <1>7, <1>8, <1>9, <1>10, <1>11, <1>12,
     <1>13, <1>14, <1>15, <1>16, <1>17 DEF Next, Client, StorageTask, Boot

LEMMA NextOutstanding ==
    ASSUME IInv, [Next]_vars, TypeOK'
    PROVE  HolderInv' /\ OutstandingInv' /\ ReplyIsOwn'
<1> USE DEF IInv
<1>1. ASSUME NEW c \in Clients, NEW op \in {"store", "read"}, NEW k \in Keys,
             Call(c, op, k)
      PROVE  HolderInv' /\ OutstandingInv' /\ ReplyIsOwn'
  <2>1. OutstandingInv'
    BY <1>1, SameIds DEF Call, OutstandingInv
  <2>2. ReplyIsOwn'
    BY <1>1 DEF Call, ReplyIsOwn, NoResult, TypeOK
  <2>3. HolderInv'
    BY <1>1 DEF Call, HolderInv, NoRequest, TypeOK
  <2> QED
    BY <2>1, <2>2, <2>3
<1>2. ASSUME NEW c \in Clients, Lock(c)
      PROVE  HolderInv' /\ OutstandingInv' /\ ReplyIsOwn'
  <2>1. ASSUME NEW s \in Nat, s # 0, s <= issued, issued - s < IdModulus,
               s \in Outstanding
        PROVE  issued' - s < IdModulus /\ s <= issued' /\ IdOf(s)' = IdOf(s)
    <3>1. issued + 1 - s < IdModulus
      BY <1>2, <2>1 DEF Lock, WithinWindow
    <3>2. requestId' = IF requestId + 1 = IdModulus THEN 0 ELSE requestId + 1
      BY <1>2, NextIdValue DEF Lock, TypeOK
    <3>3. issued' = issued + 1
      BY <1>2 DEF Lock
    <3> QED
      BY <2>1, <3>1, <3>2, <3>3, SizesAssumption DEF IdOf, TypeOK, Ids
  <2>2. ASSUME NEW x, x.serial \in Nat, x.serial \in Outstanding, Identified(x)
        PROVE  Identified(x)'
    BY <2>1, <2>2 DEF Identified
  <2>3. OutstandingInv'
    <3>1. ASSUME NEW i \in 1 .. Len(queue)
          PROVE  queue[i].serial \in Outstanding /\ queue[i].serial \in Nat
      <4>1. i \in DOMAIN queue /\ queue[i] \in Message
        BY DEF TypeOK
      <4> QED
        BY <4>1 DEF Outstanding, Message
    <3>2. \A m \in busy : m.serial \in Outstanding /\ m.serial \in Nat
      BY DEF Outstanding, TypeOK, Message
    <3>3. \A r \in reply : r.serial \in Outstanding /\ r.serial \in Nat
      BY DEF Outstanding, TypeOK, Answer
    <3>4. UNCHANGED <<queue, busy, reply>>
      BY <1>2 DEF Lock
    <3> QED
      BY <2>2, <3>1, <3>2, <3>3, <3>4 DEF OutstandingInv
  <2>4. ReplyIsOwn'
    BY <1>2 DEF Lock, ReplyIsOwn
  <2>5. HolderInv'
    BY <1>2 DEF Lock, HolderInv, TypeOK, Request
  <2> QED
    BY <2>3, <2>4, <2>5
<1>3. ASSUME NEW c \in Clients, Send(c)
      PROVE  HolderInv' /\ OutstandingInv' /\ ReplyIsOwn'
  <2> DEFINE m == [op |-> req[c].op, key |-> req[c].key, id |-> requestId,
                   serial |-> req[c].serial, seq |-> accepted + 1]
  <2>1. req[c].serial = issued /\ issued # 0
    BY <1>3 DEF Send, HolderInv
  <2>2. Identified(m)
    BY <2>1, SizesAssumption DEF Identified, IdOf, TypeOK, Ids
  <2>3. queue' = Append(queue, m) /\ queue \in Seq(Message)
    BY <1>3 DEF Send, Enqueue, TypeOK
  <2>4. \A i \in 1 .. Len(queue') : queue'[i] = m \/ \E j \in 1 .. Len(queue) : queue'[i] = queue[j]
    BY <2>3
  <2>5. OutstandingInv'
    <3> HIDE DEF m
    <3>1. \A i \in 1 .. Len(queue') : Identified(queue'[i])
      BY <2>2, <2>4 DEF OutstandingInv
    <3>2. UNCHANGED <<busy, reply, requestId, issued>>
      BY <1>3 DEF Send
    <3> QED
      BY <3>1, <3>2, SameIds DEF OutstandingInv
  <2>6. ReplyIsOwn'
    BY <1>3 DEF Send, ReplyIsOwn
  <2>7. HolderInv'
    BY <1>3 DEF Send, HolderInv, TypeOK, Request
  <2> QED
    BY <2>5, <2>6, <2>7
<1>4. ASSUME NEW c \in Clients, TakeReply(c)
      PROVE  HolderInv' /\ OutstandingInv' /\ ReplyIsOwn'
  <2>1. PICK r \in reply :
            IF Mine(r) THEN Return(c, r)
            ELSE UNCHANGED <<result, acked, pc, req, holder>>
    BY <1>4 DEF TakeReply
  <2>2. OutstandingInv'
    BY <1>4, <2>1, SameIds DEF TakeReply, OutstandingInv
  <2>3. CASE Mine(r)
    <3>1. r.serial \in Nat /\ Identified(r) /\ r.serial # 0
      BY DEF OutstandingInv, TypeOK, Answer
    <3>2. r.serial = issued
      BY <2>3, <3>1, CurrentId DEF Mine, Identified
    <3>3. req[c].serial = issued
      BY <1>4 DEF TakeReply, HolderInv
    <3>4. ReplyIsOwn'
      <4>1. \A d \in Clients \ {c} : result'[d] = result[d]
        BY <2>1, <2>3 DEF Return, TypeOK
      <4>2. result'[c].for = r.serial /\ result'[c].serial = req[c].serial
        BY <2>1, <2>3 DEF Return, TypeOK
      <4> QED
        BY <3>2, <3>3, <4>1, <4>2 DEF ReplyIsOwn
    <3>5. HolderInv'
      <4>1. pc' = [pc EXCEPT ![c] = "idle"] /\ req' = [req EXCEPT ![c] = NoRequest]
            /\ holder' = {} /\ holder = {c} /\ issued' = issued
        BY <1>4, <2>1, <2>3 DEF TakeReply, Return, HolderInv
      <4> QED
        BY <4>1 DEF HolderInv, TypeOK
    <3> QED
      BY <2>2, <3>4, <3>5
  <2>4. CASE ~ Mine(r)
    BY <1>4, <2>1, <2>2, <2>4 DEF TakeReply, HolderInv, ReplyIsOwn
  <2> QED
    BY <2>3, <2>4
<1>5. ASSUME NEW c \in Clients, Cancel(c)
      PROVE  HolderInv' /\ OutstandingInv' /\ ReplyIsOwn'
  <2>1. OutstandingInv' /\ ReplyIsOwn'
    BY <1>5, SameIds DEF Cancel, OutstandingInv, ReplyIsOwn
  <2>2. HolderInv'
    BY <1>5 DEF Cancel, HolderInv, TypeOK
  <2> QED
    BY <2>1, <2>2
<1>6. ASSUME NEW op \in {"store", "reset"}, NEW k \in Keys, SendUnchecked(op, k)
      PROVE  HolderInv' /\ OutstandingInv' /\ ReplyIsOwn'
  <2> DEFINE m == [op |-> op, key |-> k, id |-> 0, serial |-> 0,
                   seq |-> accepted + 1]
  <2>1. queue' = Append(queue, m) /\ queue \in Seq(Message)
    BY <1>6 DEF SendUnchecked, Enqueue, TypeOK
  <2>2. \A i \in 1 .. Len(queue') : queue'[i] = m \/ \E j \in 1 .. Len(queue) : queue'[i] = queue[j]
    BY <2>1
  <2>3. Identified(m)
    BY DEF Identified
  <2>4. \A i \in 1 .. Len(queue') : Identified(queue'[i])
    <3> HIDE DEF m
    <3> QED
      BY <2>2, <2>3 DEF OutstandingInv
  <2>5. UNCHANGED <<pc, req, result, holder, requestId, issued, busy, reply>>
    BY <1>6 DEF SendUnchecked, clientVars
  <2> QED
    BY <2>4, <2>5, SameIds DEF OutstandingInv, HolderInv, ReplyIsOwn
<1>7. ASSUME Receive
      PROVE  HolderInv' /\ OutstandingInv' /\ ReplyIsOwn'
  <2>1. queue \in Seq(Message) /\ queue # <<>> /\ queue' = Tail(queue) /\ busy' = {queue[1]}
    BY <1>7 DEF Receive, TypeOK
  <2>2. \A i \in 1 .. Len(queue') : \E j \in 1 .. Len(queue) : queue'[i] = queue[j]
    BY <2>1
  <2>3. 1 \in 1 .. Len(queue)
    BY <2>1
  <2>4. UNCHANGED <<pc, req, result, holder, requestId, issued, reply>>
    BY <1>7 DEF Receive, clientVars
  <2>5. (\A i \in 1 .. Len(queue') : Identified(queue'[i])) /\ Identified(queue[1])
    BY <2>2, <2>3 DEF OutstandingInv
  <2> QED
    BY <2>1, <2>4, <2>5, SameIds DEF OutstandingInv, HolderInv, ReplyIsOwn
<1>8. ASSUME NEW m \in busy, NEW ok \in BOOLEAN, NEW v \in Nat, Signal(m, ok, v),
             busy' = {}, UNCHANGED clientVars, UNCHANGED queue
      PROVE  HolderInv' /\ OutstandingInv' /\ ReplyIsOwn'
  <2>1. UNCHANGED <<pc, req, result, holder, requestId, issued, queue>>
    BY <1>8 DEF clientVars
  <2>2. \A r \in reply' : Identified(r) /\ r.serial # 0
    BY <1>8 DEF Signal, OutstandingInv, Identified
  <2> QED
    BY <1>8, <2>1, <2>2, SameIds DEF OutstandingInv, HolderInv, ReplyIsOwn
<1>9. ASSUME NEW ok \in BOOLEAN, FinishStore(ok)
      PROVE  HolderInv' /\ OutstandingInv' /\ ReplyIsOwn'
  BY <1>8, <1>9 DEF FinishStore
<1>10. ASSUME NEW ok \in BOOLEAN, FinishRead(ok)
       PROVE  HolderInv' /\ OutstandingInv' /\ ReplyIsOwn'
  <2>1. \A m \in busy : (IF ok THEN flash[m.key].seq ELSE 0) \in Nat
    BY DEF TypeOK, Message, Item
  <2> QED
    BY <1>8, <1>10, <2>1 DEF FinishRead
<1>11. ASSUME UNCHANGED <<clientVars, queue, busy, reply>>
       PROVE  HolderInv' /\ OutstandingInv' /\ ReplyIsOwn'
  BY <1>11, SameIds DEF clientVars, OutstandingInv, HolderInv, ReplyIsOwn
<1>12. ASSUME RamReset
       PROVE  HolderInv' /\ OutstandingInv' /\ ReplyIsOwn'
  BY <1>12 DEF RamReset, OutstandingInv, HolderInv, ReplyIsOwn, NoResult
<1>13. CASE StorageTask
  BY <1>7, <1>9, <1>10, <1>11, <1>13 DEF StorageTask, StartReset
<1>14. CASE Boot
  BY <1>11, <1>12, <1>14
  DEF Boot, Probe, WriteHash, FinishErase, FinishReset, EraseStep
<1>15. ASSUME NEW newFw, NEW landed, PowerCycle(newFw, landed)
       PROVE  HolderInv' /\ OutstandingInv' /\ ReplyIsOwn'
  BY <1>12, <1>15 DEF PowerCycle
<1>16. CASE UNCHANGED vars
  BY <1>11, <1>16 DEF vars, clientVars
<1> QED
  BY <1>1, <1>2, <1>3, <1>4, <1>5, <1>6, <1>13, <1>14, <1>15, <1>16 DEF Next, Client

\* The variables keep their types: the channel never exceeds its size, the id
\* never leaves the u8, whatever is cancelled and whenever power fails.
THEOREM TypeCorrect == Spec => []TypeOK
<1>1. IInv /\ [Next]_vars => IInv'
  BY NextTypeOK, NextOutstanding DEF IInv
<1>2. IInv => TypeOK
  BY DEF IInv
<1> QED
  BY InitIInv, <1>1, <1>2, PTL DEF Spec

\* request() only ever returns the answer to its own message.
THEOREM RepliesAreOwn == Spec => []ReplyIsOwn
<1>1. IInv /\ [Next]_vars => IInv'
  BY NextTypeOK, NextOutstanding DEF IInv
<1>2. IInv => ReplyIsOwn
  BY DEF IInv
<1> QED
  BY InitIInv, <1>1, <1>2, PTL DEF Spec

-----------------------------------------------------------------------------
(* What the flash holds: the order of the messages, the requests they       *)
(* belong to, and the schema hash.                                          *)

\* The messages accepted and not finished.
UnderWay == {queue[i] : i \in 1 .. Len(queue)} \union busy

\* x was accepted before y; so was its request, if both have one.
Before(x, y) ==
    /\ x.seq < y.seq
    /\ x.serial = 0 \/ y.serial = 0 \/ x.serial < y.serial

\* Messages are finished in the order in which they were accepted, and a request is
\* answered once.
OrderInv ==
    /\ \A i, j \in 1 .. Len(queue) : i < j => Before(queue[i], queue[j])
    /\ \A m \in busy : \A i \in 1 .. Len(queue) : Before(m, queue[i])
    /\ \A x \in UnderWay :
          /\ x.seq <= accepted
          /\ \A k \in Keys : flash[k].seq < x.seq
          /\ \A r \in reply : x.serial = 0 \/ r.serial < x.serial
    /\ \A k \in Keys : flash[k].seq <= accepted
    /\ \A c \in Clients : pc[c] = "send" =>
          \A x \in UnderWay \union reply : x.serial < issued

\* A message under way is the one its client waits for; its answer tells what the flash
\* holds, and nothing is erased between the call and the answer.
RequestInv ==
    \A c \in Clients :
       /\ pc[c] = "wait" =>
             /\ \A x \in UnderWay : x.serial = req[c].serial =>
                   x.op = req[c].op /\ x.key = req[c].key /\ x.seq = req[c].seq
             /\ \A r \in reply : r.serial = req[c].serial /\ r.ok =>
                   /\ req[c].op = "read" => r.val >= req[c].floor
                   /\ req[c].op = "store" /\ task = "run" =>
                         flash[req[c].key].seq >= req[c].seq
       /\ pc[c] \in {"send", "wait"} /\ task = "run" =>
             flash[req[c].key].seq >= req[c].floor

\* Until the storage task runs nothing is asked of it.
BootInv ==
    ~ Running => /\ \A c \in Clients : pc[c] = "idle"
                 /\ queue = <<>> /\ busy = {} /\ reply = {}

\* The task has one message in its hands, REPLY holds one answer.
SingleInv ==
    /\ \A m, n \in busy : m = n
    /\ \A r, s \in reply : r = s

\* An acknowledged store is on flash, or a newer one is.
AckInv == \A k \in Keys : acked[k] <= flash[k].seq

\* A hash on flash speaks for every item beside it.
SchemaInv ==
    /\ \A k \in Keys : flash[k].seq # 0 => hash \subseteq {flash[k].schema}
    /\ task = "hash" => Erased
    /\ Running => hash \subseteq {fw.schema}

\* The inductive invariant behind FlashIsTrue, beside IInv.
FInv == /\ OrderInv /\ RequestInv /\ BootInv /\ SingleInv
        /\ AckInv /\ SchemaInv /\ NoForeignItem /\ ReadIsFresh

\* A message appended behind all others keeps the order.
LEMMA AppendOrdered ==
    ASSUME NEW q \in Seq(Message), NEW m \in Message,
           \A i, j \in 1 .. Len(q) : i < j => Before(q[i], q[j]),
           \A i \in 1 .. Len(q) : Before(q[i], m)
    PROVE  \A i, j \in 1 .. Len(Append(q, m)) :
               i < j => Before(Append(q, m)[i], Append(q, m)[j])
<1> SUFFICES ASSUME NEW i \in 1 .. Len(q) + 1, NEW j \in 1 .. Len(q) + 1, i < j
             PROVE  Before(Append(q, m)[i], Append(q, m)[j])
  OBVIOUS
<1>1. i \in 1 .. Len(q) /\ Append(q, m)[i] = q[i]
  OBVIOUS
<1>2. CASE j = Len(q) + 1
  BY <1>1, <1>2
<1>3. CASE j # Len(q) + 1
  BY <1>1, <1>3
<1> QED
  BY <1>2, <1>3

\* What Enqueue does to the messages under way.
LEMMA EnqueueUnderWay ==
    ASSUME queue \in Seq(Message), NEW m \in Message, Enqueue(m), busy' = busy
    PROVE  UnderWay' = UnderWay \union {m}
<1>1. queue' = Append(queue, m) /\ Len(queue') = Len(queue) + 1
  BY DEF Enqueue
<1>2. \A i \in 1 .. Len(queue) : queue'[i] = queue[i]
  BY <1>1
<1>3. queue'[Len(queue) + 1] = m /\ 1 .. Len(queue') = (1 .. Len(queue)) \union {Len(queue) + 1}
  BY <1>1
<1>4. {queue'[i] : i \in 1 .. Len(queue')} = {queue[i] : i \in 1 .. Len(queue)} \union {m}
  BY <1>2, <1>3
<1> QED
  BY <1>4 DEF UnderWay

\* Receiving moves a message from the channel to the task.
LEMMA ReceiveUnderWay ==
    ASSUME TypeOK, Receive
    PROVE  /\ UnderWay' = UnderWay
           /\ busy' = {queue[1]} /\ Len(queue') = Len(queue) - 1 /\ Len(queue) > 0
           /\ \A i \in 1 .. Len(queue') : i + 1 \in 1 .. Len(queue) /\ queue'[i] = queue[i + 1]
<1>1. queue \in Seq(Message) /\ queue # <<>> /\ queue' = Tail(queue) /\ busy' = {Head(queue)}
      /\ busy = {}
  BY DEF Receive, TypeOK
<1>2. busy' = {queue[1]} /\ Len(queue') = Len(queue) - 1 /\ Len(queue) > 0
  BY <1>1
<1>3. \A i \in 1 .. Len(queue') : i + 1 \in 1 .. Len(queue) /\ queue'[i] = queue[i + 1]
  BY <1>1
<1>4. {queue'[i] : i \in 1 .. Len(queue')} \union {queue[1]} = {queue[i] : i \in 1 .. Len(queue)}
  <2>1. \A i \in 1 .. Len(queue) :
            queue[i] = queue[1] \/ \E j \in 1 .. Len(queue') : queue'[j] = queue[i]
    <3>1. ASSUME NEW i \in 1 .. Len(queue), i # 1
          PROVE  i - 1 \in 1 .. Len(queue') /\ queue'[i - 1] = queue[i]
      BY <1>1, <1>2, <3>1
    <3> QED
      BY <3>1
  <2>2. \A j \in 1 .. Len(queue') : \E i \in 1 .. Len(queue) : queue'[j] = queue[i]
    BY <1>3
  <2>3. 1 \in 1 .. Len(queue)
    BY <1>2, <1>1
  <2> QED
    BY <2>1, <2>2, <2>3
<1> QED
  BY <1>1, <1>2, <1>3, <1>4 DEF UnderWay

\* The types of what is under way.
LEMMA UnderWayType ==
    ASSUME TypeOK
    PROVE  UnderWay \subseteq Message
BY DEF TypeOK, UnderWay

\* A reply under the current id is the answer to the request of the client that waits.
LEMMA MineIsOwn ==
    ASSUME IInv, NEW c \in Clients, pc[c] = "wait", NEW r \in reply
    PROVE  Mine(r) <=> r.serial = req[c].serial
<1>1. r.serial \in Nat /\ Identified(r) /\ r.serial # 0
  BY DEF IInv, OutstandingInv, TypeOK, Answer
<1>2. req[c].serial = issued
  BY DEF IInv, HolderInv
<1>3. Mine(r) => r.serial = issued
  BY <1>1, CurrentId DEF IInv, Mine, Identified
<1>4. r.serial = issued => Mine(r)
  BY <1>1, SizesAssumption DEF IInv, TypeOK, Ids, Mine, Identified, IdOf
<1> QED
  BY <1>2, <1>3, <1>4

\* One client at a time sends or waits, for the last request issued.
LEMMA OneClient ==
    ASSUME IInv, NEW c \in Clients, NEW d \in Clients,
           pc[c] \in {"send", "wait"}, pc[d] \in {"send", "wait"}
    PROVE  c = d /\ req[c].serial = issued /\ issued # 0
BY DEF IInv, HolderInv

\* Nothing under way has a serial that was not issued.
LEMMA SerialIssued ==
    ASSUME IInv
    PROVE  \A x \in UnderWay \union reply : x.serial \in Nat /\ x.serial <= issued
<1>1. \A x \in UnderWay : x.serial \in Nat /\ Identified(x)
  BY UnderWayType DEF IInv, OutstandingInv, UnderWay, Message
<1>2. \A x \in reply : x.serial \in Nat /\ Identified(x)
  BY DEF IInv, OutstandingInv, TypeOK, Answer
<1>3. issued \in Nat
  BY DEF IInv, TypeOK
<1> QED
  BY <1>1, <1>2, <1>3 DEF Identified

\* The message the storage task has finished, and the answer it may leave.
LEMMA FinishOrder ==
    ASSUME IInv, OrderInv, SingleInv, NEW m \in busy, busy' = {}, UNCHANGED <<queue, pc, issued, accepted>>,
           NEW ok \in BOOLEAN, NEW v \in Nat, Signal(m, ok, v),
           flash' \in [Keys -> Item],
           \A k \in Keys : flash'[k].seq = flash[k].seq \/ flash'[k].seq = m.seq
    PROVE  OrderInv'
<1> USE DEF OrderInv, IInv
<1>1. UnderWay' = {queue[i] : i \in 1 .. Len(queue)} /\ UnderWay' \subseteq UnderWay /\ m \in UnderWay
  BY DEF UnderWay
<1>2. \A x \in UnderWay' : Before(m, x)
  BY <1>1
<1>3. m \in Message /\ UnderWay \subseteq Message /\ flash \in [Keys -> Item]
  BY UnderWayType DEF TypeOK
<1>4. \A r \in reply' : r \in reply \/ (r.serial = m.serial /\ m.serial # 0)
  BY DEF Signal
<1>5. ASSUME NEW x \in UnderWay'
      PROVE  /\ x.seq <= accepted
             /\ \A k \in Keys : flash'[k].seq < x.seq
             /\ \A r \in reply' : x.serial = 0 \/ r.serial < x.serial
  BY <1>1, <1>2, <1>4 DEF Before
<1>6. \A k \in Keys : flash'[k].seq <= accepted
  BY <1>1
<1>7. ASSUME NEW c \in Clients, pc[c] = "send"
      PROVE  \A x \in UnderWay' \union reply' : x.serial < issued
  BY <1>1, <1>4, <1>7
<1> QED
  BY <1>5, <1>6, <1>7

LEMMA InitFInv == Init => FInv
<1> SUFFICES ASSUME Init PROVE FInv
  OBVIOUS
<1>1. UnderWay = {} /\ reply = {} /\ busy = {} /\ queue = <<>>
  BY DEF Init, UnderWay
<1>2. \A k \in Keys : flash[k].seq = 0 /\ acked[k] = 0
  BY DEF Init, Absent
<1>3. OrderInv /\ AckInv
  BY <1>1, <1>2 DEF Init, OrderInv, AckInv
<1> QED
  BY <1>1, <1>2, <1>3
  DEF Init, FInv, RequestInv, BootInv, SingleInv, SchemaInv, NoForeignItem,
      ReadIsFresh, NoResult, Running

LEMMA ClientFInv ==
    ASSUME IInv, FInv, NEW c \in Clients, Client(c)
    PROVE  FInv'
<1> USE DEF FInv
<1>1. ASSUME NEW op \in {"store", "read"}, NEW k \in Keys, Call(c, op, k) PROVE FInv'
  <2>1. UnderWay' = UnderWay
    BY <1>1 DEF Call, UnderWay
  <2>2. OrderInv'
    BY <1>1, <2>1 DEF Call, OrderInv, IInv, TypeOK
  <2>3. RequestInv'
    BY <1>1, <2>1 DEF Call, RequestInv, IInv, TypeOK
  <2>4. ReadIsFresh'
    BY <1>1 DEF Call, ReadIsFresh, NoResult, IInv, TypeOK
  <2> QED
    BY <1>1, <2>2, <2>3, <2>4
    DEF Call, BootInv, Running, SingleInv, AckInv, SchemaInv, Erased, NoForeignItem
<1>2. CASE Lock(c)
  <2>1. UnderWay' = UnderWay /\ issued \in Nat /\ issued' = issued + 1 /\ UNCHANGED reply
    BY <1>2 DEF Lock, UnderWay, IInv, TypeOK
  <2>2. \A d \in Clients : pc[d] \notin {"send", "wait"}
    BY <1>2 DEF Lock, IInv, HolderInv
  <2>3. OrderInv'
    <3>1. \A x \in UnderWay' \union reply' : x.serial < issued'
      BY <2>1, SerialIssued
    <3> QED
      BY <1>2, <2>1, <3>1 DEF Lock, OrderInv
  <2>4. RequestInv'
    <3>1. pc' = [pc EXCEPT ![c] = "send"] /\ task' = task /\ flash' = flash /\ pc[c] = "lock"
          /\ req' = [req EXCEPT ![c] =
                  [@ EXCEPT !.serial = issued + 1, !.floor = flash[req[c].key].seq]]
      BY <1>2 DEF Lock
    <3>2. req[c] \in Request /\ flash[req[c].key].seq \in Nat
      BY DEF IInv, TypeOK, Request, Item
    <3>3. req'[c].floor = flash[req[c].key].seq /\ req'[c].key = req[c].key
      BY <3>1, <3>2 DEF IInv, TypeOK, Request
    <3>4. \A d \in Clients : pc'[d] \in {"send", "wait"} => d = c /\ pc'[d] = "send"
      BY <2>2, <3>1 DEF IInv, TypeOK
    <3> QED
      BY <3>1, <3>2, <3>3, <3>4 DEF RequestInv
  <2> QED
    BY <1>2, <2>3, <2>4
    DEF Lock, BootInv, Running, SingleInv, AckInv, SchemaInv, Erased, NoForeignItem, ReadIsFresh
<1>3. CASE Send(c)
  <2> DEFINE m == [op |-> req[c].op, key |-> req[c].key, id |-> requestId,
                   serial |-> req[c].serial, seq |-> accepted + 1]
  <2>1. pc[c] = "send" /\ Enqueue(m) /\ accepted' = accepted + 1 /\ pc' = [pc EXCEPT ![c] = "wait"]
        /\ req' = [req EXCEPT ![c] = [@ EXCEPT !.seq = accepted + 1]]
        /\ UNCHANGED <<result, holder, requestId, issued, busy, reply, flash, hash, task, fw, acked>>
    BY <1>3 DEF Send
  <2>2. req[c].serial = issued /\ issued # 0 /\ req[c].op \in {"store", "read"}
    BY <2>1 DEF IInv, HolderInv
  <2>3. m \in Message /\ queue \in Seq(Message)
    BY <2>2 DEF IInv, TypeOK, Request, Message
  <2>4. UnderWay' = UnderWay \union {m}
    BY <2>1, <2>3, EnqueueUnderWay
  <2>5. \A x \in UnderWay \union reply : x.serial < issued
    BY <2>1 DEF OrderInv
  <2>6. m.serial = issued /\ m.seq = accepted + 1 /\ accepted \in Nat /\ m.op = req[c].op
        /\ m.key = req[c].key /\ issued \in Nat
    BY <2>2 DEF IInv, TypeOK
  <2> HIDE DEF m
  <2>7. \A x \in UnderWay : Before(x, m)
    BY <2>3, <2>5, <2>6, UnderWayType DEF OrderInv, Before, IInv, Message
  <2>8. OrderInv'
    <3>1. \A i, j \in 1 .. Len(queue') : i < j => Before(queue'[i], queue'[j])
      <4>1. \A i \in 1 .. Len(queue) : Before(queue[i], m)
        BY <2>7 DEF UnderWay
      <4>2. \A i, j \in 1 .. Len(queue) : i < j => Before(queue[i], queue[j])
        BY DEF OrderInv
      <4> QED
        BY <2>1, <2>3, <4>1, <4>2, AppendOrdered, Zenon DEF Enqueue
    <3>2. \A n \in busy : \A i \in 1 .. Len(queue') : Before(n, queue'[i])
      <4>1. \A i \in 1 .. Len(queue') : \/ i \in 1 .. Len(queue) /\ queue'[i] = queue[i]
                                        \/ queue'[i] = m
        BY <2>1, <2>3 DEF Enqueue
      <4> QED
        BY <2>7, <4>1 DEF OrderInv, UnderWay
    <3>3. ASSUME NEW x \in UnderWay'
          PROVE  /\ x.seq <= accepted'
                 /\ \A k \in Keys : flash'[k].seq < x.seq
                 /\ \A r \in reply' : x.serial = 0 \/ r.serial < x.serial
      <4>1. x \in Message
        BY <2>3, <2>4, <3>3, UnderWayType DEF IInv
      <4>2. \A k \in Keys : flash[k].seq <= accepted /\ flash[k].seq \in Nat
        BY DEF OrderInv, IInv, TypeOK, Item
      <4>3. CASE x = m
        BY <2>1, <2>5, <2>6, <4>2, <4>3
      <4>4. CASE x \in UnderWay
        BY <2>1, <2>6, <4>1, <4>4 DEF OrderInv, Message
      <4> QED
        BY <2>4, <4>3, <4>4
    <3>4. \A k \in Keys : flash'[k].seq <= accepted'
      BY <2>1, <2>6 DEF OrderInv, IInv, TypeOK, Item
    <3>5. \A d \in Clients : pc'[d] # "send"
      BY <2>1, OneClient DEF IInv, TypeOK
    <3> QED
      BY <2>1, <3>1, <3>2, <3>3, <3>4, <3>5 DEF OrderInv
  <2>9. RequestInv'
    <3>1. \A d \in Clients : pc'[d] \in {"send", "wait"} => d = c
      BY <2>1, OneClient DEF IInv, TypeOK
    <3>2. req[c] \in Request
      BY DEF IInv, TypeOK
    <3>3. /\ req'[c].op = req[c].op /\ req'[c].key = req[c].key
          /\ req'[c].serial = req[c].serial /\ req'[c].floor = req[c].floor
          /\ req'[c].seq = accepted + 1
      BY <2>1, <3>2 DEF IInv, TypeOK, Request
    <3>4. \A x \in UnderWay \union reply : x.serial # req[c].serial
      BY <2>2, <2>5, <2>6
    <3> QED
      BY <2>1, <2>4, <2>6, <3>1, <3>3, <3>4 DEF RequestInv
  <2>10. Running
    BY <2>1 DEF BootInv
  <2> QED
    BY <2>1, <2>8, <2>9, <2>10
    DEF BootInv, Running, SingleInv, AckInv, SchemaInv, Erased, NoForeignItem, ReadIsFresh
<1>4. CASE TakeReply(c)
  <2>1. PICK r \in reply :
            IF Mine(r) THEN Return(c, r)
            ELSE UNCHANGED <<result, acked, pc, req, holder>>
    BY <1>4 DEF TakeReply
  <2>2. UnderWay' = UnderWay /\ reply' = {} /\ pc[c] = "wait"
        /\ UNCHANGED <<requestId, issued, queue, busy, flash, hash, task, fw, accepted>>
    BY <1>4 DEF TakeReply, UnderWay
  <2>3. \A d \in Clients : (pc'[d] = pc[d] /\ req'[d] = req[d]) \/ pc'[d] = "idle"
    BY <2>1 DEF Return, IInv, TypeOK
  <2>4. OrderInv'
    BY <2>2, <2>3 DEF OrderInv
  <2>5. RequestInv'
    BY <2>2, <2>3 DEF RequestInv
  <2>6. BootInv'
    BY <2>2 DEF BootInv, Running
  <2>7. CASE Mine(r)
    <3>1. r.serial = req[c].serial /\ req[c] \in Request /\ r \in Answer
      BY <2>2, <2>7, MineIsOwn DEF IInv, TypeOK
    <3>2. AckInv'
      <4>1. acked' = acked \/ (/\ req[c].op = "store" /\ r.ok /\ task = "run"
                               /\ acked' = [acked EXCEPT ![req[c].key] = req[c].seq])
        BY <2>1, <2>7 DEF Return
      <4>2. req[c].op = "store" /\ r.ok /\ task = "run" => flash[req[c].key].seq >= req[c].seq
        BY <2>2, <3>1 DEF RequestInv
      <4> QED
        BY <2>2, <3>1, <4>1, <4>2 DEF AckInv, IInv, TypeOK, Request, Item
    <3>3. ReadIsFresh'
      <4>1. req[c].op = "read" /\ r.ok => r.val >= req[c].floor
        BY <2>2, <3>1 DEF RequestInv
      <4> QED
        BY <2>1, <2>7, <4>1 DEF Return, ReadIsFresh, IInv, TypeOK
    <3> QED
      BY <2>2, <2>4, <2>5, <2>6, <3>2, <3>3
      DEF SingleInv, SchemaInv, Erased, Running, NoForeignItem
  <2>8. CASE ~ Mine(r)
    BY <2>1, <2>2, <2>4, <2>5, <2>6, <2>8
    DEF AckInv, SingleInv, SchemaInv, Erased, Running, NoForeignItem, ReadIsFresh
  <2> QED
    BY <2>7, <2>8
<1>5. CASE Cancel(c)
  <2>1. UnderWay' = UnderWay
    BY <1>5 DEF Cancel, UnderWay
  <2>2. \A d \in Clients : (pc'[d] = pc[d] /\ req'[d] = req[d]) \/ pc'[d] = "idle"
    BY <1>5 DEF Cancel, IInv, TypeOK
  <2>3. OrderInv' /\ RequestInv' /\ BootInv'
    BY <1>5, <2>1, <2>2 DEF Cancel, OrderInv, RequestInv, BootInv, Running
  <2> QED
    BY <1>5, <2>3
    DEF Cancel, SingleInv, AckInv, SchemaInv, Erased, Running, NoForeignItem, ReadIsFresh
<1> QED
  BY <1>1, <1>2, <1>3, <1>4, <1>5 DEF Client

LEMMA UncheckedFInv ==
    ASSUME IInv, FInv, NEW op \in {"store", "reset"}, NEW k \in Keys, SendUnchecked(op, k)
    PROVE  FInv'
<1> USE DEF FInv
<1> DEFINE m == [op |-> op, key |-> k, id |-> 0, serial |-> 0, seq |-> accepted + 1]
<1>1. Enqueue(m) /\ accepted' = accepted + 1 /\ Running
      /\ UNCHANGED <<pc, req, result, issued, busy, reply, flash, hash, acked, task, fw>>
  BY DEF SendUnchecked, clientVars, flashVars
<1>2. m \in Message /\ queue \in Seq(Message) /\ accepted \in Nat
  BY SizesAssumption DEF IInv, TypeOK, Message, Ids
<1>3. UnderWay' = UnderWay \union {m}
  BY <1>1, <1>2, EnqueueUnderWay
<1>4. m.serial = 0 /\ m.seq = accepted + 1
  OBVIOUS
<1> HIDE DEF m
<1>5. \A x \in UnderWay : Before(x, m)
  BY <1>2, <1>4, UnderWayType DEF OrderInv, Before, IInv, Message
<1>6. OrderInv'
  <2>1. \A i, j \in 1 .. Len(queue') : i < j => Before(queue'[i], queue'[j])
    <3>1. \A i \in 1 .. Len(queue) : Before(queue[i], m)
      BY <1>5 DEF UnderWay
    <3>2. \A i, j \in 1 .. Len(queue) : i < j => Before(queue[i], queue[j])
      BY DEF OrderInv
    <3> QED
      BY <1>1, <1>2, <3>1, <3>2, AppendOrdered, Zenon DEF Enqueue
  <2>2. \A n \in busy : \A i \in 1 .. Len(queue') : Before(n, queue'[i])
    <3>1. \A i \in 1 .. Len(queue') : \/ i \in 1 .. Len(queue) /\ queue'[i] = queue[i]
                                      \/ queue'[i] = m
      BY <1>1, <1>2 DEF Enqueue
    <3> QED
      BY <1>5, <3>1 DEF OrderInv, UnderWay
  <2>3. ASSUME NEW x \in UnderWay'
        PROVE  /\ x.seq <= accepted'
               /\ \A j \in Keys : flash'[j].seq < x.seq
               /\ \A r \in reply' : x.serial = 0 \/ r.serial < x.serial
    <3>1. x \in Message
      BY <1>2, <1>3, UnderWayType DEF IInv
    <3>2. \A j \in Keys : flash[j].seq <= accepted /\ flash[j].seq \in Nat
      BY DEF OrderInv, IInv, TypeOK, Item
    <3>3. CASE x = m
      BY <1>1, <1>2, <1>4, <3>2, <3>3
    <3>4. CASE x \in UnderWay
      <4>1. x.seq <= accepted /\ x.seq \in Nat
        BY <3>1, <3>4 DEF OrderInv, Message
      <4> QED
        BY <1>1, <1>2, <3>4, <4>1 DEF OrderInv
    <3> QED
      BY <1>3, <3>3, <3>4
  <2>4. \A j \in Keys : flash'[j].seq <= accepted'
    BY <1>1, <1>2 DEF OrderInv, IInv, TypeOK, Item
  <2>5. ASSUME NEW c \in Clients, pc[c] = "send"
        PROVE  \A x \in UnderWay' \union reply' : x.serial < issued
    BY <1>1, <1>3, <1>4, <2>5, OneClient DEF OrderInv, IInv, TypeOK
  <2> QED
    BY <1>1, <2>1, <2>2, <2>3, <2>4, <2>5 DEF OrderInv
<1>7. RequestInv'
  <2>1. \A c \in Clients : pc[c] = "wait" => req[c].serial # m.serial
    BY <1>4, OneClient
  <2> QED
    BY <1>1, <1>3, <2>1 DEF RequestInv
<1> QED
  BY <1>1, <1>6, <1>7
  DEF BootInv, Running, SingleInv, AckInv, SchemaInv, Erased, NoForeignItem, ReadIsFresh

LEMMA TaskFInv ==
    ASSUME IInv, FInv, StorageTask
    PROVE  FInv'
<1> USE DEF FInv
<1>1. CASE Receive
  <2>1. /\ UnderWay' = UnderWay /\ busy' = {queue[1]}
        /\ Len(queue') = Len(queue) - 1 /\ Len(queue) > 0 /\ Len(queue) \in Nat
        /\ \A i \in 1 .. Len(queue') : i + 1 \in 1 .. Len(queue) /\ queue'[i] = queue[i + 1]
    BY <1>1, ReceiveUnderWay DEF IInv, TypeOK
  <2>2. task = "run" /\ UNCHANGED <<pc, req, result, issued, reply, flash, hash, acked, task, fw, accepted>>
    BY <1>1 DEF Receive, clientVars, flashVars
  <2>3. OrderInv'
    <3>1. \A i, j \in 1 .. Len(queue') : i < j => Before(queue'[i], queue'[j])
      BY <2>1 DEF OrderInv
    <3>2. \A i \in 1 .. Len(queue') : Before(queue[1], queue'[i])
      <4>1. 1 \in 1 .. Len(queue)
        BY <2>1
      <4>2. \A i \in 1 .. Len(queue') : 1 < i + 1
        OBVIOUS
      <4> QED
        BY <2>1, <4>1, <4>2 DEF OrderInv
    <3> QED
      BY <2>1, <2>2, <3>1, <3>2 DEF OrderInv
  <2>4. RequestInv'
    BY <2>1, <2>2 DEF RequestInv
  <2>5. SingleInv'
    BY <2>1, <2>2 DEF SingleInv
  <2> QED
    BY <2>2, <2>3, <2>4, <2>5
    DEF BootInv, Running, AckInv, SchemaInv, Erased, NoForeignItem, ReadIsFresh
<1>2. ASSUME NEW ok \in BOOLEAN, FinishStore(ok) PROVE FInv'
  <2>1. PICK m \in busy :
          /\ m.op = "store"
          /\ flash' = IF ok THEN [flash EXCEPT ![m.key] =
                                     [seq |-> m.seq, schema |-> fw.schema]]
                      ELSE flash
          /\ Signal(m, ok, 0)
    BY <1>2 DEF FinishStore
  <2>2. task = "run" /\ busy' = {}
        /\ UNCHANGED <<pc, req, result, issued, queue, hash, task, fw, accepted, acked>>
    BY <1>2 DEF FinishStore, clientVars
  <2>3. m \in Message /\ m \in UnderWay /\ flash \in [Keys -> Item] /\ UnderWay' \subseteq UnderWay
    BY <2>2 DEF IInv, TypeOK, UnderWay
  <2>4. flash' \in [Keys -> Item]
    <3>1. [seq |-> m.seq, schema |-> fw.schema] \in Item
      BY <2>3 DEF Item, IInv, TypeOK, Message
    <3> QED
      BY <2>1, <2>3, <3>1
  <2>5. \A k \in Keys : flash'[k] = flash[k]
                        \/ (k = m.key /\ ok /\ flash'[k].seq = m.seq /\ flash'[k].schema = fw.schema)
    BY <2>1, <2>3
  <2>6. OrderInv'
    BY <2>1, <2>2, <2>4, <2>5, FinishOrder
  <2>7. \A k \in Keys : flash'[k].seq >= flash[k].seq
    BY <2>3, <2>5 DEF OrderInv, Message, Item
  <2>8. ASSUME NEW k \in Keys, NEW n \in Nat, flash[k].seq >= n PROVE flash'[k].seq >= n
    BY <2>3, <2>4, <2>7, <2>8 DEF Item
  <2>9. RequestInv'
    <3> SUFFICES ASSUME NEW c \in Clients, pc[c] \in {"send", "wait"}
                 PROVE  /\ pc[c] = "wait" =>
                            /\ \A x \in UnderWay' : x.serial = req[c].serial =>
                                  x.op = req[c].op /\ x.key = req[c].key /\ x.seq = req[c].seq
                            /\ \A r \in reply' : r.serial = req[c].serial /\ r.ok =>
                                  /\ req[c].op = "read" => r.val >= req[c].floor
                                  /\ req[c].op = "store" => flash'[req[c].key].seq >= req[c].seq
                        /\ flash'[req[c].key].seq >= req[c].floor
      BY <2>2 DEF RequestInv
    <3>1. req[c].key \in Keys /\ req[c].seq \in Nat /\ req[c].floor \in Nat
      BY DEF IInv, TypeOK, Request
    <3>2. flash'[req[c].key].seq >= req[c].floor
      BY <2>2, <2>8, <3>1 DEF RequestInv
    <3>3. ASSUME pc[c] = "wait", NEW r \in reply', r.serial = req[c].serial, r.ok
          PROVE  /\ req[c].op = "read" => r.val >= req[c].floor
                 /\ req[c].op = "store" => flash'[req[c].key].seq >= req[c].seq
      <4>1. CASE r \in reply
        BY <2>2, <2>8, <3>1, <3>3, <4>1 DEF RequestInv
      <4>2. CASE r \notin reply
        <5>1. r.serial = m.serial /\ ok
          BY <2>1, <3>3, <4>2 DEF Signal
        <5>2. m.op = req[c].op /\ m.key = req[c].key /\ m.seq = req[c].seq
          BY <2>3, <3>3, <5>1 DEF RequestInv
        <5> QED
          BY <2>1, <2>3, <3>1, <5>1, <5>2
      <4> QED
        BY <4>1, <4>2
    <3> QED
      BY <2>3, <3>2, <3>3 DEF RequestInv
  <2>10. AckInv'
    BY <2>2, <2>8 DEF AckInv, IInv, TypeOK
  <2>11. SingleInv'
    BY <2>1, <2>2 DEF SingleInv, Signal
  <2>12. SchemaInv' /\ NoForeignItem'
    BY <2>2, <2>5 DEF SchemaInv, NoForeignItem, Running
  <2> QED
    BY <2>2, <2>6, <2>9, <2>10, <2>11, <2>12 DEF BootInv, Running, ReadIsFresh
<1>3. ASSUME NEW ok \in BOOLEAN, FinishRead(ok) PROVE FInv'
  <2>1. PICK m \in busy : m.op = "read" /\ Signal(m, ok, IF ok THEN flash[m.key].seq ELSE 0)
    BY <1>3 DEF FinishRead
  <2>2. task = "run" /\ busy' = {}
        /\ UNCHANGED <<pc, req, result, issued, queue, flash, hash, acked, task, fw, accepted>>
    BY <1>3 DEF FinishRead, clientVars, flashVars
  <2>3. m \in UnderWay /\ UnderWay' \subseteq UnderWay
    BY <2>2 DEF UnderWay
  <2>4. OrderInv'
    <3>1. flash \in [Keys -> Item] /\ m \in Message
      BY DEF IInv, TypeOK
    <3>2. (IF ok THEN flash[m.key].seq ELSE 0) \in Nat
      BY <3>1 DEF Item, Message
    <3> QED
      BY <2>1, <2>2, <3>1, <3>2, FinishOrder
  <2>5. RequestInv'
    <3> SUFFICES ASSUME NEW c \in Clients, pc[c] = "wait", NEW r \in reply',
                        r.serial = req[c].serial, r.ok
                 PROVE  /\ req[c].op = "read" => r.val >= req[c].floor
                        /\ req[c].op = "store" => flash[req[c].key].seq >= req[c].seq
      BY <2>2, <2>3 DEF RequestInv
    <3>1. CASE r \in reply
      BY <2>2, <3>1 DEF RequestInv
    <3>2. CASE r \notin reply
      <4>1. r.serial = m.serial /\ ok /\ r.val = flash[m.key].seq
        BY <2>1, <3>2 DEF Signal
      <4>2. m.op = req[c].op /\ m.key = req[c].key
        BY <2>3, <4>1 DEF RequestInv
      <4> QED
        BY <2>1, <2>2, <4>1, <4>2 DEF RequestInv
    <3> QED
      BY <3>1, <3>2
  <2>6. SingleInv'
    BY <2>1, <2>2 DEF SingleInv, Signal
  <2> QED
    BY <2>2, <2>4, <2>5, <2>6
    DEF BootInv, Running, AckInv, SchemaInv, Erased, NoForeignItem, ReadIsFresh
<1>4. CASE StartReset
  <2>1. task = "run" /\ task' = "wipe"
        /\ UNCHANGED <<pc, req, result, issued, queue, busy, reply, flash, hash, acked, fw, accepted>>
    BY <1>4 DEF StartReset, clientVars, flashVars
  <2> QED
    BY <2>1
    DEF OrderInv, UnderWay, RequestInv, BootInv, Running, SingleInv, AckInv, SchemaInv,
        NoForeignItem, ReadIsFresh
<1> QED
  BY <1>1, <1>2, <1>3, <1>4 DEF StorageTask

\* After a restart of the keyboard only the flash matters.
LEMMA RestartFInv ==
    ASSUME IInv, FInv, RamReset, task' = "probe", AckInv', SchemaInv',
           \A k \in Keys : flash'[k].seq <= accepted'
    PROVE  FInv'
<1>1. UnderWay' = {} /\ reply' = {}
  BY DEF RamReset, UnderWay
<1>2. \A c \in Clients : pc'[c] = "idle" /\ result'[c] = NoResult
  BY DEF RamReset
<1> QED
  BY <1>1, <1>2
  DEF RamReset, FInv, OrderInv, RequestInv, BootInv, Running, SingleInv, NoForeignItem,
      ReadIsFresh, NoResult

LEMMA BootFInv ==
    ASSUME IInv, FInv, Boot
    PROVE  FInv'
<1> USE DEF FInv
<1>1. ASSUME NEW ok \in BOOLEAN, Probe(ok) PROVE FInv'
  <2>1. UNCHANGED <<pc, req, result, issued, queue, busy, reply, flash, hash, acked, fw, accepted>>
    BY <1>1 DEF Probe, clientVars, flashVars
  <2>2. \A c \in Clients : pc[c] = "idle"
    BY <1>1 DEF Probe, BootInv, Running
  <2>3. task' = "erase" \/ (task' = "run" /\ hash = {fw.schema})
    BY <1>1 DEF Probe, SameSchema
  <2>4. SchemaInv' /\ NoForeignItem'
    BY <2>1, <2>3 DEF SchemaInv, NoForeignItem, Running
  <2> QED
    BY <1>1, <2>1, <2>2, <2>4
    DEF Probe, OrderInv, UnderWay, RequestInv, BootInv, Running, SingleInv, AckInv, ReadIsFresh
<1>2. ASSUME NEW ok \in BOOLEAN, WriteHash(ok) PROVE FInv'
  <2>1. task = "hash" /\ task' = "run" /\ (hash' = {fw.schema} \/ hash' = hash)
        /\ UNCHANGED <<pc, req, result, issued, queue, busy, reply, flash, acked, fw, accepted>>
    BY <1>2 DEF WriteHash, clientVars
  <2>2. hash = {} /\ \A k \in Keys : flash[k].seq = 0
    <3>1. Absent.seq = 0
      BY DEF Absent
    <3> QED
      BY <2>1, <3>1 DEF SchemaInv, Erased
  <2>3. \A c \in Clients : pc[c] = "idle"
    BY <2>1 DEF BootInv, Running
  <2> QED
    BY <2>1, <2>2, <2>3
    DEF OrderInv, UnderWay, RequestInv, BootInv, Running, SingleInv, AckInv, SchemaInv,
        NoForeignItem, ReadIsFresh
<1>3. CASE FinishErase
  <2>1. task = "erase" /\ task' = "hash" /\ Erased
        /\ UNCHANGED <<pc, req, result, issued, queue, busy, reply, flash, hash, acked, fw, accepted>>
    BY <1>3 DEF FinishErase, clientVars, flashVars
  <2> QED
    BY <2>1
    DEF OrderInv, UnderWay, RequestInv, BootInv, Running, SingleInv, AckInv, SchemaInv,
        Erased, NoForeignItem, ReadIsFresh
<1>4. CASE FinishReset
  <2>1. RamReset /\ task' = "probe" /\ UNCHANGED <<flash, hash, acked, fw, accepted>>
    BY <1>4 DEF FinishReset, flashVars
  <2>2. AckInv' /\ SchemaInv' /\ \A k \in Keys : flash'[k].seq <= accepted'
    BY <2>1 DEF AckInv, SchemaInv, Running, OrderInv
  <2> QED
    BY <2>1, <2>2, RestartFInv
<1>5. ASSUME NEW keys \in SUBSET Keys, NEW h \in BOOLEAN, EraseStep(keys, h) PROVE FInv'
  <2>1. task \in {"erase", "wipe"} /\ hash' \subseteq hash
        /\ UNCHANGED <<pc, req, result, issued, queue, busy, reply, task, fw, accepted>>
    BY <1>5 DEF EraseStep, EraseSome, clientVars
  <2>2. \A k \in Keys : \/ flash'[k] = flash[k] /\ acked'[k] = acked[k]
                        \/ flash'[k].seq = 0 /\ acked'[k] = 0
    BY <1>5 DEF EraseStep, EraseSome, Absent
  <2>3. \A k \in Keys : flash[k].seq \in Nat
    BY DEF IInv, TypeOK, Item
  <2>4. OrderInv'
    <3>1. \A x \in UnderWay : x.seq \in Nat
      BY UnderWayType DEF IInv, Message
    <3>2. UnderWay' = UnderWay /\ accepted \in Nat
      BY <2>1 DEF UnderWay, IInv, TypeOK
    <3>3. \A k \in Keys : \A x \in UnderWay : flash'[k].seq < x.seq
      BY <2>2, <2>3, <3>1 DEF OrderInv
    <3>4. \A k \in Keys : flash'[k].seq <= accepted
      BY <2>2, <2>3, <3>2 DEF OrderInv
    <3> QED
      BY <2>1, <3>2, <3>3, <3>4 DEF OrderInv
  <2>5. RequestInv'
    BY <2>1 DEF RequestInv, UnderWay
  <2> QED
    BY <2>1, <2>2, <2>4, <2>5
    DEF BootInv, Running, SingleInv, AckInv, SchemaInv, NoForeignItem, ReadIsFresh
<1> QED
  BY <1>1, <1>2, <1>3, <1>4, <1>5 DEF Boot

LEMMA PowerCycleFInv ==
    ASSUME IInv, FInv, NEW newFw \in [schema : Schemas, clear : BOOLEAN],
           NEW landed \in {{}, busy}, PowerCycle(newFw, landed)
    PROVE  FInv'
<1> USE DEF FInv
<1>1. RamReset /\ task' = "probe" /\ UNCHANGED <<hash, accepted, acked>>
  BY DEF PowerCycle
<1>2. CASE UNCHANGED flash
  <2>1. AckInv' /\ SchemaInv' /\ \A k \in Keys : flash'[k].seq <= accepted'
    BY <1>1, <1>2 DEF AckInv, SchemaInv, Running, OrderInv
  <2> QED
    BY <1>1, <2>1, RestartFInv
<1>3. ASSUME NEW m \in busy, task = "run",
             flash' = [flash EXCEPT ![m.key] = [seq |-> m.seq, schema |-> fw.schema]]
      PROVE  FInv'
  <2>1. m \in Message /\ m \in UnderWay /\ flash \in [Keys -> Item]
    BY DEF IInv, TypeOK, UnderWay
  <2>2. \A k \in Keys : flash'[k] = flash[k]
                        \/ (flash'[k].seq = m.seq /\ flash'[k].schema = fw.schema)
    BY <1>3, <2>1
  <2>3. AckInv'
    <3>1. \A k \in Keys : flash[k].seq < m.seq /\ flash[k].seq \in Nat /\ acked[k] \in Nat
      BY <2>1 DEF OrderInv, IInv, TypeOK, Item
    <3> QED
      BY <1>1, <2>1, <2>2, <3>1 DEF AckInv, Message
  <2>4. SchemaInv'
    BY <1>1, <1>3, <2>2 DEF SchemaInv, Running
  <2>5. \A k \in Keys : flash'[k].seq <= accepted'
    BY <1>1, <2>1, <2>2 DEF OrderInv
  <2> QED
    BY <1>1, <2>3, <2>4, <2>5, RestartFInv
<1> QED
  BY <1>2, <1>3 DEF PowerCycle

LEMMA NextFInv ==
    ASSUME IInv, FInv, [Next]_vars
    PROVE  FInv'
<1>1. CASE UNCHANGED vars
  BY <1>1
  DEF vars, FInv, OrderInv, UnderWay, RequestInv, BootInv, Running, SingleInv, AckInv,
      SchemaInv, Erased, NoForeignItem, ReadIsFresh
<1> QED
  BY <1>1, ClientFInv, UncheckedFInv, TaskFInv, BootFInv, PowerCycleFInv DEF Next

LEMMA Invariants == Spec => [](IInv /\ FInv)
<1>1. IInv /\ FInv /\ [Next]_vars => IInv' /\ FInv'
  BY NextTypeOK, NextOutstanding, NextFInv DEF IInv
<1> QED
  BY InitIInv, InitFInv, <1>1, PTL DEF Spec

\* While the keyboard runs, an acknowledged store is on flash or a newer one is, every item
\* was written by firmware of the same schema, and no read returned less than what was on
\* flash when it took the lock: whatever is cancelled, whenever the power fails, and
\* whichever firmware is flashed.
THEOREM FlashStaysTrue == Spec => []FlashIsTrue
<1>1. IInv /\ FInv => FlashIsTrue
  BY DEF IInv, FInv, AckInv, FlashIsTrue, DurableAck
<1> QED
  BY Invariants, <1>1, PTL

-----------------------------------------------------------------------------
(* The refinement: every step of the storage is a step of FlashStore or     *)
(* leaves its state alone.                                                  *)

\* A client that is not waiting, or whose reply is not there, has no answer.
LEMMA NoAnswer ==
    ASSUME NEW c \in Clients,
           pc[c] # "wait" \/ \A r \in reply : r.serial # req[c].serial
    PROVE  /\ absAnswer[c] = [ok |-> FALSE, val |-> 0]
           /\ absPhase[c] = IF pc[c] = "idle" THEN "idle" ELSE "pending"
<1>1. Answers(c) = {}
  BY DEF Answers
<1> QED
  BY <1>1 DEF absAnswer, absPhase

\* The same of the state after a step.
LEMMA NoAnswerNext ==
    ASSUME NEW c \in Clients,
           pc'[c] # "wait" \/ \A r \in reply' : r.serial # req'[c].serial
    PROVE  /\ absAnswer'[c] = [ok |-> FALSE, val |-> 0]
           /\ absPhase'[c] = IF pc'[c] = "idle" THEN "idle" ELSE "pending"
<1>1. Answers(c)' = {}
  BY DEF Answers
<1> QED
  BY <1>1 DEF absAnswer, absPhase

\* The answer of a client that waits is what the storage task signalled.
LEMMA OwnAnswer ==
    ASSUME SingleInv, NEW c \in Clients, pc[c] = "wait",
           NEW r \in reply, r.serial = req[c].serial
    PROVE  /\ absAnswer[c] = [ok |-> r.ok, val |-> r.val]
           /\ absPhase[c] = "done"
<1>1. Answers(c) = {r}
  BY DEF Answers, SingleInv
<1> QED
  BY <1>1 DEF absAnswer, absPhase

\* The same of the state after a step.
LEMMA OwnAnswerNext ==
    ASSUME NEW c \in Clients, pc'[c] = "wait",
           NEW r, reply' = {r}, r.serial = req'[c].serial
    PROVE  /\ absAnswer'[c] = [ok |-> r.ok, val |-> r.val]
           /\ absPhase'[c] = "done"
<1>1. Answers(c)' = {r}
  BY DEF Answers
<1> QED
  BY <1>1 DEF absAnswer, absPhase

\* A client that nothing happens to looks the same.
LEMMA SameClient ==
    ASSUME NEW c \in Clients, pc'[c] = pc[c], req'[c] = req[c], reply' = reply
    PROVE  absAnswer'[c] = absAnswer[c] /\ absPhase'[c] = absPhase[c]
<1>1. Answers(c)' = Answers(c)
  BY DEF Answers
<1> QED
  BY <1>1 DEF absAnswer, absPhase

\* What concerns the clients, function by function.
LEMMA SameFunctions ==
    /\ (\A c \in Clients : absPhase'[c] = absPhase[c]) => absPhase' = absPhase
    /\ (\A c \in Clients : absAnswer'[c] = absAnswer[c]) => absAnswer' = absAnswer
    /\ (\A c \in Clients : req'[c].op = req[c].op /\ req'[c].key = req[c].key)
          => absAsked' = absAsked
    /\ UNCHANGED result => absResult' = absResult
    /\ UNCHANGED flash => absStore' = absStore
BY DEF absPhase, absAnswer, absAsked, absResult, absStore

\* One client changes.
LEMMA OneChanges ==
    ASSUME NEW c \in Clients
    PROVE  /\ (\A d \in Clients \ {c} : absPhase'[d] = absPhase[d])
                 => absPhase' = [absPhase EXCEPT ![c] = absPhase'[c]]
           /\ (\A d \in Clients \ {c} : absAnswer'[d] = absAnswer[d])
                 => absAnswer' = [absAnswer EXCEPT ![c] = absAnswer'[c]]
           /\ (\A d \in Clients \ {c} : req'[d] = req[d])
                 => absAsked' = [absAsked EXCEPT ![c] = absAsked'[c]]
           /\ (\A d \in Clients \ {c} : result'[d] = result[d])
                 => absResult' = [absResult EXCEPT ![c] = absResult'[c]]
BY DEF absPhase, absAnswer, absAsked, absResult

LEMMA InitRefines == Init => Abstract!Init
<1> SUFFICES ASSUME Init PROVE Abstract!Init
  OBVIOUS
<1>1. \A c \in Clients : absPhase[c] = "idle" /\ absAnswer[c] = [ok |-> FALSE, val |-> 0]
  BY NoAnswer DEF Init
<1>2. absPhase = [c \in Clients |-> "idle"] /\ absAnswer = [c \in Clients |-> Abstract!Nothing]
  BY <1>1 DEF absPhase, absAnswer, Abstract!Nothing
<1>3. absResult = [c \in Clients |-> Abstract!NoResult] /\ \A c \in Clients : absAsked[c].op = "none"
  BY DEF Init, absResult, absAsked, NoResult, NoRequest, Abstract!NoResult
<1>4. absStore = [k \in Keys |-> 0]
  BY DEF Init, absStore, Absent
<1> QED
  BY <1>2, <1>3, <1>4 DEF Abstract!Init, Abstract!AllIdle

LEMMA ClientRefines ==
    ASSUME IInv, FInv, NEW c \in Clients, Client(c)
    PROVE  [Abstract!Next]_(Abstract!vars)
<1>1. ASSUME NEW op \in {"store", "read"}, NEW k \in Keys, Call(c, op, k)
      PROVE  Abstract!Invoke(c)
  <2>1. pc[c] = "idle" /\ pc' = [pc EXCEPT ![c] = "lock"]
        /\ req' = [req EXCEPT ![c] = [NoRequest EXCEPT !.op = op, !.key = k]]
        /\ result' = [result EXCEPT ![c] = NoResult] /\ UNCHANGED <<reply, flash>>
    BY <1>1 DEF Call
  <2>2. \A d \in Clients \ {c} : pc'[d] = pc[d] /\ req'[d] = req[d] /\ result'[d] = result[d]
    BY <2>1 DEF IInv, TypeOK
  <2>3. pc'[c] = "lock" /\ req'[c].op = op /\ req'[c].key = k /\ result'[c] = NoResult
    BY <2>1 DEF IInv, TypeOK, NoRequest
  <2>4. /\ absPhase[c] = "idle" /\ absPhase'[c] = "pending"
        /\ absAnswer[c] = absAnswer'[c]
    BY <2>1, <2>3, NoAnswer, NoAnswerNext
  <2>5. /\ absPhase' = [absPhase EXCEPT ![c] = "pending"]
        /\ absAsked' = [absAsked EXCEPT ![c] = absAsked'[c]]
        /\ absResult' = [absResult EXCEPT ![c] = absResult'[c]]
        /\ absAnswer' = absAnswer
        /\ absStore' = absStore
    BY <2>1, <2>2, <2>4, SameClient, OneChanges, SameFunctions
  <2>6. absAsked'[c].op = op /\ absAsked'[c].key = k
    BY <2>3 DEF absAsked
  <2>7. absResult'[c] = Abstract!NoResult
    <3>1. absResult'[c] = [op |-> NoResult.op, ok |-> NoResult.ok, val |-> NoResult.val]
      BY <2>3 DEF absResult
    <3> QED
      BY <3>1 DEF NoResult, Abstract!NoResult
  <2> QED
    BY <2>4, <2>5, <2>6, <2>7 DEF Abstract!Invoke
<1>2. ASSUME Lock(c) \/ Send(c) PROVE UNCHANGED Abstract!vars
  <2>1. /\ \A d \in Clients \ {c} : pc'[d] = pc[d] /\ req'[d] = req[d]
        /\ pc[c] \in {"lock", "send"} /\ pc'[c] \in {"send", "wait"}
        /\ UNCHANGED <<reply, flash, result>>
    BY <1>2 DEF Lock, Send, IInv, TypeOK
  <2>2. req'[c].op = req[c].op /\ req'[c].key = req[c].key
    <3>1. req[c] \in Request /\ req \in [Clients -> Request]
      BY DEF IInv, TypeOK
    <3>2. CASE Lock(c)
      BY <3>1, <3>2 DEF Lock, Request
    <3>3. CASE Send(c)
      BY <3>1, <3>3 DEF Send, Request
    <3> QED
      BY <1>2, <3>2, <3>3
  <2>3. pc'[c] = "wait" => \A r \in reply' : r.serial # req'[c].serial
    <3>1. CASE Send(c)
      <4>1. \A r \in reply : r.serial < issued /\ r.serial \in Nat
        BY <3>1, SerialIssued DEF Send, FInv, OrderInv
      <4>2. req'[c].serial = issued /\ issued \in Nat
        BY <3>1 DEF Send, IInv, HolderInv, TypeOK, Request
      <4> QED
        BY <2>1, <4>1, <4>2
    <3>2. CASE Lock(c)
      BY <3>2 DEF Lock, IInv, TypeOK
    <3> QED
      BY <1>2, <3>1, <3>2
  <2>4. absPhase'[c] = absPhase[c] /\ absAnswer'[c] = absAnswer[c]
    BY <2>1, <2>3, NoAnswer, NoAnswerNext
  <2>5. \A d \in Clients : absPhase'[d] = absPhase[d] /\ absAnswer'[d] = absAnswer[d]
    BY <2>1, <2>4, SameClient
  <2> QED
    BY <2>1, <2>2, <2>5, SameFunctions DEF Abstract!vars
<1>3. ASSUME TakeReply(c) PROVE Abstract!Respond(c) \/ UNCHANGED Abstract!vars
  <2>1. PICK r \in reply :
            IF Mine(r) THEN Return(c, r)
            ELSE UNCHANGED <<result, acked, pc, req, holder>>
    BY <1>3 DEF TakeReply
  <2>2. pc[c] = "wait" /\ reply' = {} /\ UNCHANGED flash
    BY <1>3 DEF TakeReply
  <2>3. \A d \in Clients \ {c} : pc[d] # "wait"
    BY <2>2, OneClient
  <2>4. CASE Mine(r)
    <3>1. r.serial = req[c].serial
      BY <2>2, <2>4, MineIsOwn
    <3>2. absAnswer[c] = [ok |-> r.ok, val |-> r.val] /\ absPhase[c] = "done"
      BY <2>2, <3>1, OwnAnswer DEF FInv
    <3>3. /\ pc' = [pc EXCEPT ![c] = "idle"]
          /\ req' = [req EXCEPT ![c] = NoRequest]
          /\ result' = [result EXCEPT ![c] =
                [op |-> req[c].op, ok |-> r.ok, val |-> r.val,
                 serial |-> req[c].serial, floor |-> req[c].floor, for |-> r.serial]]
      BY <2>1, <2>4 DEF Return
    <3>4. /\ \A d \in Clients \ {c} : pc'[d] = pc[d] /\ req'[d] = req[d] /\ result'[d] = result[d]
          /\ pc'[c] = "idle" /\ req'[c].op = "none"
          /\ result'[c].op = req[c].op /\ result'[c].ok = r.ok /\ result'[c].val = r.val
      BY <3>3 DEF IInv, TypeOK, NoRequest
    <3>5. \A d \in Clients \ {c} : absPhase'[d] = absPhase[d] /\ absAnswer'[d] = absAnswer[d]
      BY <2>3, <3>4, NoAnswer, NoAnswerNext
    <3>6. absPhase'[c] = "idle" /\ absAnswer'[c] = Abstract!Nothing
      BY <3>4, NoAnswerNext DEF Abstract!Nothing
    <3>7. /\ absPhase' = [absPhase EXCEPT ![c] = "idle"]
          /\ absAnswer' = [absAnswer EXCEPT ![c] = Abstract!Nothing]
          /\ absAsked' = [absAsked EXCEPT ![c] = absAsked'[c]]
          /\ absResult' = [absResult EXCEPT ![c] = absResult'[c]]
          /\ absStore' = absStore
      BY <2>2, <3>4, <3>5, <3>6, OneChanges, SameFunctions
    <3>8. /\ absAsked'[c].op = "none"
          /\ absResult'[c] = [op |-> absAsked[c].op, ok |-> absAnswer[c].ok,
                              val |-> absAnswer[c].val]
      BY <3>2, <3>4 DEF absAsked, absResult
    <3> QED
      BY <3>2, <3>7, <3>8 DEF Abstract!Respond, Abstract!Idle
  <2>5. CASE ~ Mine(r)
    <3>1. UNCHANGED <<result, pc, req>>
      BY <2>1, <2>5
    <3>2. \A s \in reply : s.serial # req[c].serial
      BY <2>2, <2>5, MineIsOwn DEF FInv, SingleInv
    <3>3. \A d \in Clients : absPhase'[d] = absPhase[d] /\ absAnswer'[d] = absAnswer[d]
      BY <2>2, <2>3, <3>1, <3>2, NoAnswer, NoAnswerNext
    <3> QED
      BY <2>2, <3>1, <3>3, SameFunctions DEF Abstract!vars
  <2> QED
    BY <2>4, <2>5
<1>4. ASSUME Cancel(c) PROVE Abstract!Abandon(c)
  <2>1. pc[c] # "idle" /\ pc' = [pc EXCEPT ![c] = "idle"]
        /\ req' = [req EXCEPT ![c] = NoRequest] /\ UNCHANGED <<result, reply, flash>>
    BY <1>4 DEF Cancel
  <2>2. /\ \A d \in Clients \ {c} : pc'[d] = pc[d] /\ req'[d] = req[d]
        /\ pc'[c] = "idle" /\ req'[c].op = "none"
    BY <2>1 DEF IInv, TypeOK, NoRequest
  <2>3. absPhase[c] # "idle" /\ absPhase'[c] = "idle" /\ absAnswer'[c] = Abstract!Nothing
    BY <2>1, <2>2, NoAnswerNext DEF absPhase, Abstract!Nothing
  <2>4. /\ absPhase' = [absPhase EXCEPT ![c] = "idle"]
        /\ absAnswer' = [absAnswer EXCEPT ![c] = Abstract!Nothing]
        /\ absAsked' = [absAsked EXCEPT ![c] = absAsked'[c]]
        /\ absStore' = absStore /\ absResult' = absResult
    BY <2>1, <2>2, <2>3, SameClient, OneChanges, SameFunctions
  <2>5. absAsked'[c].op = "none"
    BY <2>2 DEF absAsked
  <2> QED
    BY <2>3, <2>4, <2>5 DEF Abstract!Abandon, Abstract!Idle
<1> QED
  BY <1>1, <1>2, <1>3, <1>4 DEF Client, Abstract!Next

\* The answer the storage task signals is that of the client that waits for it, or of
\* nobody; it takes no answer away.
LEMMA AnswerRefines ==
    ASSUME IInv, FInv, NEW m \in busy, NEW ok \in BOOLEAN, NEW v \in Nat,
           Signal(m, ok, v), UNCHANGED <<pc, req, result>>
    PROVE  /\ absAsked' = absAsked /\ absResult' = absResult
           /\ \/ absPhase' = absPhase /\ absAnswer' = absAnswer
              \/ \E c \in Clients :
                    /\ absPhase[c] = "pending" /\ absPhase' = [absPhase EXCEPT ![c] = "done"]
                    /\ absAnswer' = [absAnswer EXCEPT ![c] = [ok |-> ok, val |-> v]]
                    /\ absAsked[c] = [op |-> m.op, key |-> m.key]
<1>1. absAsked' = absAsked /\ absResult' = absResult
  BY SameFunctions
<1>2. m \in UnderWay /\ m.serial \in Nat /\ m.serial <= issued /\ issued \in Nat
  BY SerialIssued DEF UnderWay, IInv, TypeOK
<1>3. \A r \in reply : m.serial = 0 \/ r.serial < m.serial
  BY <1>2 DEF FInv, OrderInv
<1>4. \A r \in reply : r.serial \in Nat
  BY DEF IInv, TypeOK, Answer
<1>5. ASSUME NEW c \in Clients, pc[c] = "wait", m.serial = req[c].serial
      PROVE  \E d \in Clients :
                /\ absPhase[d] = "pending" /\ absPhase' = [absPhase EXCEPT ![d] = "done"]
                /\ absAnswer' = [absAnswer EXCEPT ![d] = [ok |-> ok, val |-> v]]
                /\ absAsked[d] = [op |-> m.op, key |-> m.key]
  <2>1. m.serial # 0 /\ m.op = req[c].op /\ m.key = req[c].key
    BY <1>2, <1>5, OneClient DEF FInv, RequestInv
  <2>2. absPhase[c] = "pending"
    BY <1>2, <1>3, <1>4, <1>5, <2>1, NoAnswer
  <2>3. absPhase'[c] = "done" /\ absAnswer'[c] = [ok |-> ok, val |-> v]
    <3> DEFINE r == [id |-> m.id, ok |-> ok, val |-> v, serial |-> m.serial]
    <3>1. reply' = {r} /\ r.serial = req'[c].serial /\ pc'[c] = "wait"
      BY <1>5, <2>1 DEF Signal
    <3>2. r.ok = ok /\ r.val = v
      OBVIOUS
    <3> HIDE DEF r
    <3> QED
      BY <3>1, <3>2, OwnAnswerNext
  <2>4. \A d \in Clients \ {c} : absPhase'[d] = absPhase[d] /\ absAnswer'[d] = absAnswer[d]
    <3>1. \A d \in Clients \ {c} : pc[d] # "wait"
      BY <1>5, OneClient
    <3> QED
      BY <3>1, NoAnswer, NoAnswerNext
  <2>5. absAsked[c] = [op |-> m.op, key |-> m.key]
    BY <2>1 DEF absAsked
  <2> QED
    BY <2>2, <2>3, <2>4, <2>5, OneChanges
<1>6. ASSUME \A c \in Clients : pc[c] = "wait" => m.serial # req[c].serial
      PROVE  absPhase' = absPhase /\ absAnswer' = absAnswer
  <2>1. ASSUME NEW c \in Clients
        PROVE  absPhase'[c] = absPhase[c] /\ absAnswer'[c] = absAnswer[c]
    <3>1. CASE m.serial = 0 \/ pc[c] # "wait"
      BY <3>1, SameClient, NoAnswer, NoAnswerNext DEF Signal
    <3>2. CASE m.serial # 0 /\ pc[c] = "wait"
      <4>1. req[c].serial = issued
        BY <3>2, OneClient
      <4>2. \A r \in reply : r.serial # req[c].serial
        BY <1>2, <1>3, <1>4, <3>2, <4>1
      <4>3. \A r \in reply' : r.serial # req'[c].serial
        BY <1>6, <3>2 DEF Signal
      <4> QED
        BY <3>2, <4>2, <4>3, NoAnswer, NoAnswerNext
    <3> QED
      BY <3>1, <3>2
  <2> QED
    BY <2>1, SameFunctions
<1> QED
  BY <1>1, <1>5, <1>6

\* A store that lands.
LEMMA LandsRefines ==
    ASSUME IInv, FInv, NEW m \in busy,
           flash' = [flash EXCEPT ![m.key] = [seq |-> m.seq, schema |-> fw.schema]]
    PROVE  m.key \in Keys /\ Abstract!Lands(m.key)
<1>1. m \in Message /\ m \in UnderWay /\ flash \in [Keys -> Item]
  BY DEF IInv, TypeOK, UnderWay
<1>2. flash[m.key].seq < m.seq /\ m.key \in Keys /\ flash[m.key].seq \in Nat /\ m.seq \in Nat
  BY <1>1 DEF FInv, OrderInv, Message, Item
<1>3. absStore'[m.key] = m.seq /\ absStore[m.key] = flash[m.key].seq
  BY <1>1, <1>2 DEF absStore
<1>4. absStore' = [absStore EXCEPT ![m.key] = absStore'[m.key]]
  BY <1>1, <1>2, <1>3 DEF absStore
<1> QED
  BY <1>2, <1>3, <1>4 DEF Abstract!Lands

\* Nothing of what FlashStore sees changes.
LEMMA StutterRefines ==
    ASSUME UNCHANGED <<pc, req, result, reply, flash>>
    PROVE  UNCHANGED Abstract!vars
<1>1. \A c \in Clients : absPhase'[c] = absPhase[c] /\ absAnswer'[c] = absAnswer[c]
  BY SameClient
<1> QED
  BY <1>1, SameFunctions DEF Abstract!vars

LEMMA TaskRefines ==
    ASSUME IInv, FInv, StorageTask
    PROVE  [Abstract!Next]_(Abstract!vars)
<1>1. CASE Receive \/ StartReset
  BY <1>1, StutterRefines DEF Receive, StartReset, clientVars, flashVars
<1>2. ASSUME NEW ok \in BOOLEAN, FinishStore(ok) PROVE [Abstract!Next]_(Abstract!vars)
  <2>1. PICK m \in busy :
          /\ m.op = "store"
          /\ flash' = IF ok THEN [flash EXCEPT ![m.key] =
                                     [seq |-> m.seq, schema |-> fw.schema]]
                      ELSE flash
          /\ Signal(m, ok, 0)
    BY <1>2 DEF FinishStore
  <2>2. UNCHANGED <<pc, req, result>>
    BY <1>2 DEF FinishStore, clientVars
  <2>3. absAsked' = absAsked /\ absResult' = absResult
    BY <2>1, <2>2, AnswerRefines
  <2>4. IF ok THEN m.key \in Keys /\ Abstract!Lands(m.key) ELSE absStore' = absStore
    BY <2>1, LandsRefines, SameFunctions
  <2>5. CASE absPhase' = absPhase /\ absAnswer' = absAnswer
    BY <2>3, <2>4, <2>5 DEF Abstract!Next, Abstract!Background, Abstract!vars
  <2>6. ASSUME NEW c \in Clients,
               absPhase[c] = "pending", absPhase' = [absPhase EXCEPT ![c] = "done"],
               absAnswer' = [absAnswer EXCEPT ![c] = [ok |-> ok, val |-> 0]],
               absAsked[c] = [op |-> m.op, key |-> m.key]
        PROVE  Abstract!Serve(c)
    <3>1. absAsked[c].op = "store" /\ absAsked[c].key = m.key
      BY <2>1, <2>6
    <3>2. CASE ok
      BY <2>3, <2>4, <2>6, <3>1, <3>2 DEF Abstract!Serve, Abstract!Succeeds
    <3>3. CASE ~ ok
      <4>1. [ok |-> ok, val |-> 0] = Abstract!Nothing
        BY <3>3 DEF Abstract!Nothing
      <4> QED
        BY <2>3, <2>4, <2>6, <3>3, <4>1 DEF Abstract!Serve, Abstract!Fails
    <3> QED
      BY <3>2, <3>3
  <2> QED
    BY <2>1, <2>2, <2>5, <2>6, AnswerRefines DEF Abstract!Next
<1>3. ASSUME NEW ok \in BOOLEAN, FinishRead(ok) PROVE [Abstract!Next]_(Abstract!vars)
  <2> DEFINE v(m) == IF ok THEN flash[m.key].seq ELSE 0
  <2>1. PICK m \in busy : m.op = "read" /\ Signal(m, ok, v(m))
    BY <1>3 DEF FinishRead
  <2>2. UNCHANGED <<pc, req, result, flash>>
    BY <1>3 DEF FinishRead, clientVars, flashVars
  <2>3. v(m) \in Nat /\ m.key \in Keys
    BY DEF IInv, TypeOK, Message, Item
  <2>4. absAsked' = absAsked /\ absResult' = absResult /\ absStore' = absStore
    BY <2>1, <2>2, <2>3, AnswerRefines, SameFunctions
  <2>5. CASE absPhase' = absPhase /\ absAnswer' = absAnswer
    BY <2>4, <2>5 DEF Abstract!vars
  <2>6. ASSUME NEW c \in Clients,
               absPhase[c] = "pending", absPhase' = [absPhase EXCEPT ![c] = "done"],
               absAnswer' = [absAnswer EXCEPT ![c] = [ok |-> ok, val |-> v(m)]],
               absAsked[c] = [op |-> m.op, key |-> m.key]
        PROVE  Abstract!Serve(c)
    <3>1. absAsked[c].op = "read" /\ absAsked[c].key = m.key
      BY <2>1, <2>6
    <3>2. CASE ok
      <4>1. [ok |-> ok, val |-> v(m)] = [ok |-> TRUE, val |-> absStore[absAsked[c].key]]
        BY <2>3, <3>1, <3>2 DEF absStore
      <4> QED
        BY <2>4, <2>6, <3>1, <4>1 DEF Abstract!Serve, Abstract!Succeeds
    <3>3. CASE ~ ok
      <4>1. [ok |-> ok, val |-> v(m)] = Abstract!Nothing
        BY <3>3 DEF Abstract!Nothing
      <4> QED
        BY <2>4, <2>6, <4>1 DEF Abstract!Serve, Abstract!Fails
    <3> QED
      BY <3>2, <3>3
  <2> HIDE DEF v
  <2> QED
    BY <2>1, <2>2, <2>3, <2>5, <2>6, AnswerRefines DEF Abstract!Next
<1> QED
  BY <1>1, <1>2, <1>3 DEF StorageTask

\* The keyboard restarts.
LEMMA RamResetRefines == RamReset => Abstract!AllIdle'
<1> SUFFICES ASSUME RamReset PROVE Abstract!AllIdle'
  OBVIOUS
<1>1. \A c \in Clients : absPhase'[c] = "idle" /\ absAnswer'[c] = Abstract!Nothing
  BY NoAnswerNext DEF RamReset, Abstract!Nothing
<1>2. absPhase' = [c \in Clients |-> "idle"] /\ absAnswer' = [c \in Clients |-> Abstract!Nothing]
  BY <1>1 DEF absPhase, absAnswer
<1>3. absResult' = [c \in Clients |-> Abstract!NoResult]
      /\ \A c \in Clients : absAsked'[c].op = "none"
  BY DEF RamReset, absResult, absAsked, NoResult, NoRequest, Abstract!NoResult
<1> QED
  BY <1>2, <1>3 DEF Abstract!AllIdle

LEMMA BootRefines ==
    ASSUME IInv, Boot
    PROVE  [Abstract!Next]_(Abstract!vars)
<1>1. CASE FinishErase \/ \E ok \in BOOLEAN : Probe(ok) \/ WriteHash(ok)
  BY <1>1, StutterRefines DEF FinishErase, Probe, WriteHash, clientVars, flashVars
<1>2. CASE FinishReset
  BY <1>2, RamResetRefines, SameFunctions
  DEF FinishReset, flashVars, Abstract!Restart, Abstract!Next
<1>3. ASSUME NEW keys \in SUBSET Keys, NEW h \in BOOLEAN, EraseStep(keys, h)
      PROVE  Abstract!Erase
  <2>1. flash' = [k \in Keys |-> IF k \in keys THEN Absent ELSE flash[k]]
        /\ UNCHANGED <<pc, req, result, reply>>
    BY <1>3 DEF EraseStep, EraseSome, clientVars
  <2>2. \A k \in Keys : absStore'[k] \in {absStore[k], 0}
    BY <2>1 DEF absStore, Absent
  <2>3. absStore' = [k \in Keys |-> absStore'[k]]
    BY DEF absStore
  <2>4. \A c \in Clients : absPhase'[c] = absPhase[c] /\ absAnswer'[c] = absAnswer[c]
    BY <2>1, SameClient
  <2> QED
    BY <2>1, <2>2, <2>3, <2>4, SameFunctions DEF Abstract!Erase
<1> QED
  BY <1>1, <1>2, <1>3 DEF Boot, Abstract!Next

LEMMA PowerCycleRefines ==
    ASSUME IInv, FInv, NEW newFw, NEW landed \in {{}, busy}, PowerCycle(newFw, landed)
    PROVE  Abstract!Restart
<1>1. Abstract!AllIdle'
  BY RamResetRefines DEF PowerCycle
<1>2. CASE UNCHANGED flash
  BY <1>1, <1>2, SameFunctions DEF Abstract!Restart
<1>3. ASSUME NEW m \in busy,
             flash' = [flash EXCEPT ![m.key] = [seq |-> m.seq, schema |-> fw.schema]]
      PROVE  Abstract!Restart
  BY <1>1, <1>3, LandsRefines DEF Abstract!Restart
<1> QED
  BY <1>2, <1>3 DEF PowerCycle

LEMMA NextRefines ==
    ASSUME IInv, FInv, [Next]_vars
    PROVE  [Abstract!Next]_(Abstract!vars)
<1>1. CASE UNCHANGED vars
  BY <1>1, StutterRefines DEF vars
<1>2. ASSUME NEW op \in {"store", "reset"}, NEW k \in Keys, SendUnchecked(op, k)
      PROVE  UNCHANGED Abstract!vars
  BY <1>2, StutterRefines DEF SendUnchecked, clientVars, flashVars
<1> QED
  BY <1>1, <1>2, ClientRefines, TaskRefines, BootRefines, PowerCycleRefines
  DEF Next, Abstract!Next

\* The channel, the ids and the signal implement the atomic store: a request takes effect
\* once, between its call and its return, and its answer is not lost to another request.
THEOREM StorageIsAtomic == Spec => IsAtomicStore
<1>1. Init => Abstract!Init
  BY InitRefines
<1>2. IInv /\ FInv /\ [Next]_vars => [Abstract!Next]_(Abstract!vars)
  BY NextRefines
<1> QED
  BY Invariants, <1>1, <1>2, PTL DEF Spec, IsAtomicStore, Abstract!Spec

=============================================================================
