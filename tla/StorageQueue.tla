---------------------------- MODULE StorageQueue ----------------------------
(***************************************************************************)
(* The flash task of rmk/src/storage/mod.rs and the tasks that use it.     *)
(*                                                                         *)
(* Every task of the keyboard that persists something sends a message over *)
(* the bounded FIFO FLASH_CHANNEL.  store() and read() wait for the answer *)
(* in the single-slot signal REPLY: the mutex REQUEST_ID hands out a u8 id *)
(* and is held until the answer arrives, so one request waits at a time.   *)
(* A request's future may be dropped at any await (a host session is       *)
(* cancelled when its connection ends), which leaves a message, and later  *)
(* a reply, that nobody waits for.                                         *)
(*                                                                         *)
(* The payload of a store is abstracted to its place in the order in which *)
(* the channel accepted the messages, so "newer" is a comparison of        *)
(* numbers.  serial, seq, acked and floor are history: the code has no     *)
(* such state and no guard reads it, except the named bounds.              *)
(***************************************************************************)
EXTENDS Naturals, Sequences, FiniteSets

CONSTANTS
    Clients,        \* tasks that call store() and read() and wait
    Keys,           \* storage keys (StorageKey)
    Schemas,        \* values of SCHEMA_HASH of the firmwares ever flashed
    QueueSize,      \* FLASH_CHANNEL_SIZE
    IdModulus,      \* number of request ids: 256 for the code's u8
    MaxIssued,      \* bound: requests issued since boot
    MaxAccepted,    \* bound: messages accepted by the channel
    MaxBoots        \* bound: power cycles, reboots and reflashes

ASSUME SetsAssumption == Keys # {} /\ Schemas # {}
ASSUME SizesAssumption ==
    /\ QueueSize \in Nat \ {0}
    /\ IdModulus \in Nat \ {0, 1}
    /\ MaxIssued \in Nat
    /\ MaxAccepted \in Nat
    /\ MaxBoots \in Nat

VARIABLES
    pc,         \* where each client is inside request()
    req,        \* the request each client is making
    result,     \* what request() last returned to each client
    holder,     \* the clients that hold REQUEST_ID: none or one
    requestId,  \* the u8 inside REQUEST_ID
    queue,      \* FLASH_CHANNEL
    busy,       \* the messages the storage task has received: none or one
    reply,      \* REPLY: none or one signalled answer
    flash,      \* what each key holds on flash
    hash,       \* the schema hashes on flash: none or one
    task,       \* what the storage task is doing
    fw,         \* the firmware: its schema and its clear_storage option
    issued,     \* history: requests that took the lock since boot
    accepted,   \* history: messages the channel accepted
    acked,      \* history: newest store of each key answered Ok since the last erase
    boots       \* bound: boots so far

clientVars == <<pc, req, result, holder, requestId, issued>>
flashVars  == <<flash, hash, acked>>
vars == <<pc, req, result, holder, requestId, queue, busy, reply, flash, hash,
          task, fw, issued, accepted, acked, boots>>

Ids == 0 .. IdModulus - 1

\* A message on FLASH_CHANNEL.  serial = 0: sent by store_unchecked or reset,
\* with no id to answer under.
Message == [op : {"store", "read", "reset"}, key : Keys, id : Ids,
            serial : Nat, seq : Nat]

\* An answer in REPLY: the id, and Ok with the value read or Err.
Answer == [id : Ids, ok : BOOLEAN, val : Nat, serial : Nat]

\* What a key holds: the store that wrote it and the firmware's schema.
Item == [seq : Nat, schema : Schemas]

Absent == [seq |-> 0, schema |-> CHOOSE s \in Schemas : TRUE]

NoRequest == [op |-> "none", key |-> CHOOSE k \in Keys : TRUE,
              serial |-> 0, seq |-> 0, floor |-> 0]
NoResult  == [op |-> "none", ok |-> FALSE, val |-> 0, serial |-> 0, floor |-> 0,
              for |-> 0]

Request == [op : {"none", "store", "read"}, key : Keys, serial : Nat,
            seq : Nat, floor : Nat]
Result  == [op : {"none", "store", "read"}, ok : BOOLEAN, val : Nat,
            serial : Nat, floor : Nat, for : Nat]

TypeOK ==
    /\ pc \in [Clients -> {"idle", "lock", "send", "wait"}]
    /\ req \in [Clients -> Request]
    /\ result \in [Clients -> Result]
    /\ holder \in SUBSET Clients
    /\ requestId \in Ids
    /\ queue \in Seq(Message)
    /\ Len(queue) <= QueueSize
    /\ busy \in SUBSET Message
    /\ reply \in SUBSET Answer
    /\ flash \in [Keys -> Item]
    /\ hash \in SUBSET Schemas
    /\ task \in {"probe", "erase", "hash", "run", "wipe"}
    /\ fw \in [schema : Schemas, clear : BOOLEAN]
    /\ issued \in Nat
    /\ accepted \in Nat
    /\ acked \in [Keys -> Nat]
    /\ boots \in Nat

Init ==
    /\ pc = [c \in Clients |-> "idle"]
    /\ req = [c \in Clients |-> NoRequest]
    /\ result = [c \in Clients |-> NoResult]
    /\ holder = {}
    /\ requestId = 0
    /\ queue = <<>>
    /\ busy = {}
    /\ reply = {}
    /\ flash = [k \in Keys |-> Absent]
    /\ hash = {}
    /\ task = "probe"
    /\ fw \in [schema : Schemas, clear : BOOLEAN]
    /\ issued = 0
    /\ accepted = 0
    /\ acked = [k \in Keys |-> 0]
    /\ boots = 0

\* The other tasks start when Storage::new has returned; they still run while
\* the storage task erases the flash for a Reset.
Running == task \in {"run", "wipe"}

Room == Len(queue) < QueueSize

\* Mutant: the newest message is taken first.
Enqueue_Front(m) == queue' = <<m>> \o queue

\* The channel is FIFO.
Enqueue(m) == queue' = Append(queue, m)

-----------------------------------------------------------------------------
(* The clients: request(), called by store() and read().                   *)

\* The call: store(item) or read(key).  Nothing happens before the first poll.
Call(c, op, k) ==
    /\ Running
    /\ pc[c] = "idle"
    /\ pc' = [pc EXCEPT ![c] = "lock"]
    /\ req' = [req EXCEPT ![c] = [NoRequest EXCEPT !.op = op, !.key = k]]
    /\ result' = [result EXCEPT ![c] = NoResult]
    /\ UNCHANGED <<holder, requestId, issued, queue, busy, reply, flash, hash,
                   task, fw, accepted, acked, boots>>

\* Requests sent and not answered to a waiting client: in the channel, in the
\* storage task's hands, or in the signal.
Outstanding ==
    {queue[i].serial : i \in DOMAIN queue} \union {m.serial : m \in busy}
        \union {r.serial : r \in reply}

\* Bound on cancellations: fewer than IdModulus requests take an id while one
\* older request is still unanswered.  With a u8 that takes 256 cancellations
\* during the flash operations of one full queue.
WithinWindow == \A s \in Outstanding : s = 0 \/ issued + 1 - s < IdModulus

\* wrapping_add(1) on the u8.
NextId == (requestId + 1) % IdModulus

\* REQUEST_ID.lock().await and the wrapping increment.
Lock(c) ==
    /\ pc[c] = "lock"
    /\ holder = {}
    /\ issued < MaxIssued
    /\ WithinWindow
    /\ holder' = {c}
    /\ requestId' = NextId
    /\ issued' = issued + 1
    /\ req' = [req EXCEPT ![c] =
                  [@ EXCEPT !.serial = issued + 1, !.floor = flash[req[c].key].seq]]
    /\ pc' = [pc EXCEPT ![c] = "send"]
    /\ UNCHANGED <<result, queue, busy, reply, flash, hash, task, fw, accepted,
                   acked, boots>>

\* poll_ready_to_send and try_send, which succeeds as no await separates them.
Send(c) ==
    /\ pc[c] = "send"
    /\ Room
    /\ accepted < MaxAccepted
    /\ accepted' = accepted + 1
    /\ Enqueue([op |-> req[c].op, key |-> req[c].key, id |-> requestId,
                serial |-> req[c].serial, seq |-> accepted + 1])
    /\ req' = [req EXCEPT ![c] = [@ EXCEPT !.seq = accepted + 1]]
    /\ pc' = [pc EXCEPT ![c] = "wait"]
    /\ UNCHANGED <<result, holder, requestId, issued, busy, reply, flash, hash,
                   task, fw, acked, boots>>

\* Mutant: any reply is taken for one's own.
Mine_Any(r) == TRUE

\* replied == *id
Mine(r) == r.id = requestId

\* The answer is the client's: request() returns it and drops the lock.
Return(c, r) ==
    /\ result' = [result EXCEPT ![c] =
            [op |-> req[c].op, ok |-> r.ok, val |-> r.val,
             serial |-> req[c].serial, floor |-> req[c].floor, for |-> r.serial]]
    /\ acked' = IF req[c].op = "store" /\ r.ok /\ task = "run"
                THEN [acked EXCEPT ![req[c].key] = req[c].seq]
                ELSE acked
    /\ pc' = [pc EXCEPT ![c] = "idle"]
    /\ req' = [req EXCEPT ![c] = NoRequest]
    /\ holder' = {}

\* One pass of the loop over REPLY.wait(): the answer is taken out of the
\* signal; one under another id is dropped and the client waits on.
TakeReply(c) ==
    /\ pc[c] = "wait"
    /\ \E r \in reply :
         IF Mine(r) THEN Return(c, r)
         ELSE UNCHANGED <<result, acked, pc, req, holder>>
    /\ reply' = {}
    /\ UNCHANGED <<requestId, issued, queue, busy, flash, hash, task, fw,
                   accepted, boots>>

\* The future is dropped at an await: the mutex guard goes with it, a message
\* already sent stays.
Cancel(c) ==
    /\ pc[c] # "idle"
    /\ pc' = [pc EXCEPT ![c] = "idle"]
    /\ req' = [req EXCEPT ![c] = NoRequest]
    /\ holder' = holder \ {c}
    /\ UNCHANGED <<result, requestId, issued, queue, busy, reply, flash, hash,
                   task, fw, accepted, acked, boots>>

\* store_unchecked(item) and reset(): send and forget, any task, no lock.
SendUnchecked(op, k) ==
    /\ Running
    /\ Room
    /\ accepted < MaxAccepted
    /\ accepted' = accepted + 1
    /\ Enqueue([op |-> op, key |-> k, id |-> 0, serial |-> 0,
                seq |-> accepted + 1])
    /\ UNCHANGED <<clientVars, busy, reply, flashVars, task, fw, boots>>

-----------------------------------------------------------------------------
(* The storage task: Storage::run.                                         *)

\* FLASH_CHANNEL.receive().await
Receive ==
    /\ task = "run"
    /\ busy = {}
    /\ queue # <<>>
    /\ busy' = {Head(queue)}
    /\ queue' = Tail(queue)
    /\ UNCHANGED <<clientVars, reply, flashVars, task, fw, accepted, boots>>

\* Mutant: a failure is not answered.
Signal_OkOnly(m, ok, val) ==
    reply' = IF m.serial = 0 \/ ~ ok THEN reply
             ELSE {[id |-> m.id, ok |-> ok, val |-> val, serial |-> m.serial]}

\* REPLY.signal: replaces an answer nobody took; nothing for a message sent
\* without an id.
Signal(m, ok, val) ==
    reply' = IF m.serial = 0 THEN reply
             ELSE {[id |-> m.id, ok |-> ok, val |-> val, serial |-> m.serial]}

\* put(item): the item lands, or the write fails and leaves the old one.
FinishStore(ok) ==
    /\ task = "run"
    /\ \E m \in busy :
         /\ m.op = "store"
         /\ flash' = IF ok THEN [flash EXCEPT ![m.key] =
                                    [seq |-> m.seq, schema |-> fw.schema]]
                     ELSE flash
         /\ Signal(m, ok, 0)
    /\ busy' = {}
    /\ UNCHANGED <<clientVars, queue, hash, task, fw, accepted, acked, boots>>

\* fetch(key): the value, absent (0), or a flash error.
FinishRead(ok) ==
    /\ task = "run"
    /\ \E m \in busy :
         /\ m.op = "read"
         /\ Signal(m, ok, IF ok THEN flash[m.key].seq ELSE 0)
    /\ busy' = {}
    /\ UNCHANGED <<clientVars, queue, flashVars, task, fw, accepted, boots>>

\* Reset: erase_all starts; the tasks of the keyboard go on until the reboot.
StartReset ==
    /\ task = "run"
    /\ \E m \in busy : m.op = "reset"
    /\ task' = "wipe"
    /\ UNCHANGED <<clientVars, queue, busy, reply, flashVars, fw, accepted, boots>>

\* The RAM state of a freshly booted keyboard.
RamReset ==
    /\ pc' = [c \in Clients |-> "idle"]
    /\ req' = [c \in Clients |-> NoRequest]
    /\ result' = [c \in Clients |-> NoResult]
    /\ holder' = {}
    /\ requestId' = 0
    /\ issued' = 0
    /\ queue' = <<>>
    /\ busy' = {}
    /\ reply' = {}

\* One step of an erase, in sector order: the items of some keys go, and the
\* schema hash goes with the sector it is in.
EraseSome(keys, h) ==
    /\ flash' = [k \in Keys |-> IF k \in keys THEN Absent ELSE flash[k]]
    /\ acked' = [k \in Keys |-> IF k \in keys THEN 0 ELSE acked[k]]
    /\ hash' = IF h THEN {} ELSE hash

Erased == hash = {} /\ \A k \in Keys : flash[k] = Absent

EraseStep(keys, h) ==
    /\ task \in {"erase", "wipe"}
    /\ ~ Erased
    /\ EraseSome(keys, h)
    /\ UNCHANGED <<clientVars, queue, busy, reply, task, fw, accepted, boots>>

\* erase_all has returned: reboot_keyboard.
FinishReset ==
    /\ task = "wipe"
    /\ Erased
    /\ RamReset
    /\ task' = "probe"
    /\ UNCHANGED <<flashVars, fw, accepted, boots>>

-----------------------------------------------------------------------------
(* Boot: Storage::new.                                                     *)

\* Mutant: a missing hash keeps the flash too.
SameSchema_OrMissing == hash \subseteq {fw.schema}

\* Ok(Some(StorageConfig(schema_hash))) with schema_hash == SCHEMA_HASH
SameSchema == hash = {fw.schema}

\* The stored schema hash decides whether the flash is kept.  fetchOk = FALSE:
\* the read failed, which the code treats like a missing hash.
Probe(fetchOk) ==
    /\ task = "probe"
    /\ task' = IF fw.clear \/ ~ fetchOk \/ ~ SameSchema
               THEN "erase" ELSE "run"
    /\ UNCHANGED <<clientVars, queue, busy, reply, flashVars, fw, accepted, boots>>

\* raw.erase has returned.
FinishErase ==
    /\ task = "erase"
    /\ Erased
    /\ task' = "hash"
    /\ UNCHANGED <<clientVars, queue, busy, reply, flashVars, fw, accepted, boots>>

\* put(StorageConfig(SCHEMA_HASH)), whose failure is ignored.
WriteHash(ok) ==
    /\ task = "hash"
    /\ hash' = IF ok THEN {fw.schema} ELSE hash
    /\ task' = "run"
    /\ UNCHANGED <<clientVars, queue, busy, reply, flash, acked, fw, accepted, boots>>

\* Power loss, reset button or a newly flashed firmware, at any step.  A store
\* in progress has landed or not.
PowerCycle(newFw, landed) ==
    /\ boots < MaxBoots
    /\ boots' = boots + 1
    /\ RamReset
    /\ task' = "probe"
    /\ fw' = newFw
    /\ \/ landed = {} /\ UNCHANGED flash
       \/ \E m \in landed :
            /\ task = "run"
            /\ m.op = "store"
            /\ flash' = [flash EXCEPT ![m.key] =
                            [seq |-> m.seq, schema |-> fw.schema]]
    /\ UNCHANGED <<hash, accepted, acked>>

StorageTask ==
    \/ Receive
    \/ \E ok \in BOOLEAN : FinishStore(ok) \/ FinishRead(ok)
    \/ StartReset

Boot ==
    \/ \E ok \in BOOLEAN : Probe(ok) \/ WriteHash(ok)
    \/ FinishErase
    \/ FinishReset
    \/ \E keys \in SUBSET Keys, h \in BOOLEAN : EraseStep(keys, h)

Client(c) ==
    \/ \E op \in {"store", "read"}, k \in Keys : Call(c, op, k)
    \/ Lock(c)
    \/ Send(c)
    \/ TakeReply(c)
    \/ Cancel(c)

Next ==
    \/ \E c \in Clients : Client(c)
    \/ \E op \in {"store", "reset"}, k \in Keys : SendUnchecked(op, k)
    \/ StorageTask
    \/ Boot
    \/ \E newFw \in [schema : Schemas, clear : BOOLEAN] :
         PowerCycle(newFw, {}) \/ PowerCycle(newFw, busy)

Spec == Init /\ [][Next]_vars

\* The executor polls the storage task whenever the channel wakes it, and a
\* client whenever REPLY is signalled.
Fairness ==
    /\ WF_vars(StorageTask)
    /\ \A c \in Clients : WF_vars(TakeReply(c))

FairSpec == Spec /\ Fairness

-----------------------------------------------------------------------------
\* request() returns the answer to its own message, never the one a cancelled
\* predecessor left in REPLY ("skip it by id", request()).
ReplyIsOwn == \A c \in Clients : result[c].for = result[c].serial

\* What read() returns is at least as new as what was on flash when the
\* request took the lock: a stale answer does not undo a write seen before.
ReadIsFresh ==
    \A c \in Clients :
        result[c].op = "read" /\ result[c].ok => result[c].val >= result[c].floor

\* A store answered Ok "has landed on flash" (store()): while the keyboard
\* runs, power cycles included, the key holds that store or a newer one.
DurableAck ==
    task = "run" => \A k \in Keys : flash[k].seq >= acked[k]

\* Whatever is on flash when the keyboard runs was written by firmware with
\* the same schema, wherever the power failed during the erase at boot.
NoForeignItem ==
    Running => \A k \in Keys : flash[k].seq # 0 => flash[k].schema = fw.schema

\* Every request that was sent is answered (or abandoned, or the keyboard is
\* rebooted): its answer is never overwritten, dropped or taken by another.
WaitersAreAnswered ==
    \A c \in Clients : pc[c] = "wait" ~> (pc[c] # "wait" \/ task = "wipe")

-----------------------------------------------------------------------------
(* The abstract store *)

\* The answer of the request c waits for, once the storage task has signalled it.
Answers(c) == {r \in reply : pc[c] = "wait" /\ r.serial = req[c].serial}

\* The state of FlashStore that this state stands for.
absStore  == [k \in Keys |-> flash[k].seq]
absPhase  == [c \in Clients |-> IF pc[c] = "idle" THEN "idle"
                                ELSE IF Answers(c) = {} THEN "pending" ELSE "done"]
absAsked  == [c \in Clients |-> [op |-> req[c].op, key |-> req[c].key]]
absAnswer == [c \in Clients |-> IF Answers(c) = {} THEN [ok |-> FALSE, val |-> 0]
                                ELSE LET r == CHOOSE x \in Answers(c) : TRUE
                                     IN [ok |-> r.ok, val |-> r.val]]
absResult == [c \in Clients |-> [op |-> result[c].op, ok |-> result[c].ok,
                                 val |-> result[c].val]]

Abstract == INSTANCE FlashStore WITH
    store <- absStore, phase <- absPhase, asked <- absAsked, answer <- absAnswer,
    result <- absResult

\* The queue, the ids and the signal implement FlashStore: a request that returns took
\* effect once, between its call and its return, and returns the answer of that moment;
\* the answer, once signalled, is never lost to another request (request() and
\* Storage::run).
IsAtomicStore == Abstract!Spec

\* What the flash holds while the keyboard runs is what was acknowledged and its own, and
\* what read() returns is no older; ids, queue and signal stay within their types.
FlashIsTrue == TypeOK /\ DurableAck /\ NoForeignItem /\ ReadIsFresh

=============================================================================
