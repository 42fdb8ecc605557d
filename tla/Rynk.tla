-------------------------------- MODULE Rynk --------------------------------
(***************************************************************************)
(* The Rynk configuration protocol: a host program with its Client and     *)
(* Driver (rynk/src/driver.rs, device.rs; the elected pump of              *)
(* rynk-wasm/src/client.rs and its byte link in transport.rs), the byte    *)
(* stream in both directions, and the session that RynkService runs on the *)
(* keyboard (rmk/src/host/rynk/mod.rs) with its deframer and its lock      *)
(* (rmk/src/host/lock.rs).                                                 *)
(*                                                                         *)
(* Bytes come in units: a frame is one unit or two, the last of which      *)
(* holds the closing 0x00.                                                 *)
(***************************************************************************)
EXTENDS Integers, Sequences, FiniteSets

CONSTANTS
    MaxSlots,       \* MAX_IN_FLIGHT
    MaxSeq,         \* the last request number: u8::MAX in the code
    Buffer,         \* units in the keyboard's frame buffer, RYNK_BUFFER_SIZE
    DownCap, UpCap, \* units and frames the transport holds in each direction
    TopicCap,       \* TOPIC_QUEUE_CAPACITY
    Scenarios       \* what a behaviour may contain, see Scenario

ASSUME RynkSizes == /\ {MaxSlots, MaxSeq, DownCap, UpCap, TopicCap} \subseteq Nat \ {0}
                    /\ Buffer \in Nat /\ Buffer >= 2

Commands == {"version", "caps", "layer", "page", "poll", "lock", "gated"}

\* A behaviour: the commands called after connecting, whether one task pumps the
\* driver for the whole session (native) or the calls elect a pump (wasm), whether the
\* program pulls topics; then the bounds: calls cancelled, layer changes, changes of the
\* unlock keys, restarts of the program, units a probe left in the link, failed writes.
Scenario == [calls : Seq(Commands), resident : BOOLEAN, topic : BOOLEAN, cancel : Nat,
             changes : Nat, press : Nat, restart : Nat, junk : Nat, txerr : Nat]

ASSUME RynkScenarios == Scenarios \subseteq Scenario

\* Units of a request, and units of buffer its reply needs.
Size  == [c \in Commands |-> IF c = "page" THEN 2 ELSE 1]
Needs == [c \in Commands |-> IF c = "page" THEN 3 ELSE 1]

NoFrame  == [cmd |-> "none", seq |-> 0, era |-> 0, id |-> 0]
Unit(f, k, last) == [of |-> f, part |-> k, last |-> last]
Units(f) == [k \in 1 .. Size[f.cmd] |-> Unit(f, k, k = Size[f.cmd])]
Zero     == Unit(NoFrame, 1, TRUE)
Junk     == Unit(NoFrame, 1, FALSE)
NoReply  == [f |-> NoFrame, res |-> "none", val |-> 0]

\* Who drives Driver::run: nobody, the task of the session, the topic pull, the connect
\* call (1) or the call of a request (its number).
Nobody == 0
Resident  == 100
TopicPull == 101
Future(i) == IF i <= 2 THEN 1 ELSE i

VARIABLES
    era,        \* programs that ran before this one
    call,       \* per call: "no", "slot", "queue", "wait", "done", "err", "gone"
    owner,      \* per slot: the call that holds it, 0 when free
    free,       \* the free slots, in the order in which they came back
    slotSeq,    \* per slot: the request number it waits for
    resp,       \* per slot: the reply signalled to it
    nextSeq,    \* the next request number
    message,    \* request frame waiting for the writer
    pump,       \* who runs the driver
    phase,      \* "zero" before the lone 0x00 of this run is written, then "loop"
    sending,    \* units of the write under way
    topics,     \* topics waiting for the program
    seen,       \* the layer the program saw last
    fetched,    \* the program fetched the layer since it connected
    down, up,   \* the stream to the keyboard and from it
    dbuf,       \* the keyboard's frame buffer
    discarding, \* the deframer drops an oversized frame
    handshaked, \* topics are forwarded
    tdev,       \* the session's layer subscription
    unlocked,   \* the session's lock
    layer,      \* the keyboard's layer
    held,       \* whether all the unlock keys are down
    shown,      \* history: they were at some time of this session since the last Lock
    broken,     \* history: the session was restarted after a failed write
    left        \* the scenario and what is left of its bounds

client == <<call, owner, free, slotSeq, resp, nextSeq, message>>
driver == <<pump, phase, sending>>
view   == <<topics, seen, fetched>>
lock   == <<unlocked, shown>>
device == <<dbuf, discarding, handshaked, tdev, lock>>
world  == <<layer, held>>
vars   == <<era, client, driver, view, down, up, device, world, broken, left>>

Spend(what) == left[what] > 0 /\ left' = [left EXCEPT ![what] = @ - 1]

Calls   == 1 .. Len(left.calls) + 2
Cmd(i)  == IF i = 1 THEN "version" ELSE IF i = 2 THEN "caps" ELSE left.calls[i - 2]
Slots   == 1 .. MaxSlots
Pending(i) == call[i] \in {"slot", "queue", "wait"}
Connected  == call[1] = "done" /\ call[2] = "done"

NoCalls == [i \in Calls |-> "no"]
AllFree == [s \in Slots |-> 0]
InOrder == [k \in Slots |-> k]
NoResp  == [s \in Slots |-> NoReply]

Init ==
    /\ left \in Scenarios /\ era = 0
    /\ call = NoCalls /\ owner = AllFree /\ free = InOrder /\ slotSeq = AllFree /\ resp = NoResp
    /\ nextSeq = 1 /\ message = <<>> /\ phase = "zero" /\ sending = <<>>
    /\ topics = <<>> /\ seen = 0 /\ fetched = FALSE
    /\ pump = IF left.resident THEN Resident ELSE Nobody
    /\ down = <<>> /\ up = <<>>
    /\ dbuf = <<>> /\ discarding = FALSE /\ handshaked = FALSE /\ tdev = <<>>
    /\ unlocked = FALSE /\ shown = FALSE /\ layer = 0 /\ held = FALSE /\ broken = FALSE

\* ------------------------------------------------------------------ the client

\* A task of the program calls a request, in the order the calls are listed; the two of the
\* handshake are joined.
Call(i) ==
    /\ call[i] = "no" /\ (i > 2 => Connected)
    /\ i \notin {1, 3} => call[i - 1] \notin {"no", "slot"}
    /\ call' = [call EXCEPT ![i] = "slot"]
    /\ UNCHANGED <<era, owner, free, slotSeq, resp, nextSeq, message, driver, view, down, up, device,
                   world, broken, left>>

\* alloc_seq: 0 marks a free slot and is never used.
SeqAfter(s) == IF s = MaxSeq THEN 1 ELSE s + 1

\* request: takes the slot that was free longest, clears what its last user left and claims
\* the number.
Claim(i) ==
    /\ call[i] = "slot" /\ free # <<>>
    /\ LET s == Head(free) IN
        /\ owner' = [owner EXCEPT ![s] = i]
        /\ slotSeq' = [slotSeq EXCEPT ![s] = nextSeq]
        /\ resp' = [resp EXCEPT ![s] = NoReply]
    /\ free' = Tail(free)
    /\ nextSeq' = SeqAfter(nextSeq)
    /\ call' = [call EXCEPT ![i] = "queue"]
    /\ UNCHANGED <<era, message, driver, view, down, up, device, world, broken, left>>

SlotOf(i) == CHOOSE s \in Slots : owner[s] = i

\* send_frame: waits for the writer to take the frame before it.
Queue(i) ==
    /\ call[i] = "queue" /\ message = <<>>
    /\ message' = <<[cmd |-> Cmd(i), seq |-> slotSeq[SlotOf(i)], era |-> era, id |-> i]>>
    /\ call' = [call EXCEPT ![i] = "wait"]
    /\ UNCHANGED <<era, owner, free, slotSeq, resp, nextSeq, driver, view, down, up, device, world,
                   broken, left>>

\* SlotGuard: the slot is freed however the request ends. A full free list would lose it.
Frees(s) == /\ owner' = [owner EXCEPT ![s] = 0]
            /\ free' = IF Len(free) < MaxSlots THEN Append(free, s) ELSE free
            /\ slotSeq' = [slotSeq EXCEPT ![s] = 0]
            /\ resp' = [resp EXCEPT ![s] = NoReply]

\* drive: the call that ran the pump drops it, wherever it is, when its future resolves.
Resolves(f) == IF pump = f THEN pump' = Nobody /\ phase' = "zero" /\ UNCHANGED sending
                           ELSE UNCHANGED driver

\* The reply is decoded. connect resolves with the second of its requests.
Complete(i) ==
    /\ call[i] = "wait" /\ resp[SlotOf(i)] # NoReply
    /\ LET r == resp[SlotOf(i)] IN
       call' = [call EXCEPT ![i] = IF r.f.cmd = Cmd(i) /\ r.res = "ok" THEN "done" ELSE "err"]
    /\ Frees(SlotOf(i))
    /\ IF i <= 2 /\ Pending(3 - i) THEN UNCHANGED driver ELSE Resolves(Future(i))
    /\ UNCHANGED <<era, nextSeq, message, view, down, up, device, world, broken, left>>

\* A timeout of the program drops the request.
Cancel(i) ==
    /\ i > 2 /\ Pending(i) /\ left.resident /\ Spend("cancel")
    /\ call' = [call EXCEPT ![i] = "gone"]
    /\ IF call[i] = "slot" THEN UNCHANGED <<owner, free, slotSeq, resp>> ELSE Frees(SlotOf(i))
    /\ UNCHANGED <<era, nextSeq, message, driver, view, down, up, device, world, broken>>

TakeTopic ==
    /\ left.topic /\ Connected /\ topics # <<>>
    /\ seen' = Head(topics) /\ topics' = Tail(topics)
    /\ Resolves(TopicPull)
    /\ UNCHANGED <<era, client, fetched, down, up, device, world, broken, left>>

\* ------------------------------------------------------------------ the driver

Parked(f) == IF f = TopicPull THEN left.topic /\ Connected
                              ELSE \E i \in Calls : Future(i) = f /\ Pending(i)

\* drive: one of the parked calls gets the driver's mutex.
TakePump(f) ==
    /\ pump = Nobody /\ Parked(f)
    /\ pump' = f
    /\ UNCHANGED <<era, client, phase, sending, view, down, up, device, world, broken, left>>

\* Mutant: the zero of the run before is not drained.
WritesZero_NoDrain ==
    /\ pump # Nobody /\ phase = "zero"
    /\ phase' = "loop" /\ sending' = <<Zero>>
    /\ UNCHANGED <<era, client, pump, view, down, up, device, world, broken, left>>

\* Each run starts with a lone 0x00; a write first drains the one before it.
WritesZero ==
    /\ pump # Nobody /\ phase = "zero" /\ sending = <<>>
    /\ phase' = "loop" /\ sending' = <<Zero>>
    /\ UNCHANGED <<era, client, pump, view, down, up, device, world, broken, left>>

WritesFrame ==
    /\ pump # Nobody /\ phase = "loop" /\ sending = <<>> /\ message # <<>>
    /\ sending' = Units(Head(message)) /\ message' = <<>>
    /\ UNCHANGED <<era, call, owner, free, slotSeq, resp, nextSeq, pump, phase, view, down, up, device,
                   world, broken, left>>

\* The transport takes a unit; a write that was started goes on without its driver.
Carries ==
    /\ sending # <<>> /\ Len(down) < DownCap
    /\ down' = Append(down, Head(sending)) /\ sending' = Tail(sending)
    /\ UNCHANGED <<era, client, pump, phase, view, up, device, world, broken, left>>

\* Mutant: a full queue drops the new entry.
Queued_DropNewest(q, v) == IF Len(q) < TopicCap THEN Append(q, v) ELSE q

\* A full topic queue loses its oldest entry.
Queued(q, v) == Append(IF Len(q) < TopicCap THEN q ELSE Tail(q), v)

\* Mutant: a reply goes to the oldest waiter.
WaiterFor_First(r) == {s \in Slots : owner[s] # 0 /\ \A t \in Slots : owner[t] # 0 => s <= t}

\* The slot a reply goes to: the first that waits for its number, none for 0.
WaiterFor(r) ==
    {s \in Slots : /\ r.f.seq # 0 /\ slotSeq[s] = r.f.seq
                   /\ \A t \in Slots : slotSeq[t] = r.f.seq => s <= t}

Reads ==
    /\ pump # Nobody /\ up # <<>>
    /\ up' = Tail(up)
    /\ LET r == Head(up) IN
       IF r.res = "topic"
       THEN topics' = Queued(topics, r.val) /\ UNCHANGED <<resp, seen, fetched>>
       ELSE LET to == WaiterFor(r)
                fresh == /\ \E s \in to : Cmd(owner[s]) = "layer" /\ r.f.cmd = "layer"
                         /\ r.res = "ok" IN
            /\ resp' = [s \in Slots |-> IF s \in to THEN r ELSE resp[s]]
            /\ fetched' = (fetched \/ fresh)
            /\ seen' = IF fresh /\ topics = <<>> THEN r.val ELSE seen
            /\ UNCHANGED topics
    /\ UNCHANGED <<era, call, owner, free, slotSeq, nextSeq, message, driver, down, device, world,
                   broken, left>>

\* The program ends and is started again: its write is cut short, the keyboard does not
\* notice, and the system keeps or drops what it had not read.
ProgramRestarts ==
    /\ Spend("restart")
    /\ era' = era + 1
    /\ call' = NoCalls /\ owner' = AllFree /\ free' = InOrder /\ slotSeq' = AllFree /\ resp' = NoResp
    /\ nextSeq' = 1 /\ message' = <<>> /\ phase' = "zero" /\ sending' = <<>>
    /\ topics' = <<>> /\ seen' = 0 /\ fetched' = FALSE
    /\ pump' = IF left.resident THEN Resident ELSE Nobody
    /\ up' \in {up, <<>>}
    /\ UNCHANGED <<down, device, world, broken>>

\* A probe of the port by the operating system.
Probe ==
    /\ Spend("junk") /\ call[1] = "no" /\ phase = "zero" /\ Len(down) < DownCap
    /\ down' = Append(down, Junk)
    /\ UNCHANGED <<era, client, driver, view, up, device, world, broken>>

\* ---------------------------------------------------------------- the keyboard

\* The first frame of a buffer: where it ends (0 when it is not complete).
EndOf(b) == IF \E k \in DOMAIN b : b[k].last
            THEN CHOOSE k \in DOMAIN b : b[k].last /\ \A j \in 1 .. k - 1 : ~b[j].last
            ELSE 0
FrameAt(b) == SubSeq(b, 1, EndOf(b))
Rest(b)    == SubSeq(b, EndOf(b) + 1, Len(b))

\* Deframer::next without a complete frame: a full buffer can never complete one, and
\* while its frame is dropped every unit is dead on arrival.
Kept(b, drop) ==
    IF EndOf(b) = 0 /\ (drop \/ Len(b) = Buffer)
    THEN dbuf' = <<>> /\ discarding' = TRUE
    ELSE dbuf' = b /\ discarding' = drop

\* A read takes any part of what the transport holds that there is room for.
DeviceReads ==
    /\ EndOf(dbuf) = 0
    /\ \E n \in 1 .. Len(down) :
        /\ n <= Buffer - Len(dbuf)
        /\ Kept(dbuf \o SubSeq(down, 1, n), discarding)
        /\ down' = SubSeq(down, n + 1, Len(down))
    /\ UNCHANGED <<era, client, driver, view, up, handshaked, tdev, lock, world, broken, left>>

\* Whole requests are dispatched; a damaged one that still shows a header is answered
\* with Malformed or, like stray delimiters, skipped.
Whole(u)   == u[1].of # NoFrame /\ u = Units(u[1].of)
Damaged(u) == u[1].of # NoFrame /\ u[1].part = 1 /\ ~Whole(u)

\* dispatch: GetMatrixState and its like need an unlocked session. A reply that does not
\* fit beside the parked requests becomes Busy.
Result(c, parked) ==
    IF c = "gated" /\ ~unlocked THEN "locked"
    ELSE IF Needs[c] > Buffer - parked THEN "busy" ELSE "ok"

\* HostLock: poll unlocks when all the keys are held, lock locks.
LockAfter(c) == /\ unlocked' = CASE c = "poll" -> unlocked \/ held
                                 [] c = "lock" -> FALSE
                                 [] OTHER      -> unlocked
                /\ shown' = IF c = "lock" THEN held ELSE shown

\* Mutant: all sessions share one lock.
Restarts_SharedLock ==
    /\ down' = <<>> /\ dbuf' = <<>> /\ discarding' = FALSE /\ handshaked' = FALSE
    /\ tdev' = <<>> /\ unlocked' = unlocked /\ shown' = held /\ broken' = TRUE
    /\ UNCHANGED up

\* run returns after a failed write and is started again: the transport's buffer is
\* cleared, and the session is a new one with a lock of its own.
Restarts ==
    /\ down' = <<>> /\ dbuf' = <<>> /\ discarding' = FALSE /\ handshaked' = FALSE
    /\ tdev' = <<>> /\ unlocked' = FALSE /\ shown' = held /\ broken' = TRUE
    /\ UNCHANGED up

Answers(r) ==
    /\ Len(up) < UpCap /\ up' = Append(up, r)
    /\ UNCHANGED <<down, tdev, broken, left>>

\* One turn of the loop that serves the frames of the buffer: the frames behind this one
\* are parked while its reply is built and written, then restored.
Serve ==
    /\ EndOf(dbuf) # 0
    /\ LET u == FrameAt(dbuf)
           f == u[1].of
           rest == Rest(dbuf) IN
       \/ /\ discarding \/ ~Whole(u)
          /\ Kept(rest, FALSE)
          /\ UNCHANGED <<up, down, handshaked, tdev, lock, broken, left>>
       \/ /\ ~discarding /\ Damaged(u)
          /\ Kept(rest, FALSE) /\ Answers([f |-> f, res |-> "malformed", val |-> 0])
          /\ UNCHANGED <<handshaked, lock>>
       \/ /\ ~discarding /\ Whole(u)
          /\ LockAfter(f.cmd) /\ Kept(rest, FALSE)
          /\ handshaked' = (handshaked \/ f.cmd = "caps")
          /\ Answers([f |-> f, res |-> Result(f.cmd, Len(rest)), val |-> layer])
       \/ /\ ~discarding /\ Whole(u) /\ Spend("txerr")
          /\ Restarts
    /\ UNCHANGED <<era, client, driver, view, world>>

\* Topics wait for a half-received frame, and are dropped before the handshake.
Forward ==
    /\ tdev # <<>> /\ dbuf = <<>>
    /\ tdev' = Tail(tdev)
    /\ IF handshaked
       THEN Len(up) < UpCap /\ up' = Append(up, [f |-> NoFrame, res |-> "topic", val |-> Head(tdev)])
       ELSE UNCHANGED up
    /\ UNCHANGED <<era, client, driver, view, down, dbuf, discarding, handshaked, lock, world,
                   broken, left>>

LayerChanges ==
    /\ Spend("changes")
    /\ layer' = layer + 1 /\ tdev' = <<layer + 1>>
    /\ UNCHANGED <<era, client, driver, view, down, up, dbuf, discarding, handshaked, lock, held,
                   broken>>

KeysChange ==
    /\ Spend("press")
    /\ held' = ~held /\ shown' = (shown \/ ~held)
    /\ UNCHANGED <<era, client, driver, view, down, up, dbuf, discarding, handshaked, tdev, unlocked,
                   layer, broken>>

Next ==
    \/ \E i \in Calls : Call(i) \/ Claim(i) \/ Queue(i) \/ Complete(i) \/ Cancel(i)
    \/ \E i \in Calls \union {TopicPull} : TakePump(i)
    \/ TakeTopic \/ WritesZero \/ WritesFrame \/ Carries \/ Reads \/ ProgramRestarts \/ Probe
    \/ DeviceReads \/ Serve \/ Forward \/ LayerChanges \/ KeysChange

Spec == Init /\ [][Next]_vars

\* The tasks of the program and of the keyboard run, the stream moves; when the program
\* calls, cancels or restarts, and what the user does, is not fair. connect makes both of
\* its requests.
FairSpec ==
    /\ Spec
    /\ WF_vars(Call(2))
    /\ \A i \in 1 .. 5 : WF_vars(i \in Calls /\ (Claim(i) \/ Queue(i) \/ Complete(i)))
    /\ WF_vars(\E f \in Calls \union {TopicPull} : TakePump(f))
    /\ WF_vars(TakeTopic) /\ WF_vars(WritesZero) /\ WF_vars(WritesFrame) /\ WF_vars(Carries)
    /\ WF_vars(Reads) /\ WF_vars(DeviceReads) /\ WF_vars(Serve) /\ WF_vars(Forward)

\* ---------------------------------------------------------------- properties

Frame == [cmd : Commands \union {"none"}, seq : 0 .. MaxSeq, era : Nat, id : Nat]
Reply == [f : Frame, res : {"none", "ok", "busy", "locked", "malformed", "topic"}, val : Nat]
Stream == Seq([of : Frame, part : 1 .. 2, last : BOOLEAN])

\* Types; a slot waits for a number, never the 0 of a free one, exactly while a call holds it,
\* and the buffers stay within their sizes.
TypeOK ==
    /\ \A i \in Calls : call[i] \in {"no", "slot", "queue", "wait", "done", "err", "gone"}
    /\ owner \in [Slots -> Calls \union {0}] /\ slotSeq \in [Slots -> 0 .. MaxSeq]
    /\ \A s \in Slots : owner[s] # 0 <=> slotSeq[s] # 0
    /\ free \in Seq(Slots) /\ resp \in [Slots -> Reply] /\ nextSeq \in 1 .. MaxSeq
    /\ message \in Seq(Frame) /\ Len(message) <= 1
    /\ pump \in Calls \union {Nobody, Resident, TopicPull} /\ phase \in {"zero", "loop"}
    /\ {sending, down, dbuf} \subseteq Stream
    /\ Len(down) <= DownCap /\ Len(dbuf) < Buffer + 1
    /\ up \in Seq(Reply) /\ Len(up) <= UpCap
    /\ topics \in Seq(Nat) /\ Len(topics) <= TopicCap /\ tdev \in Seq(Nat)
    /\ {fetched, discarding, handshaked, unlocked, held, shown, broken} \subseteq BOOLEAN
    /\ {era, seen, layer} \subseteq Nat /\ left \in Scenario

\* A reply reaches the request it answers: never another request of the program, also when
\* a request was cancelled or the numbers start again, and never one of another command
\* when it answers a request of an earlier program.
RepliesMatch ==
    \A s \in Slots : resp[s] # NoReply =>
        /\ owner[s] # 0 /\ resp[s].f.cmd = Cmd(owner[s])
        /\ resp[s].f.era = era => resp[s].f.id = owner[s]

\* Every request is answered, however the calls hand the pump to each other, the stream is
\* cut into reads, requests queue up behind others and the last program left half a frame
\* (unless the keyboard's session was restarted: a host has no way to see that).
EveryRequestAnswered ==
    \A i \in 1 .. 5 : (i \in Calls /\ Pending(i)) ~> (i \notin Calls \/ ~Pending(i) \/ broken)

\* connect succeeds, whatever a probe or an earlier program left in the stream.
ConnectSucceeds == (call[1] = "wait") ~> (Connected \/ call[1] = "no" \/ broken)

\* A program that fetched the layer once after connecting and listens to the topics knows
\* the layer when nothing is under way: what it misses is never the newest change.
TopicsCatchUp ==
    (fetched /\ up = <<>> /\ tdev = <<>> /\ ~broken)
        => layer = IF topics = <<>> THEN seen ELSE topics[Len(topics)]

\* No slot is lost and none is handed out twice, however requests end: the free list holds
\* every slot that no request holds, once, and so always has room for one that comes back
\* (SlotGuard), and a request holds one slot.
SlotsAreWhole ==
    /\ \A s \in Slots : owner[s] = 0 <=> \E k \in DOMAIN free : free[k] = s
    /\ \A j, k \in DOMAIN free : free[j] = free[k] => j = k
    /\ \A s, t \in Slots : owner[s] = owner[t] /\ owner[s] # 0 => s = t

\* No two requests wait for the same number, also when the numbers start again (alloc_seq).
NumbersAreDistinct == \A s, t \in Slots : slotSeq[s] = slotSeq[t] /\ slotSeq[s] # 0 => s = t

\* Nothing of another request or program is taken for the own: slots, numbers and replies
\* (SlotGuard, alloc_seq, Driver::run).
NothingInherited == TypeOK /\ SlotsAreWhole /\ NumbersAreDistinct /\ RepliesMatch

\* A gated request is served only to a session during which somebody held the unlock keys, since
\* it was last locked: neither a new session nor a locked one profits from keys that were held
\* and let go before (HostLock, run_session).
GatedNeedsPresence ==
    [][LET r == up'[Len(up')] IN
       Len(up') > Len(up) /\ r.f.cmd = "gated" /\ r.res = "ok" => shown]_up

\* Requests and the handshake are answered (Driver::run, run_session).
RequestsSucceed == EveryRequestAnswered /\ ConnectSucceeds

=============================================================================
