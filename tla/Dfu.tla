-------------------------------- MODULE Dfu ---------------------------------
(* Firmware updates of a split keyboard: the USB download proxy of the central
   (usb/dfu.rs), the flash handlers of both halves and the download lock
   (dfu/mod.rs), the update of a peripheral over the split link by its manager
   (split/dfu.rs) and the peripheral's side of it (split/peripheral.rs).

   A download over USB is a sequence of commands on a publish/subscribe queue
   that the flash handler, the manager and the lock each read at their own
   pace; the proxy never waits, and the host is held back by GETSTATUS answering
   "busy" until every subscriber has read everything.  The split link is a
   serial line: frames are lost, arrive unreadable or, because nothing but the
   frame markers protects them, arrive with other bytes in them.

   The faults, the downloads of the host and the features of the build are
   drawn at the start from Scenarios and used up from `left`.                *)
EXTENDS DfuFlash, Sequences

CONSTANTS PerBlock,   \* chunks of one USB block
          Retries,    \* MAX_RETRIES of a chunk
          Attempts,   \* MAX_ATTEMPTS of an automatic update
          Scenarios   \* what may happen in a run, see Scenario

ASSUME DfuAssumption ==
    PerBlock \in Nat \ {0} /\ Retries \in Nat \ {0} /\ Attempts \in Nat \ {0}

Scenario == [auto: {"none", "match", "force"},  \* firmware registered for the peripheral, and the policy
             target: {"central", "forward"},    \* the alternate setting the host downloads to
             downloads: Nat,                    \* times the host starts a download
             lose: Nat, junk: Nat,              \* frames lost or unreadable; frames with changed bytes
             late: Nat,                         \* deadlines that pass while an answer is on its way
             flash: Nat,                        \* flash operations that fail
             power: Nat,                        \* power cuts, of either half
             reset: Nat,                        \* SystemReset requests of the host
             lock: BOOLEAN, keys: Nat]          \* the dfu_lock feature; times the unlock keys are held

VARIABLES left, host, queue, cflash, mgr, down, up, board, lock
vars == <<left, host, queue, cflash, mgr, down, up, board, lock>>

Blocks == (Chunks - 1) \div PerBlock + 1
BlockEnd(b) == IF b * PerBlock > Chunks THEN Chunks ELSE b * PerBlock

Subs == {"flash", "mgr", "lock"}
QueueCap == 4   \* channel_size of DfuCmdEvent
Cmd(k, b) == [k |-> k, b |-> b]
Cmds == [k: {"start", "write", "finish", "reset", "unlock"}, b: 0..Blocks]

Msg(k, n, d) == [k |-> k, n |-> n, d |-> d]
Msgs == [k: {"query", "hash", "chunk", "ack", "complete", "crc", "crcOk", "crcFail",
             "confirm", "reset", "err"},
         n: 0..Chunks, d: {"new", "bad"}]
Plain(k) == Msg(k, 0, "new")

Spend(what) == left[what] > 0 /\ left' = [left EXCEPT ![what] = @ - 1]

-----------------------------------------------------------------------------
(* The command queue.                                                        *)

\* publish_event never waits: the slowest reader loses its oldest message.
Pushed(s, c) == IF Len(s) < QueueCap THEN Append(s, c) ELSE Append(Tail(s), c)
Publish(q, c) == [u \in Subs |-> IF u = "lock" /\ ~left.lock THEN q[u] ELSE Pushed(q[u], c)]
Taken(u) == queue' = [queue EXCEPT ![u] = Tail(@)]
QueueEmpty == \A u \in Subs : queue[u] = <<>>

-----------------------------------------------------------------------------
(* The host and the proxy.  host.sent is the last block handed over, 0 when no
   download is open; done holds once Finish was accepted.                    *)

NoDownload == [sent |-> 0, done |-> FALSE]

\* proxy.write and proxy.finish: a failed flash write is reported to the host
\* once, by refusing the request, and the host gives up.
Refused ==
    /\ cflash.h.failed
    /\ cflash' = [cflash EXCEPT !.h.failed = FALSE]
    /\ host' = NoDownload

\* The first block, from a host that asks for the status first: dfu_lock_check,
\* Start and the write are one request.
HostStarts ==
    /\ QueueEmpty
    /\ Spend("downloads")
    /\ IF lock.locked
       THEN /\ queue' = Publish(queue, Cmd("unlock", 0))
            /\ host' = NoDownload
            /\ UNCHANGED cflash
       ELSE LET q == Publish(queue, Cmd("start", 0))
            IN \/ Refused /\ queue' = q
               \/ /\ ~cflash.h.failed
                  /\ queue' = Publish(q, Cmd("write", 1))
                  /\ host' = [sent |-> 1, done |-> FALSE]
                  /\ UNCHANGED cflash
    /\ UNCHANGED <<mgr, down, up, board, lock>>

\* The next block, once GETSTATUS no longer says busy.
HostWrites ==
    /\ host.sent \in 1..Blocks - 1 /\ QueueEmpty
    /\ \/ Refused /\ UNCHANGED queue
       \/ /\ ~cflash.h.failed
          /\ queue' = Publish(queue, Cmd("write", host.sent + 1))
          /\ host' = [host EXCEPT !.sent = @ + 1]
          /\ UNCHANGED cflash
    /\ UNCHANGED <<left, mgr, down, up, board, lock>>

HostFinishes ==
    /\ host.sent = Blocks /\ ~host.done /\ QueueEmpty
    /\ \/ Refused /\ UNCHANGED queue
       \/ /\ ~cflash.h.failed
          /\ queue' = Publish(queue, Cmd("finish", 0))
          /\ host' = [host EXCEPT !.done = TRUE]
          /\ UNCHANGED cflash
    /\ UNCHANGED <<left, mgr, down, up, board, lock>>

HostResets ==
    /\ host.done
    /\ Spend("reset")
    /\ queue' = Publish(queue, Cmd("reset", 0))
    /\ host' = NoDownload
    /\ UNCHANGED <<cflash, mgr, down, up, board, lock>>

-----------------------------------------------------------------------------
(* A boot of the central: everything in RAM is lost, what arrived on the serial
   line included.                                                            *)

FreshManager == [pc |-> "start", mode |-> "auto", c |-> 0, end |-> 0, try |-> 0,
                 attempt |-> 0, sum |-> 0, aborted |-> FALSE, told |-> "none"]

CentralBoots(running, cells) ==
    /\ cflash' = [h |-> Booted(cells), busy |-> 0, running |-> running]
    /\ queue' = [u \in Subs |-> <<>>]
    /\ host' = NoDownload
    /\ mgr' = FreshManager
    /\ up' = <<>>
    /\ lock' = [pc |-> "idle", locked |-> left.lock]
    /\ UNCHANGED <<down, board>>

CentralLosesPower == Spend("power") /\ CentralBoots(cflash.running, cflash.h.cells)

-----------------------------------------------------------------------------
(* FlashDfuHandler of the central.  busy is the block being written: the queue
   is empty again while it is.                                               *)

FlashReads(k) == /\ cflash.busy = 0 /\ queue["flash"] # <<>> /\ left.target = "central"
                 /\ Head(queue["flash"]).k = k
FlashOnly == UNCHANGED <<left, host, mgr, down, up, board, lock>>

FlashSkips ==
    /\ queue["flash"] # <<>>
    /\ left.target # "central" \/ FlashReads("unlock")
    /\ Taken("flash")
    /\ UNCHANGED cflash /\ FlashOnly

FlashStarts ==
    /\ FlashReads("start") /\ Taken("flash")
    /\ cflash' = [cflash EXCEPT !.h = Started(@)]
    /\ FlashOnly

FlashTakes ==
    /\ FlashReads("write") /\ Taken("flash")
    /\ cflash' = [cflash EXCEPT !.busy = Head(queue["flash"]).b]
    /\ FlashOnly

BlockChunks(b) == (b - 1) * PerBlock + 1 .. BlockEnd(b)

\* write_chunk of a whole block, when all of it can be written.
BlockWritten(h, b) ==
    LET W[c \in 0..Chunks] ==
            IF c <= (b - 1) * PerBlock THEN h ELSE Written(W[c - 1], c, "new")
    IN  W[BlockEnd(b)]

FlashWrites ==
    /\ cflash.busy # 0
    /\ \/ /\ cflash' = [cflash EXCEPT !.h = BlockWritten(@, cflash.busy), !.busy = 0]
          /\ UNCHANGED left
       \/ /\ Spend("flash")
          /\ \E c \in BlockChunks(cflash.busy) : \E h \in FailedWrites(cflash.h, c) :
                 cflash' = [cflash EXCEPT !.h = h, !.busy = 0]
    /\ UNCHANGED <<host, queue, mgr, down, up, board, lock>>

\* Mutant: the noted write failure is not looked at.
FlashFinishes_NoCheck ==
    /\ FlashReads("finish")
    /\ MayBeSane(cflash.h)
    /\ CentralBoots(Swapped(cflash.h), Stale)
    /\ UNCHANGED left

\* Finish: a write failure is only cleared; a partition that does not look like
\* a program sets the flag; otherwise the central boots it.
FlashFinishes ==
    /\ FlashReads("finish")
    /\ \/ /\ cflash.h.failed
          /\ Taken("flash")
          /\ cflash' = [cflash EXCEPT !.h.failed = FALSE]
          /\ FlashOnly
       \/ /\ ~cflash.h.failed /\ MayBeInsane(cflash.h)
          /\ Taken("flash")
          /\ cflash' = [cflash EXCEPT !.h.failed = TRUE]
          /\ FlashOnly
       \/ /\ ~cflash.h.failed /\ MayBeSane(cflash.h)
          /\ CentralBoots(Swapped(cflash.h), Stale)
          /\ UNCHANGED left

FlashResets ==
    /\ FlashReads("reset")
    /\ CentralBoots(cflash.running, cflash.h.cells)
    /\ UNCHANGED left

-----------------------------------------------------------------------------
(* DfuLock.                                                                  *)

Relocked == [pc |-> "idle", locked |-> TRUE]

LockIdle ==
    /\ lock.pc = "idle" /\ queue["lock"] # <<>>
    /\ Taken("lock")
    /\ lock' = IF Head(queue["lock"]).k = "unlock" THEN [lock EXCEPT !.pc = "poll"] ELSE lock
    /\ UNCHANGED <<left, host, cflash, mgr, down, up, board>>

\* The matrix is polled for 10 s; nothing is read from the queue meanwhile.
LockOpens ==
    /\ lock.pc = "poll"
    /\ Spend("keys")
    /\ lock' = [pc |-> "open", locked |-> FALSE]
    /\ UNCHANGED <<host, queue, cflash, mgr, down, up, board>>

LockGivesUp ==
    /\ lock.pc = "poll"
    /\ lock' = [lock EXCEPT !.pc = "idle"]
    /\ UNCHANGED <<left, host, queue, cflash, mgr, down, up, board>>

\* Ten seconds for the download to start: any other command ends the wait.
LockHears ==
    /\ lock.pc = "open" /\ queue["lock"] # <<>>
    /\ Taken("lock")
    /\ lock' = IF Head(queue["lock"]).k = "start" THEN [lock EXCEPT !.pc = "load"] ELSE Relocked
    /\ UNCHANGED <<left, host, cflash, mgr, down, up, board>>

\* The download: writes keep it open, whatever else comes closes it.
LockFollows ==
    /\ lock.pc = "load" /\ queue["lock"] # <<>>
    /\ Taken("lock")
    /\ lock' = IF Head(queue["lock"]).k = "write" THEN lock ELSE Relocked
    /\ UNCHANGED <<left, host, cflash, mgr, down, up, board>>

\* Ten seconds without a start, thirty without a write.
LockExpires ==
    /\ lock.pc \in {"open", "load"} /\ queue["lock"] = <<>>
    /\ lock' = Relocked
    /\ UNCHANGED <<left, host, queue, cflash, mgr, down, up, board>>

-----------------------------------------------------------------------------
(* PeripheralManager: the automatic update (mode "auto") and the download of
   the host that it passes through (mode "pass").
     c, end    the chunk being sent and the last one of this image or block
     sum       chunks counted in passthrough_crc
     told      the last DfuStatus the manager published                      *)

Loop(m) == [m EXCEPT !.pc = "loop"]
Told(m, what) == [m EXCEPT !.told = what]

\* The next try of m.c.
Sends(m) == /\ mgr' = [m EXCEPT !.pc = "ack"]
            /\ down' = Append(down, Msg("chunk", m.c, "new"))

Ends(m) == mgr' = Loop(m) /\ UNCHANGED down

Attempt(m, n) ==
    IF n > Attempts THEN Ends(Told(m, "Error"))
    ELSE Sends(Told([m EXCEPT !.mode = "auto", !.attempt = n, !.c = 1, !.end = Chunks, !.try = 0],
                    "Started"))

Update == Attempt(mgr, 1)

\* check_firmware_update, once after the start of the manager.
MgrChecks ==
    /\ mgr.pc = "start"
    /\ CASE left.auto = "none"  -> Ends(mgr)
         [] left.auto = "force" -> Update
         [] left.auto = "match" -> /\ mgr' = [mgr EXCEPT !.pc = "hash"]
                                   /\ down' = Append(down, Plain("query"))
    /\ UNCHANGED <<left, host, queue, cflash, up, board, lock>>

\* A hash that differs from the registered firmware's starts an update.
Compare(d) == IF d = "new" THEN Ends(mgr) ELSE Update

MgrReads(pc) == mgr.pc = pc /\ up # <<>> /\ up' = Tail(up)

\* A deadline passes when the peripheral has nothing more to say, or while its
\* answer is still on the way.
Elapsed == IF up = <<>> /\ down = <<>> THEN UNCHANGED left ELSE Spend("late")
Deadline(pcs) ==
    /\ mgr.pc \in pcs
    /\ Elapsed
    /\ UNCHANGED up

MgrHash ==
    /\ \/ /\ MgrReads("hash") /\ UNCHANGED left
          /\ CASE Head(up).k = "hash" -> Compare(Head(up).d)
               [] Head(up).k = "err"  -> Update
               [] OTHER               -> UNCHANGED <<mgr, down>>
       \/ Deadline({"hash"}) /\ Update
    /\ UNCHANGED <<host, queue, cflash, board, lock>>

\* The main loop: handle_proactive_hash, and answers that come too late.
MgrHears ==
    /\ MgrReads("loop")
    /\ IF Head(up).k = "hash" /\ left.auto # "none" THEN Compare(Head(up).d)
       ELSE UNCHANGED <<mgr, down>>
    /\ UNCHANGED <<left, host, queue, cflash, board, lock>>

\* handle_dfu_event.
MgrTakes ==
    /\ mgr.pc = "loop" /\ queue["mgr"] # <<>>
    /\ Taken("mgr")
    /\ LET c == Head(queue["mgr"]) IN
       IF left.target # "forward" \/ c.k = "unlock" \/ (mgr.aborted /\ c.k \in {"write", "finish"})
       THEN UNCHANGED <<mgr, down>>
       ELSE CASE c.k = "start"  -> /\ mgr' = [mgr EXCEPT !.sum = 0, !.aborted = FALSE]
                                   /\ UNCHANGED down
              [] c.k = "write"  -> Sends([mgr EXCEPT !.mode = "pass", !.try = 0, !.sum = @ + 1,
                                              !.c = (c.b - 1) * PerBlock + 1, !.end = BlockEnd(c.b)])
              [] c.k = "finish" -> /\ mgr' = [mgr EXCEPT !.mode = "pass", !.pc = "report"]
                                   /\ down' = Append(down, Plain("complete"))
              [] c.k = "reset"  -> /\ mgr' = [mgr EXCEPT !.aborted = FALSE]
                                   /\ down' = Append(down, Plain("reset"))
    /\ UNCHANGED <<left, host, cflash, up, board, lock>>

\* The chunk was acknowledged with the right CRC.
Acked ==
    IF mgr.c < mgr.end
    THEN Sends([mgr EXCEPT !.c = @ + 1, !.try = 0,
                           !.sum = IF mgr.mode = "pass" THEN @ + 1 ELSE @])
    ELSE IF mgr.mode = "pass" THEN Ends(mgr)
    ELSE /\ mgr' = [mgr EXCEPT !.pc = "report"]
         /\ down' = Append(down, Plain("complete"))

\* A wrong CRC, an unreadable frame or the deadline.
TryFailed ==
    IF mgr.try + 1 < Retries THEN Sends([mgr EXCEPT !.try = @ + 1]) /\ UNCHANGED cflash
    ELSE IF mgr.mode = "auto" THEN Attempt(mgr, mgr.attempt + 1) /\ UNCHANGED cflash
    ELSE /\ Ends(Told([mgr EXCEPT !.aborted = TRUE], "Error"))
         /\ cflash' = [cflash EXCEPT !.h.failed = TRUE]

MgrAck ==
    /\ \/ /\ MgrReads("ack") /\ UNCHANGED left
          /\ LET m == Head(up) IN
             CASE m.k = "ack" /\ m.n = mgr.c /\ m.d = "new" -> Acked /\ UNCHANGED cflash
               [] m.k = "ack" /\ m.n = mgr.c /\ m.d # "new" -> TryFailed
               [] m.k = "err"                               -> TryFailed
               [] OTHER -> UNCHANGED <<mgr, down, cflash>>
       \/ Deadline({"ack"}) /\ TryFailed
    /\ UNCHANGED <<host, queue, board, lock>>

\* The CRC the peripheral read back from its partition; the one of a passed
\* through download is taken once.
CrcTaken == IF mgr.mode = "pass" THEN [mgr EXCEPT !.sum = 0] ELSE mgr
Expected == IF mgr.mode = "auto" THEN ImageCrc ELSE [n |-> mgr.sum, d |-> "new"]

\* Mutant: only the length of what was written is compared.
Confirmed_Length(crc) ==
    IF crc.n = Expected.n
    THEN /\ mgr' = [mgr EXCEPT !.pc = "confirm"]
         /\ down' = Append(down, Plain("crcOk"))
    ELSE /\ mgr' = Loop(Told(mgr, "Error"))
         /\ down' = Append(down, Plain("crcFail"))

\* Mutant: a wrong CRC ends the update.
Confirmed_GivesUp(crc) ==
    IF crc = Expected
    THEN /\ mgr' = [mgr EXCEPT !.pc = "confirm"]
         /\ down' = Append(down, Plain("crcOk"))
    ELSE /\ mgr' = Loop(Told(mgr, "Error"))
         /\ down' = Append(down, Plain("crcFail"))

Confirmed(crc) ==
    IF crc = Expected
    THEN /\ mgr' = [CrcTaken EXCEPT !.pc = "confirm"]
         /\ down' = Append(down, Plain("crcOk"))
    ELSE IF mgr.mode = "pass" \/ mgr.attempt = Attempts
         THEN /\ mgr' = Loop(Told(CrcTaken, "Error"))
              /\ down' = Append(down, Plain("crcFail"))
    ELSE /\ mgr' = Told([mgr EXCEPT !.pc = "ack", !.attempt = @ + 1, !.c = 1, !.try = 0], "Started")
         /\ down' = down \o <<Plain("crcFail"), Msg("chunk", 1, "new")>>

NoReport ==
    IF mgr.mode = "auto" THEN Attempt(mgr, mgr.attempt + 1)
    ELSE /\ mgr' = Loop(Told(CrcTaken, "Error"))
         /\ down' = Append(down, Plain("crcFail"))

\* Mutant: the report of the peripheral is waited for without a deadline.
MgrReport_NoDeadline ==
    /\ MgrReads("report") /\ UNCHANGED left
    /\ CASE Head(up).k = "crc" -> Confirmed([n |-> Head(up).n, d |-> Head(up).d])
         [] Head(up).k = "err" -> NoReport
         [] OTHER              -> UNCHANGED <<mgr, down>>
    /\ UNCHANGED <<host, queue, cflash, board, lock>>

MgrReport ==
    /\ \/ /\ MgrReads("report") /\ UNCHANGED left
          /\ CASE Head(up).k = "crc" -> Confirmed([n |-> Head(up).n, d |-> Head(up).d])
               [] Head(up).k = "err" -> NoReport
               [] OTHER              -> UNCHANGED <<mgr, down>>
       \/ Deadline({"report"}) /\ NoReport
    /\ UNCHANGED <<host, queue, cflash, board, lock>>

MgrConfirm ==
    /\ \/ /\ MgrReads("confirm") /\ UNCHANGED left
          /\ mgr' = CASE Head(up).k = "confirm" -> Loop(Told(mgr, "Finished"))
                      [] Head(up).k = "err"     -> Loop(mgr)
                      [] OTHER                  -> mgr
       \/ Deadline({"confirm"}) /\ mgr' = Loop(Told(mgr, "Error"))
    /\ UNCHANGED <<host, queue, cflash, down, board, lock>>

-----------------------------------------------------------------------------
(* The peripheral: its main loop and, because the loop waits for each answer of
   its flash handler, the handler's part in the same step.  Only Finish is
   handed over without waiting: finish holds until the handler takes it.     *)

Announce(b) == Msg("hash", 0, IF b.running = "new" THEN "new" ELSE "bad")

BoardBoots(running, cells) ==
    /\ board' = [pc |-> "main", h |-> Booted(cells), finish |-> FALSE, running |-> running]
    /\ down' = <<>>
    /\ up' = Append(up, Announce(board'))

BoardLosesPower ==
    /\ Spend("power")
    /\ BoardBoots(board.running, board.h.cells)
    /\ UNCHANGED <<host, queue, cflash, mgr, lock>>

BoardReads(pc) == board.pc = pc /\ down # <<>>
Answers(m) == down' = Tail(down) /\ up' = Append(up, m)
Silent == down' = Tail(down) /\ UNCHANGED up

\* FirmwareChunk: the first one of an image opens the session.  The
\* acknowledgement carries the CRC of what arrived, whatever the flash said.
BoardWrites ==
    /\ BoardReads("main") /\ Head(down).k = "chunk" /\ ~board.finish
    /\ LET m == Head(down)
           h == IF m.n = 1 THEN Started(board.h) ELSE board.h
       IN /\ \/ board' = [board EXCEPT !.h = Written(h, m.n, IF m.d = "new" THEN "new" ELSE "bad")]
                /\ UNCHANGED left
             \/ /\ Spend("flash")
                /\ \E g \in FailedWrites(h, m.n) : board' = [board EXCEPT !.h = g]
          /\ Answers(Msg("ack", m.n, m.d))
    /\ UNCHANGED <<host, queue, cflash, mgr, lock>>

\* FirmwareUpdateComplete: read the partition back and wait for the verdict.
BoardReports ==
    /\ BoardReads("main") /\ Head(down).k = "complete" /\ ~board.finish
    /\ \/ /\ Answers(Msg("crc", Crc(board.h).n, Crc(board.h).d))
          /\ board' = [board EXCEPT !.pc = "verdict"]
          /\ UNCHANGED left
       \/ Spend("flash") /\ Silent /\ UNCHANGED board
    /\ UNCHANGED <<host, queue, cflash, mgr, lock>>

BoardAnswers ==
    /\ BoardReads("main") /\ Head(down).k \in {"query", "crcOk", "crcFail", "err"}
    /\ IF Head(down).k = "query" THEN Answers(Announce(board)) ELSE Silent
    /\ UNCHANGED <<left, host, queue, cflash, mgr, board, lock>>

BoardResets ==
    /\ BoardReads("main") /\ Head(down).k = "reset"
    /\ BoardBoots(board.running, board.h.cells)
    /\ UNCHANGED <<left, host, queue, cflash, mgr, lock>>

BoardHearsVerdict ==
    /\ BoardReads("verdict")
    /\ CASE Head(down).k = "crcOk" -> /\ board' = [board EXCEPT !.pc = "main", !.finish = TRUE]
                                      /\ Answers(Plain("confirm"))
         [] Head(down).k \in {"crcFail", "err"} -> board' = [board EXCEPT !.pc = "main"] /\ Silent
         [] OTHER -> UNCHANGED board /\ Silent
    /\ UNCHANGED <<left, host, queue, cflash, mgr, lock>>

\* Five seconds without a verdict.
BoardGivesUp ==
    /\ board.pc = "verdict"
    /\ Elapsed
    /\ board' = [board EXCEPT !.pc = "main"]
    /\ UNCHANGED <<host, queue, cflash, mgr, down, up, lock>>

\* Finish(Local) in the handler: with a write failure noted it only clears it.
BoardFinishes ==
    /\ board.finish
    /\ \/ /\ board.h.failed
          /\ board' = [board EXCEPT !.finish = FALSE, !.h.failed = FALSE]
          /\ UNCHANGED <<down, up>>
       \/ /\ ~board.h.failed /\ MayBeInsane(board.h)
          /\ board' = [board EXCEPT !.finish = FALSE, !.h.failed = TRUE]
          /\ UNCHANGED <<down, up>>
       \/ /\ ~board.h.failed /\ MayBeSane(board.h)
          /\ BoardBoots(Swapped(board.h), Stale)
    /\ UNCHANGED <<left, host, queue, cflash, mgr, lock>>

-----------------------------------------------------------------------------
(* The serial line.                                                          *)

Lost(s) == {Tail(s), <<Plain("err")>> \o Tail(s)}
HasBytes(m) == m.k \in {"chunk", "ack", "crc"}

LinkLoses ==
    /\ Spend("lose")
    /\ \/ down # <<>> /\ down' \in Lost(down) /\ UNCHANGED up
       \/ up # <<>> /\ up' \in Lost(up) /\ UNCHANGED down
    /\ UNCHANGED <<host, queue, cflash, mgr, board, lock>>

LinkChanges ==
    /\ Spend("junk")
    /\ \/ down # <<>> /\ HasBytes(Head(down)) /\ down' = [down EXCEPT ![1].d = "bad"] /\ UNCHANGED up
       \/ up # <<>> /\ HasBytes(Head(up)) /\ up' = [up EXCEPT ![1].d = "bad"] /\ UNCHANGED down
    /\ UNCHANGED <<host, queue, cflash, mgr, board, lock>>

-----------------------------------------------------------------------------
Init ==
    /\ left \in Scenarios
    /\ host = NoDownload
    /\ queue = [u \in Subs |-> <<>>]
    /\ cflash = [h |-> Booted(Stale), busy |-> 0, running |-> "old"]
    /\ mgr = FreshManager
    /\ board = [pc |-> "main", h |-> Booted(Stale), finish |-> FALSE, running |-> "old"]
    /\ down = <<>>
    /\ up = <<Announce(board)>>
    /\ lock = [pc |-> "idle", locked |-> left.lock]

Host   == HostStarts \/ HostWrites \/ HostFinishes \/ HostResets
Flash  == FlashSkips \/ FlashTakes \/ FlashStarts \/ FlashWrites \/ FlashFinishes \/ FlashResets
Lock   == LockIdle \/ LockOpens \/ LockGivesUp \/ LockHears \/ LockFollows \/ LockExpires
Manager == MgrChecks \/ MgrHash \/ MgrHears \/ MgrTakes \/ MgrAck \/ MgrReport \/ MgrConfirm
Board  == BoardWrites \/ BoardReports \/ BoardAnswers \/ BoardResets
            \/ BoardHearsVerdict \/ BoardGivesUp \/ BoardFinishes
Faults == CentralLosesPower \/ BoardLosesPower \/ LinkLoses \/ LinkChanges

Next == Host \/ Flash \/ Lock \/ Manager \/ Board \/ Faults

\* The tasks of both halves keep running; the host and the faults owe nothing.
Spec == Init /\ [][Next]_vars
FairSpec == Spec /\ WF_vars(Flash) /\ WF_vars(Lock) /\ WF_vars(Manager)
                 /\ WF_vars(Board)

-----------------------------------------------------------------------------
TypeOK ==
    /\ host \in [sent: 0..Blocks, done: BOOLEAN]
    /\ queue \in [Subs -> Seq(Cmds)] /\ \A u \in Subs : Len(queue[u]) <= QueueCap
    /\ cflash.h \in Handler /\ cflash.running \in {"old", "new", "bad"}
    /\ cflash.busy \in 0..Blocks
    /\ mgr \in [pc: {"start", "loop", "hash", "ack", "report", "confirm"}, mode: {"auto", "pass"},
                c: 0..Chunks, end: 0..Chunks, try: 0..Retries - 1, attempt: 0..Attempts,
                sum: 0..Chunks, aborted: BOOLEAN, told: {"none", "Started", "Error", "Finished"}]
    /\ down \in Seq(Msgs) /\ up \in Seq(Msgs)
    /\ board.pc \in {"main", "verdict"} /\ board.h \in Handler
    /\ board.finish \in BOOLEAN /\ board.running \in {"old", "new", "bad"}
    /\ lock.pc \in {"idle", "poll", "open", "load"} /\ lock.locked \in BOOLEAN

\* Whatever the line, the flash and the power do, the bootloader of neither half
\* is ever told to boot a partition that is not the whole image: the chunks that
\* were not written, were written over one another, or went to a page that was
\* erased again after a power cut are found by the read-back CRC on the
\* peripheral and by the noted write failure on the central.
OnlyWholeImagesBoot == cflash.running # "bad" /\ board.running # "bad"

Whole(b) == b.running = "new" \/ \A c \in 1..Chunks : b.h.cells[c] = "new"

\* The manager says Finished only about a peripheral that has the image, in its
\* partition or running already.
FinishedIsVerified ==
    [][mgr.told # "Finished" /\ mgr'.told = "Finished" => Whole(board)]_vars

\* An update the manager reported as finished is booted, whatever the line did
\* to it.  (A write that failed before it was repeated, a power cut or a reset
\* the host asks for do lose it: the peripheral confirms before its flash
\* handler looks at the write failures.)
FinishedIsBooted ==
    [](left.flash = 0 /\ left.power = 0 /\ left.reset = 0) =>
        (mgr.told = "Finished" ~> board.running = "new")

\* The attempts of an automatic update repair any single fault: a frame lost or
\* changed, a deadline missed, a flash operation that failed, a power cut.  When
\* the manager reports an error, only the answer was lost.
FaultCount == left.lose + left.junk + left.late + left.flash + left.power
OneFaultIsRepaired ==
    [](FaultCount <= 1 /\ left.downloads = 0 /\ left.auto # "none")
        => [](mgr.told = "Error" => Whole(board))

\* Every wait ends: the manager is back in its loop and the peripheral in its
\* own, whatever was lost.
UpdateSettles == <>[](mgr.pc = "loop" /\ board.pc = "main")

\* The lock closes again after every unlocking, also when the download never
\* starts, stalls or is cut short.
RelocksEventually == ~lock.locked ~> (lock.locked \/ ~left.lock)

\* The doc of DfuLock: once unlocked, the host has ten seconds to begin; the
\* lock is not engaged again by anything else.
UnlockLasts ==
    [][lock.pc = "open" /\ lock'.pc = "idle" => queue["lock"] = <<>>]_vars

\* Finished is said of whole images only, and those are booted (handle_dfu_event,
\* send_firmware_update).
FinishedIsTrue == FinishedIsVerified /\ FinishedIsBooted

\* Every wait of the update and of the lock ends (send_firmware_update, DfuLock::run).
WaitsEnd == UpdateSettles /\ RelocksEventually

=============================================================================
