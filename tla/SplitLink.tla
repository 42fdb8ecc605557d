------------------------------ MODULE SplitLink ------------------------------
(***************************************************************************)
(* How a split central finds its peripherals and keeps them connected      *)
(* (rmk/src/split/ble): the task scan_and_connect_peripherals with one     *)
(* slot per peripheral, one session task per slot, and on each peripheral  *)
(* the loop that advertises to the central.                                *)
(*                                                                         *)
(* Board b is the peripheral built with id b, and its address is b.  Ghost *)
(* is the address of a device that is not there: a board that was replaced *)
(* or a neighbour's that came by once.                                     *)
(***************************************************************************)
EXTENDS Naturals, Sequences, FiniteSets

CONSTANTS
    N,              \* SPLIT_PERIPHERALS_NUM
    Scenarios       \* what a behaviour may contain, see Scenario

ASSUME SplitCount == N \in Nat \ {0}

Boards   == 0 .. N - 1
Ghost    == N
NoOne    == N + 1       \* no address
ThisOne  == 0           \* this central, as a peripheral knows it
OtherOne == 1           \* another central
Addrs    == Boards \union {Ghost}

\* Which boards are in range, what both sides have in flash at first, and the
\* bounds: power cycles, link losses and errors, reports of a ghost, changes of the
\* sleep state, uses of the ClearPeer key.  A board keeps the id it was built with, so
\* the central has no other board's address in its slot.
Scenario == [near : SUBSET Boards, known : [Boards -> Addrs \union {NoOne}],
             owner : [Boards -> {ThisOne, OtherOne, NoOne}],
             faults : Nat, ghosts : Nat, sleeps : Nat, clears : Nat]
ASSUME SplitScenarios ==
    \A c \in Scenarios : c \in Scenario /\ \A b \in Boards : c.known[b] \in {b, Ghost, NoOne}

\* SlotState.
NoAddr          == [st |-> "NoAddr", addr |-> NoOne]
Disconnected(a) == [st |-> "Disconnected", addr |-> a]
Connected(a)    == [st |-> "Connected", addr |-> a]
Nothing         == [id |-> 0, addr |-> NoOne]     \* PERIPHERAL_FOUND not signalled
Unchanged       == N + 2                          \* no write queued for a slot

VARIABLES
    slots,      \* peripheral_slots
    radio,      \* where scan_and_connect_peripherals is
    pending,    \* the slots of the accept list while it connects
    found,      \* PERIPHERAL_FOUND: the last report not taken yet
    session,    \* per slot: where run_peripheral_session is
    ended,      \* the channel sessions report their end on
    flag,       \* PERIPHERAL_SLOTS: connected
    sleeping,   \* the central's sleep state
    link,       \* per board: whether the radio link to the central is up
    board,      \* per board: where its peri_task is
    owner,      \* per board: central_addr in RAM
    flash,      \* the central's stored address per slot
    queued,     \* the write of that address storage has not done yet
    ownerFlash, \* per board: the stored address of its central
    left        \* the scenario and what is left of its bounds

centralVars == <<slots, radio, pending, found>>
sessionVars == <<session, ended, flag>>
flashVars   == <<flash, queued>>
boardVars   == <<board, owner, ownerFlash>>
vars == <<centralVars, sessionVars, sleeping, link, boardVars, flashVars, left>>

Range(s) == {s[i] : i \in DOMAIN s}
Spend(what) == left[what] > 0 /\ left' = [left EXCEPT ![what] = @ - 1]

----------------------------------------------------------------------------
(* The central's flash: store_unchecked queues the write and goes on.       *)

Store(id, addr) == queued' = [queued EXCEPT ![id] = addr] /\ UNCHANGED flash

StorageWrites ==
    /\ \E id \in Boards :
          /\ queued[id] # Unchanged
          /\ flash' = [flash EXCEPT ![id] = queued[id]]
          /\ queued' = [queued EXCEPT ![id] = Unchanged]
    /\ UNCHANGED <<centralVars, sessionVars, sleeping, link, boardVars, left>>

Loaded(f) == [id \in Boards |-> IF f[id] = NoOne THEN NoAddr ELSE Disconnected(f[id])]

----------------------------------------------------------------------------
(* The radio task.                                                          *)

Drained == [id \in Boards |-> IF id \in Range(ended) /\ slots[id].st = "Connected"
                                 THEN Disconnected(slots[id].addr) ELSE slots[id]]
InState(ss, st) == {id \in Boards : ss[id].st = st}

\* The top of the loop: take the ended sessions, then connect, wait or scan.  There
\* is no await before the choice is made.
Top ==
    /\ radio = "top"
    /\ slots' = Drained /\ ended' = <<>>
    /\ pending' = InState(Drained, "Disconnected")
    /\ radio' = CASE pending' # {} -> "connect"
                  [] pending' = {} /\ InState(Drained, "Connected") = Boards -> "idle"
                  [] pending' = {} /\ InState(Drained, "NoAddr") # {} /\ sleeping -> "wait"
                  [] OTHER -> "scan"
    /\ UNCHANGED <<found, session, flag, sleeping, link, boardVars, flashVars, left>>

\* A peripheral answers an initiator on its accept list while it advertises to this
\* central or to anyone.
Answers(b) == /\ b \in left.near /\ ~link[b]
              /\ \/ board[b] = "seeking"
                 \/ board[b] = "directed" /\ owner[b] = ThisOne
Wanted(b) == \E id \in pending : slots[id].addr = b

\* The link is up: hand it to the session of the slot with that address.
Connect(b) ==
    /\ radio = "connect" /\ Wanted(b) /\ Answers(b)
    /\ LET id == CHOOSE i \in pending : slots[i].addr = b
       IN  /\ slots' = [slots EXCEPT ![id] = Connected(b)]
           /\ session' = [session EXCEPT ![id] = "queued"]
    /\ link' = [link EXCEPT ![b] = TRUE]
    /\ board' = [board EXCEPT ![b] = "connected"]
    /\ radio' = "top" /\ pending' = {}
    /\ UNCHANGED <<found, ended, flag, sleeping, owner, ownerFlash, flashVars, left>>

Woken == IF sleeping /\ ended = <<>> THEN "wait" ELSE "top"

ConnectError ==
    /\ radio = "connect" /\ Spend("faults")
    /\ radio' = Woken /\ pending' = {}
    /\ UNCHANGED <<slots, found, sessionVars, sleeping, link, boardVars, flashVars>>

\* Mutant: awake too, the addresses are kept.
ConnectTimeout_Keep ==
    /\ radio = "connect" /\ ~ \E b \in Boards : Wanted(b) /\ Answers(b)
    /\ radio' = Woken /\ pending' = {}
    /\ UNCHANGED <<slots, found, sessionVars, sleeping, link, boardVars, flashVars, left>>

\* 15 seconds without an answer: asleep the addresses stay, awake they are wrong.
ConnectTimeout ==
    /\ radio = "connect" /\ ~ \E b \in Boards : Wanted(b) /\ Answers(b)
    /\ slots' = [id \in Boards |-> IF ~sleeping /\ id \in pending THEN NoAddr ELSE slots[id]]
    /\ radio' = Woken /\ pending' = {}
    /\ UNCHANGED <<found, sessionVars, sleeping, link, boardVars, flashVars, left>>

\* All connected: until a session ends.  Asleep: until then, or until the central wakes.
Wake ==
    /\ \/ radio = "idle" /\ ended # <<>>
       \/ radio = "wait" /\ (~sleeping \/ ended # <<>>)
    /\ radio' = "top"
    /\ UNCHANGED <<slots, pending, found, sessionVars, sleeping, link, boardVars, flashVars, left>>

\* ScanHandler::on_reports: the latest report wins.  The id is what was on the air.
Report(id, addr) == radio = "scan" /\ found' = [id |-> id, addr |-> addr]
ScanReport ==
    /\ \E b \in left.near : board[b] = "seeking" /\ ~link[b] /\ Report(b, b)
    /\ UNCHANGED <<slots, radio, pending, sessionVars, sleeping, link, boardVars, flashVars, left>>
GhostReport ==
    /\ Spend("ghosts") /\ \E id \in Boards \union {N} : Report(id, Ghost)
    /\ UNCHANGED <<slots, radio, pending, sessionVars, sleeping, link, boardVars, flashVars>>

\* The scan ends with a report, with the end of a session or after 30 seconds.  A
\* report fills an empty slot only.
Take ==
    /\ radio = "scan" /\ found # Nothing
    /\ IF found.id \in Boards /\ slots[found.id] = NoAddr
         THEN /\ slots' = [slots EXCEPT ![found.id] = Disconnected(found.addr)]
              /\ Store(found.id, found.addr)
         ELSE UNCHANGED <<slots, flashVars>>
    /\ found' = Nothing /\ radio' = "top"
    /\ UNCHANGED <<pending, sessionVars, sleeping, link, boardVars, left>>

ScanEnds ==
    /\ radio = "scan" /\ found = Nothing
    /\ \/ ended # <<>>
       \/ ~ \E b \in left.near : board[b] = "seeking" /\ ~link[b]    \* 30 s
    /\ radio' = "top"
    /\ UNCHANGED <<slots, pending, found, sessionVars, sleeping, link, boardVars, flashVars, left>>

----------------------------------------------------------------------------
(* The session tasks.                                                       *)

SessionStart(id) ==
    /\ session[id] = "queued"
    /\ session' = [session EXCEPT ![id] = "running"]
    /\ flag' = [flag EXCEPT ![id] = TRUE]
    /\ UNCHANGED <<centralVars, ended, sleeping, link, boardVars, flashVars, left>>

\* The manager stops: the link is gone, or a request over it failed.  The connection
\* is dropped, which the stack serves in its own time.
SessionStops(id) ==
    /\ session[id] = "running"
    /\ session' = [session EXCEPT ![id] = "dropped"]
    /\ flag' = [flag EXCEPT ![id] = FALSE]
    /\ \/ ~link[slots[id].addr] /\ UNCHANGED left
       \/ link[slots[id].addr] /\ Spend("faults")
    /\ UNCHANGED <<centralVars, ended, sleeping, link, boardVars, flashVars>>

StackDisconnects(id) ==
    /\ session[id] = "dropped"
    /\ session' = [session EXCEPT ![id] = "pausing"]
    /\ link' = [link EXCEPT ![slots[id].addr] = FALSE]
    /\ UNCHANGED <<centralVars, ended, flag, sleeping, boardVars, flashVars, left>>

\* Mutant: the end is not reported.
SessionEnds_Silent(id) ==
    /\ session[id] = "pausing"
    /\ session' = [session EXCEPT ![id] = "none"]
    /\ UNCHANGED <<centralVars, ended, flag, sleeping, link, boardVars, flashVars, left>>

\* 500 ms later the end is reported.
SessionEnds(id) ==
    /\ session[id] = "pausing" /\ Len(ended) < N
    /\ session' = [session EXCEPT ![id] = "none"]
    /\ ended' = Append(ended, id)
    /\ UNCHANGED <<centralVars, flag, sleeping, link, boardVars, flashVars, left>>

----------------------------------------------------------------------------
(* A peripheral.                                                            *)

Advertising(o) == IF o = NoOne THEN "seeking" ELSE "directed"
Goes(b, to) == board' = [board EXCEPT ![b] = to]

\* Connected: the address of a new central is saved first, and RAM follows flash.
BoardServes(b) ==
    /\ board[b] = "connected" /\ Goes(b, "serving")
    /\ \/ /\ owner' = [owner EXCEPT ![b] = ThisOne]
          /\ ownerFlash' = IF owner[b] = ThisOne THEN ownerFlash
                              ELSE [ownerFlash EXCEPT ![b] = ThisOne]
          /\ UNCHANGED left
       \/ owner[b] # ThisOne /\ Spend("faults") /\ UNCHANGED <<owner, ownerFlash>>
    /\ UNCHANGED <<centralVars, sessionVars, sleeping, link, flashVars>>

BoardDisconnected(b) ==
    /\ board[b] = "serving" /\ ~link[b]
    /\ Goes(b, Advertising(owner[b]))
    /\ UNCHANGED <<centralVars, sessionVars, sleeping, link, owner, ownerFlash, flashVars, left>>

\* 10 seconds of directed advertising, then anyone may answer.
DirectedTimeout(b) ==
    /\ board[b] = "directed" /\ Goes(b, "seeking")
    /\ UNCHANGED <<centralVars, sessionVars, sleeping, link, owner, ownerFlash, flashVars, left>>

\* 300 seconds are longer than an awake central needs to hear the board.
SeekTimeout(b) ==
    /\ board[b] = "seeking" /\ Goes(b, "asleep")
    /\ radio = "wait"
    /\ UNCHANGED <<centralVars, sessionVars, sleeping, link, owner, ownerFlash, flashVars, left>>

KeyWakesBoard(b) ==
    /\ board[b] = "asleep" /\ b \in left.near /\ Goes(b, Advertising(owner[b]))
    /\ UNCHANGED <<centralVars, sessionVars, sleeping, link, owner, ownerFlash, flashVars, left>>

AdvertiseError ==
    /\ Spend("faults")
    /\ \E b \in Boards : board[b] \in {"directed", "seeking"} /\ Goes(b, Advertising(owner[b]))
    /\ UNCHANGED <<centralVars, sessionVars, sleeping, link, owner, ownerFlash, flashVars>>

----------------------------------------------------------------------------
(* The user and the faults.                                                 *)

LinkLoss ==
    /\ Spend("faults")
    /\ \E b \in Boards : link[b] /\ link' = [link EXCEPT ![b] = FALSE]
    /\ UNCHANGED <<centralVars, sessionVars, sleeping, boardVars, flashVars>>

SleepChanges ==
    /\ Spend("sleeps") /\ sleeping' = ~sleeping
    /\ UNCHANGED <<centralVars, sessionVars, link, boardVars, flashVars>>

\* The ClearPeer key: every session forgets its peripheral's address in flash and
\* tells it to forget the central's.  RAM is left alone until the next boot.
ClearPeer ==
    /\ Spend("clears")
    /\ \E heard \in SUBSET {id \in Boards : session[id] = "running" /\ link[slots[id].addr]} :
          /\ queued' = [id \in Boards |-> IF session[id] = "running" THEN NoOne ELSE queued[id]]
          /\ ownerFlash' = [b \in Boards |->
                IF \E id \in heard : slots[id].addr = b /\ board[b] = "serving"
                  THEN NoOne ELSE ownerFlash[b]]
    /\ UNCHANGED <<centralVars, sessionVars, sleeping, link, board, owner, flash>>

BoardReboots ==
    /\ Spend("faults")
    /\ \E b \in left.near : /\ owner' = [owner EXCEPT ![b] = ownerFlash[b]]
                            /\ Goes(b, Advertising(ownerFlash[b]))
                            /\ link' = [link EXCEPT ![b] = FALSE]
    /\ UNCHANGED <<centralVars, sessionVars, sleeping, ownerFlash, flashVars>>

CentralReboots ==
    /\ Spend("faults")
    /\ slots' = Loaded(flash) /\ radio' = "top" /\ pending' = {} /\ found' = Nothing
    /\ session' = [id \in Boards |-> "none"] /\ ended' = <<>>
    /\ flag' = [id \in Boards |-> FALSE] /\ sleeping' = FALSE
    /\ link' = [b \in Boards |-> FALSE]
    /\ queued' = [id \in Boards |-> Unchanged]
    /\ UNCHANGED <<boardVars, flash>>

----------------------------------------------------------------------------
Init ==
    /\ left \in Scenarios
    /\ flash = left.known /\ queued = [id \in Boards |-> Unchanged]
    /\ ownerFlash = left.owner /\ owner = ownerFlash
    /\ board = [b \in Boards |-> IF b \in left.near THEN Advertising(owner[b]) ELSE "asleep"]
    /\ slots = Loaded(flash) /\ radio = "top" /\ pending = {} /\ found = Nothing
    /\ session = [id \in Boards |-> "none"] /\ ended = <<>>
    /\ flag = [id \in Boards |-> FALSE] /\ sleeping = FALSE
    /\ link = [b \in Boards |-> FALSE]

\* What runs by itself.
Step == \/ Top \/ (\E b \in Boards : Connect(b)) \/ ConnectTimeout \/ Wake
        \/ ScanReport \/ Take \/ ScanEnds
        \/ (\E id \in Boards : \/ SessionStart(id) \/ SessionStops(id)
                               \/ StackDisconnects(id) \/ SessionEnds(id))
        \/ (\E b \in Boards : \/ BoardServes(b) \/ BoardDisconnected(b)
                              \/ DirectedTimeout(b) \/ SeekTimeout(b))
        \/ StorageWrites

Fault == ConnectError \/ GhostReport \/ AdvertiseError \/ LinkLoss \/ SleepChanges
         \/ ClearPeer \/ BoardReboots \/ CentralReboots
         \/ (\E b \in Boards : KeyWakesBoard(b))

Next == Step \/ Fault
Spec == Init /\ [][Next]_vars

\* Every task runs, every timer fires and a board that is heard in every round is
\* reported.  A key on a board that gave up is the user's business.
FairSpec == /\ Spec
            /\ WF_vars(Top) /\ WF_vars(Wake) /\ WF_vars(ConnectTimeout)
            /\ WF_vars(Take) /\ WF_vars(ScanEnds) /\ WF_vars(ScanReport)
            /\ \A id \in Boards : /\ WF_vars(SessionStart(id)) /\ WF_vars(SessionStops(id))
                                  /\ WF_vars(StackDisconnects(id)) /\ WF_vars(SessionEnds(id))
            /\ \A b \in Boards : /\ WF_vars(Connect(b)) /\ WF_vars(BoardServes(b))
                                 /\ WF_vars(BoardDisconnected(b)) /\ WF_vars(DirectedTimeout(b))

----------------------------------------------------------------------------
(* Properties.                                                              *)

TypeOK ==
    /\ \A id \in Boards : slots[id] \in {NoAddr} \union {Disconnected(a) : a \in Addrs}
                                          \union {Connected(a) : a \in Boards}
    /\ radio \in {"top", "connect", "idle", "wait", "scan"} /\ pending \subseteq Boards
    /\ found.id \in 0 .. N /\ found.addr \in Addrs \union {NoOne}
    /\ session \in [Boards -> {"none", "queued", "running", "dropped", "pausing"}]
    /\ ended \in Seq(Boards) /\ Len(ended) <= N
    /\ flag \in [Boards -> BOOLEAN] /\ sleeping \in BOOLEAN /\ link \in [Boards -> BOOLEAN]
    /\ board \in [Boards -> {"directed", "seeking", "asleep", "connected", "serving"}]
    /\ owner \in [Boards -> {ThisOne, OtherOne, NoOne}]
    /\ ownerFlash \in [Boards -> {ThisOne, OtherOne, NoOne}]
    /\ flash \in [Boards -> Addrs \union {NoOne}]
    /\ queued \in [Boards -> Addrs \union {NoOne, Unchanged}]

\* A slot is Connected exactly while its session has not reported its end, so no
\* session ends unnoticed and no connection is handed to a session that is busy
\* (scan_and_connect_peripherals, run_peripheral_session).
SlotTracksSession ==
    \A id \in Boards : slots[id].st = "Connected"
                           <=> session[id] # "none" \/ id \in Range(ended)

\* By the time a board is on the accept list again the stack has let go of its old
\* link (the pause in run_peripheral_session).
CleanReconnect == \A id \in pending : slots[id].addr \in Boards => ~link[slots[id].addr]

Reachable(b) == b \in left.near /\ ~sleeping /\ board[b] # "asleep"
Served(b) == session[b] = "running" /\ flag[b] /\ slots[b] = Connected(b) /\ board[b] = "serving"

\* Once the faults stop, every peripheral in range ends up connected and served,
\* whatever addresses were stored, replaced, cleared on one side only or picked up
\* from a ghost, and whether or not the other peripherals are there.
EveryoneConnects == \A b \in Boards : <>[]Reachable(b) => <>[]Served(b)

\* A slot follows its session from the connection to the end of the link, and is used
\* again only then (run_peripheral_session, scan_and_connect_peripherals).
SlotsFollowSessions == TypeOK /\ SlotTracksSession /\ CleanReconnect

=============================================================================
