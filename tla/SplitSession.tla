---------------------------- MODULE SplitSession ----------------------------
(***************************************************************************)
(* One session between a split central and a peripheral                    *)
(* (rmk/src/split/driver.rs, peripheral.rs): the PeripheralManager on the  *)
(* central mirrors the central's state to the board and takes its keys     *)
(* and its battery level; the task next to it keeps the connection         *)
(* parameters in step with the sleep state (rmk/src/split/ble/central.rs). *)
(* Sessions start and end as SplitLink describes; here a link simply comes *)
(* up and goes down.                                                       *)
(***************************************************************************)
EXTENDS Naturals, Sequences

CONSTANTS
    Size,           \* keys of the board the central's keymap has room for
    Offset,         \* where they start in the central's keymap
    KeyCap,         \* KEYBOARD_EVENT_CHANNEL_SIZE
    Scenarios       \* what a behaviour may contain, see Scenario

ASSUME SessionSizes == Size \in Nat \ {0} /\ Offset \in Nat /\ KeyCap \in Nat \ {0}

\* The bounds: changes of the central's state, key changes, battery changes, link
\* losses and failed requests, uses of the ClearPeer key; and which state topics and
\* which keys of the board take part (key number Size is outside the keymap).
Scenario == [topics : SUBSET {"led", "layer", "status", "sleep"}, keys : SUBSET (0 .. Size),
             changes : Nat, strokes : Nat, levels : Nat, faults : Nat, clears : Nat]

ASSUME SessionScenarios == Scenarios \subseteq Scenario

Mirrored == {"led", "layer", "status", "sleep"}
Topics   == Mirrored \union {"clear"}
TopicCap == [t \in Topics |-> IF t \in {"led", "status"} THEN 2 ELSE 1]
\* The order in which select_biased looks at the subscriptions.
Before   == [t \in Topics |-> CASE t = "led"    -> {}
                                [] t = "layer"  -> {"led"}
                                [] t = "status" -> {"led", "layer"}
                                [] t = "clear"  -> {"led", "layer", "status"}
                                [] t = "sleep"  -> {"led", "layer", "status", "clear"}]
Value    == 0 .. 1
AtRest   == [t \in Mirrored |-> 0]
Keys     == 0 .. Size
Keymap   == 0 .. Offset + Size
NoKey    == [key |-> 0, pressed |-> FALSE, some |-> FALSE]

VARIABLES
    state,      \* the central's state per topic
    mgr,        \* where the PeripheralManager is: "off", "discover", "sync", "loop",
                \* "store" while it waits for room in FLASH_CHANNEL
    toSync,     \* the initial messages left to send
    subs,       \* the manager's subscriptions, per topic
    down,       \* messages on their way to the board
    up,         \* messages on their way to the central
    link,       \* the radio link is up
    board,      \* whether SplitPeripheral::run is running
    view,       \* the board's copy of the central's state
    keys,       \* the keys of the board that are down
    blocked,    \* the key event the scanner waits to publish
    keySub,     \* the board's subscription to KeyboardEvent
    keymap,     \* the keys of the keymap that are down on the central
    battery,    \* the board's battery level
    batSub,     \* the board's subscription to BatteryStatusEvent
    batView,    \* the central's copy of it
    params,     \* the task that updates the connection parameters
    wake,       \* SLEEP_INPUT holds an activity signal
    peer,       \* whether flash holds the peer's address, on either side
    lost,       \* history: what the board published last and nobody could hear
    left        \* the scenario and what is left of its bounds

mirrorVars  == <<toSync, subs, down, view>>
keyVars     == <<keys, blocked, keySub, keymap>>
batteryVars == <<battery, batSub, batView>>
vars == <<state, mgr, mirrorVars, up, link, board, keyVars, batteryVars, params, wake,
          peer, lost, left>>

Spend(what) == left[what] > 0 /\ left' = [left EXCEPT ![what] = @ - 1]

\* publish_immediate: a full channel loses its oldest message.
Published(q, v, cap) == IF Len(q) < cap THEN Append(q, v) ELSE Append(Tail(q), v)
Subscribed == mgr \in {"sync", "loop", "store"}
Listening  == link /\ Subscribed
Publish(t, v) == IF Subscribed THEN [subs EXCEPT ![t] = Published(@, v, TopicCap[t])] ELSE subs

----------------------------------------------------------------------------
(* The central's state and what it publishes.                               *)

Idle == [st |-> "off", sub |-> <<>>, sleeping |-> 0, applied |-> 0]
ToParams(p, v) == IF p.st = "off" THEN p ELSE [p EXCEPT !.sub = <<v>>]

\* The state is written, then published, without an await in between.
SetState(t, v) ==
    /\ state' = [state EXCEPT ![t] = v]
    /\ subs' = Publish(t, v)
    /\ params' = IF t = "sleep" THEN ToParams(params, v) ELSE params

Change ==
    /\ Spend("changes") /\ \E t \in left.topics : SetState(t, 1 - state[t])
    /\ UNCHANGED <<mgr, toSync, down, view, up, link, board, keyVars, batteryVars, wake, peer, lost>>

\* The sleep manager takes the activity signal, which awake only restarts its timer.
Activity ==
    /\ wake /\ wake' = FALSE
    /\ IF state["sleep"] = 1 THEN SetState("sleep", 0) ELSE UNCHANGED <<state, subs, params>>
    /\ UNCHANGED <<mgr, toSync, down, view, up, link, board, keyVars, batteryVars, peer, lost, left>>

ClearPeerKey ==
    /\ Spend("clears") /\ subs' = Publish("clear", 0)
    /\ UNCHANGED <<state, mgr, toSync, down, view, up, link, board, keyVars, batteryVars,
                   params, wake, peer, lost>>

----------------------------------------------------------------------------
(* The PeripheralManager.                                                   *)

Message(t) == [t |-> t, v |-> state[t], key |-> NoKey]

\* Mutant: the snapshot is taken before the subscription.
ManagerStart_Late ==
    /\ mgr = "discover" /\ link
    /\ \/ /\ toSync = <<>> /\ mgr' = mgr
          /\ toSync' = <<Message("status"), Message("led"), Message("sleep")>>
          /\ UNCHANGED <<subs, down>>
       \/ /\ toSync # <<>> /\ mgr' = "loop" /\ subs' = [t \in Topics |-> <<>>]
          /\ down' = down \o toSync /\ toSync' = <<>>
    /\ UNCHANGED <<state, view, up, link, board, keyVars, batteryVars, params, wake, peer, lost, left>>

\* run() subscribes and takes the snapshot before it first waits.
ManagerStart ==
    /\ mgr = "discover" /\ link
    /\ mgr' = "sync" /\ subs' = [t \in Topics |-> <<>>]
    /\ toSync' = <<Message("status"), Message("led"), Message("sleep")>>
    /\ UNCHANGED <<state, down, view, up, link, board, keyVars, batteryVars, params, wake, peer, lost, left>>

ManagerSync ==
    /\ mgr = "sync" /\ link
    /\ down' = Append(down, Head(toSync)) /\ toSync' = Tail(toSync)
    /\ mgr' = IF toSync' = <<>> THEN "loop" ELSE "sync"
    /\ UNCHANGED <<state, subs, view, up, link, board, keyVars, batteryVars, params, wake, peer, lost, left>>

\* The loop polls the link first, then the subscriptions in order.
ManagerSend(t) ==
    /\ mgr = "loop" /\ link /\ up = <<>>
    /\ subs[t] # <<>> /\ \A o \in Before[t] : subs[o] = <<>>
    /\ subs' = [subs EXCEPT ![t] = Tail(@)]
    /\ IF t = "clear"
         THEN /\ mgr' = "store" /\ UNCHANGED down
         ELSE /\ down' = Append(down, [Message(t) EXCEPT !.v = Head(subs[t])])
              /\ UNCHANGED mgr
    /\ UNCHANGED <<state, toSync, view, up, link, board, keyVars, batteryVars, params, wake, peer, lost, left>>

\* ClearPeer: the address is marked invalid once FLASH_CHANNEL has room, and then
\* the board is told.  A message from the board before that ends the select, and
\* with it the arm that waits.
ManagerStored ==
    /\ mgr = "store" /\ mgr' = "loop"
    /\ peer' = [peer EXCEPT !.central = FALSE]
    /\ IF link THEN down' = Append(down, [t |-> "clear", v |-> 0, key |-> NoKey])
               ELSE UNCHANGED down
    /\ lost' = [lost EXCEPT !.clear = @ \/ ~link]
    /\ UNCHANGED <<state, toSync, subs, view, up, link, board, keyVars, batteryVars, params, wake, left>>

\* A key is checked against the size of the board's matrix and moved to its place.
KeyPlace(k) == IF k < Size THEN {Offset + k} ELSE {}

ManagerReads ==
    /\ mgr \in {"loop", "store"} /\ link /\ up # <<>>
    /\ mgr' = "loop" /\ up' = Tail(up)
    /\ LET m == Head(up)
       IN  IF m.t = "key"
             THEN /\ keymap' = IF m.key.pressed THEN keymap \union KeyPlace(m.key.key)
                                                ELSE keymap \ KeyPlace(m.key.key)
                  /\ wake' = (wake \/ state["sleep"] = 1) /\ UNCHANGED batView
             ELSE /\ batView' = m.v /\ UNCHANGED <<keymap, wake>>
    /\ UNCHANGED <<state, toSync, subs, down, view, link, board, keys, blocked, keySub,
                   battery, batSub, params, peer, lost, left>>

\* Mutant: only a failed send ends the session.
SessionEnds_OnSend ==
    /\ ~link /\ mgr = "loop" /\ (\E t \in Topics : subs[t] # <<>>) /\ mgr' = "off"
    /\ toSync' = <<>> /\ subs' = [t \in Topics |-> <<>>] /\ params' = Idle
    /\ UNCHANGED <<state, down, view, up, link, board, keyVars, batteryVars, wake, peer, lost, left>>

\* The other tasks of the session notice that the link is gone and end it.
SessionEnds ==
    /\ ~link /\ mgr # "off" /\ mgr' = "off"
    /\ toSync' = <<>> /\ subs' = [t \in Topics |-> <<>>] /\ params' = Idle
    /\ UNCHANGED <<state, down, view, up, link, board, keyVars, batteryVars, wake, peer, lost, left>>

----------------------------------------------------------------------------
(* The connection parameters: update_conn_params_on_sleep_change.           *)

\* A request is made when the parameters in force are the other ones, and it may fail;
\* then the task waits for the next change.
Asked(p)      == [p EXCEPT !.st = IF p.sleeping # p.applied THEN "request" ELSE "next"]
ParamsDone(p) == [p EXCEPT !.st = "next", !.applied = p.sleeping]

ParamsRequest ==
    /\ link /\ params.st = "request"
    /\ \/ params' = ParamsDone(params) /\ UNCHANGED <<left, lost>>
       \/ /\ Spend("faults") /\ params' = [params EXCEPT !.st = "next"]
          /\ lost' = [lost EXCEPT !.params = TRUE]
    /\ UNCHANGED <<state, mgr, mirrorVars, up, link, board, keyVars, batteryVars, wake, peer>>

ParamsNext ==
    /\ link /\ params.st = "next" /\ params.sub # <<>>
    /\ params' = Asked([params EXCEPT !.sub = Tail(@), !.sleeping = Head(params.sub)])
    /\ UNCHANGED <<state, mgr, mirrorVars, up, link, board, keyVars, batteryVars, wake, peer, lost, left>>

----------------------------------------------------------------------------
(* The board.                                                               *)

\* publish_event_async: a full channel makes the scanner wait; without a subscriber
\* the event goes nowhere.
Stroke ==
    /\ Spend("strokes") /\ ~blocked.some
    /\ \E k \in left.keys :
          /\ keys' = IF k \in keys THEN keys \ {k} ELSE keys \union {k}
          /\ IF board
               THEN /\ blocked' = [key |-> k, pressed |-> k \in keys', some |-> TRUE]
                    /\ UNCHANGED lost
               ELSE /\ lost' = [lost EXCEPT !.keys = @ \union {k}] /\ UNCHANGED blocked
    /\ UNCHANGED <<state, mgr, mirrorVars, up, link, board, keySub, keymap, batteryVars,
                   params, wake, peer>>

KeyPublished ==
    /\ blocked.some /\ Len(keySub) < KeyCap
    /\ keySub' = Append(keySub, blocked) /\ blocked' = NoKey
    /\ UNCHANGED <<state, mgr, mirrorVars, up, link, board, keys, keymap, batteryVars,
                   params, wake, peer, lost, left>>

BatteryLevel ==
    /\ Spend("levels")
    /\ battery' = 1 - battery
    /\ batSub' = IF board THEN Published(batSub, battery', 1) ELSE batSub
    /\ UNCHANGED <<state, mgr, mirrorVars, up, link, board, keyVars, batView, params,
                   wake, peer, lost>>

\* A notification reaches the central only once it has subscribed.
Notify(m) == up' = IF Listening THEN Append(up, m) ELSE up
Level(v)  == [t |-> "battery", v |-> v, key |-> NoKey]

\* The loop polls the link first, then keys, then the battery.
BoardSends ==
    /\ board /\ down = <<>>
    /\ \/ /\ keySub # <<>> /\ keySub' = Tail(keySub)
          /\ Notify([t |-> "key", v |-> 0, key |-> Head(keySub)])
          /\ LET k == {Head(keySub).key}
             IN  lost' = [lost EXCEPT !.keys = IF Listening THEN @ \ k ELSE @ \union k]
          /\ UNCHANGED batSub
       \/ /\ keySub = <<>> /\ batSub # <<>> /\ batSub' = Tail(batSub)
          /\ Notify(Level(Head(batSub)))
          /\ UNCHANGED <<keySub, lost>>
    /\ UNCHANGED <<state, mgr, mirrorVars, link, board, keys, blocked, keymap, battery, batView,
                   params, wake, peer, left>>

\* A status message is answered with the battery level the board knows.
BoardReads ==
    /\ board /\ down # <<>> /\ down' = Tail(down)
    /\ LET m == Head(down)
       IN  /\ IF m.t = "clear" THEN peer' = [peer EXCEPT !.board = FALSE] /\ UNCHANGED view
                               ELSE view' = [view EXCEPT ![m.t] = m.v] /\ UNCHANGED peer
           /\ IF m.t = "status"
                THEN Notify(Level(battery)) ELSE UNCHANGED up
    /\ UNCHANGED <<state, mgr, toSync, subs, link, board, keyVars, batteryVars, params, wake, lost, left>>

\* The board sees the disconnect after what it received before: run() ends, and the
\* advertising loop starts from a fresh status and awake.
BoardDisconnected ==
    /\ board /\ ~link /\ down = <<>> /\ board' = FALSE
    /\ view' = [view EXCEPT !["status"] = 0, !["sleep"] = 0]
    /\ keySub' = <<>> /\ batSub' = <<>> /\ blocked' = NoKey
    /\ lost' = [lost EXCEPT
          !.keys = @ \union {keySub[i].key : i \in DOMAIN keySub}
                       \union (IF blocked.some THEN {blocked.key} ELSE {})]
    /\ UNCHANGED <<state, mgr, toSync, subs, down, up, link, keys, keymap, battery, batView,
                   params, wake, peer, left>>

----------------------------------------------------------------------------
(* The link.                                                                *)

\* The central starts its parameter task and its service discovery, the board runs.
LinkUp ==
    /\ ~link /\ ~board /\ mgr = "off"
    /\ link' = TRUE /\ board' = TRUE /\ mgr' = "discover"
    /\ params' = Asked([Idle EXCEPT !.sleeping = state["sleep"]])
    /\ lost' = [lost EXCEPT !.params = FALSE]
    /\ UNCHANGED <<state, mirrorVars, up, keyVars, batteryVars, wake, peer, left>>

LinkDown ==
    /\ link /\ Spend("faults") /\ link' = FALSE
    /\ up' = <<>>
    /\ \E n \in 0 .. Len(down) :
          /\ down' = SubSeq(down, 1, n)
          /\ lost' = [lost EXCEPT
                !.keys = @ \union {up[i].key.key : i \in {j \in DOMAIN up : up[j].t = "key"}},
                !.clear = @ \/ \E i \in n + 1 .. Len(down) : down[i].t = "clear"]
    /\ UNCHANGED <<state, mgr, toSync, subs, view, board, keyVars, batteryVars, params, wake, peer>>

----------------------------------------------------------------------------
Init ==
    /\ left \in Scenarios
    /\ state \in [Mirrored -> Value] /\ \A t \in Mirrored \ left.topics : state[t] = 0
    /\ mgr = "off" /\ toSync = <<>> /\ subs = [t \in Topics |-> <<>>]
    /\ down = <<>> /\ up = <<>> /\ link = FALSE /\ board = FALSE /\ view = AtRest
    /\ keys = {} /\ blocked = NoKey /\ keySub = <<>> /\ keymap = {}
    /\ battery = 0 /\ batSub = <<>> /\ batView = 0
    /\ params = Idle /\ wake = FALSE
    /\ peer = [central |-> TRUE, board |-> TRUE]
    /\ lost = [keys |-> {}, params |-> FALSE, clear |-> FALSE]

Next == \/ Change \/ Activity \/ ClearPeerKey
        \/ ManagerStart \/ ManagerSync \/ (\E t \in Topics : ManagerSend(t)) \/ ManagerStored
        \/ ManagerReads \/ SessionEnds \/ ParamsRequest \/ ParamsNext
        \/ Stroke \/ KeyPublished \/ BatteryLevel \/ BoardSends \/ BoardReads
        \/ BoardDisconnected \/ LinkUp \/ LinkDown

Spec == Init /\ [][Next]_vars

\* Every task runs; the link comes back when both sides look for each other, which
\* is what SplitLink shows.
FairSpec == /\ Spec
            /\ WF_vars(Activity) /\ WF_vars(ManagerStart) /\ WF_vars(ManagerSync)
            /\ \A t \in Topics : WF_vars(ManagerSend(t))
            /\ WF_vars(ManagerStored) /\ WF_vars(ManagerReads) /\ WF_vars(SessionEnds)
            /\ WF_vars(ParamsRequest) /\ WF_vars(ParamsNext) /\ WF_vars(KeyPublished) /\ WF_vars(BoardSends)
            /\ WF_vars(BoardReads) /\ WF_vars(BoardDisconnected) /\ WF_vars(LinkUp)

----------------------------------------------------------------------------
(* Properties.                                                              *)

TypeOK ==
    /\ state \in [Mirrored -> Value] /\ view \in [Mirrored -> Value]
    /\ mgr \in {"off", "discover", "sync", "loop", "store"} /\ Len(toSync) <= 3
    /\ \A t \in Topics : Len(subs[t]) <= TopicCap[t]
    /\ link \in BOOLEAN /\ board \in BOOLEAN /\ wake \in BOOLEAN
    /\ keys \subseteq Keys /\ keymap \subseteq Keymap /\ Len(keySub) <= KeyCap
    /\ battery \in Value /\ batView \in Value /\ Len(batSub) <= 1
    /\ params.st \in {"off", "request", "next"} /\ Len(params.sub) <= 1

Quiet == /\ link /\ board /\ mgr = "loop" /\ down = <<>> /\ up = <<>>
         /\ \A t \in Topics : subs[t] = <<>>
         /\ keySub = <<>> /\ batSub = <<>> /\ ~blocked.some

\* When nothing is under way the board shows the central's indicator, connection
\* status and sleep state, whenever they changed: before the session, between the
\* snapshot and its delivery, or faster than the channels hold (the subscriptions
\* come before the snapshot in PeripheralManager::run).  The layer is not part of
\* the snapshot.
BoardInSync == Quiet => \A t \in Mirrored \ {"layer"} : view[t] = state[t]

\* The central sees the board's keys as they are, except those whose last change
\* nobody could hear: made without a session, before the central listened, or on
\* their way when the link went down.
KeysInSync == Quiet => \A k \in 0 .. Size - 1 :
                  k \notin lost.keys => (k \in keys <=> Offset + k \in keymap)

\* A key the board's matrix has no room for in the keymap presses nothing, least of
\* all a key of another half (the row and column check in process_peripheral_message).
KeysInPlace == keymap \subseteq Offset .. Offset + Size - 1

\* The central knows the battery level of a connected board even if it was measured
\* before the session (the answer to ConnectionStatus in SplitPeripheral::run).
BatteryInSync == Quiet => batView = battery

\* When the parameter task has nothing left to do, the link has the parameters of
\* the sleep state, unless the request failed.
ParamsInSync == link /\ params.st = "next" /\ params.sub = <<>> /\ ~lost.params
                    => params.applied = state["sleep"]

\* The peer is forgotten on both sides or on neither, unless the link took the message
\* with it: a select that drops the arm which waits for storage drops the write as well.
ClearIsWhole == Quiet /\ ~lost.clear => peer.central = peer.board

\* A key of the board that reaches a sleeping central wakes it
\* (report_activity in BleSplitCentralDriver::read).
KeyArrives == Listening /\ up # <<>> /\ Head(up).t = "key"
BoardKeyWakes == KeyArrives /\ state["sleep"] = 1 ~> state["sleep"] = 0 \/ ~link

\* Everything that changed reaches the other side: a session is quiet in the end.
EventuallyQuiet == []<>Quiet

\* A session works: it wakes the central for keys and gets everything across
\* (PeripheralManager::run, BleSplitCentralDriver::read).
SessionWorks == BoardKeyWakes /\ EventuallyQuiet

\* When nothing is under way both sides hold the same: the central's state, the board's
\* keys at their places, its battery level, the link's parameters and the bond
\* (PeripheralManager::run, SplitPeripheral::run).
SidesAgree == /\ TypeOK /\ BoardInSync /\ KeysInSync /\ KeysInPlace
              /\ BatteryInSync /\ ParamsInSync /\ ClearIsWhole

=============================================================================
