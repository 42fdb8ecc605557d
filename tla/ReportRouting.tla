--------------------------- MODULE ReportRouting ---------------------------
(***************************************************************************)
(* From a report of the keyboard to the host that shows it: the routing of *)
(* rmk/src/state.rs and rmk/src/channel.rs, and the two writers that drain *)
(* the report channels (rmk/src/usb/mod.rs and rmk/src/ble/mod.rs).        *)
(*                                                                         *)
(* CONNECTION_STATUS holds the USB state, the BLE state and the preferred  *)
(* transport; the active transport is derived from them.  Reports go to    *)
(* the channel of the active transport.  Every write of the status runs    *)
(* update_status: when the active transport changes, the channel of the    *)
(* previous one is cleared and gets an all-up report of every type, so     *)
(* that its host releases what is pressed.                                 *)
(*                                                                         *)
(* A report is a type and what is pressed of that type, Up for nothing.    *)
(* host[t] is what the host behind transport t believes is pressed; held   *)
(* is what the keyboard reported last.  lost[t][ty] records that the writer *)
(* of t dropped a report of type ty and has delivered none since.          *)
(***************************************************************************)
EXTENDS Naturals, Sequences, FiniteSets

CONSTANTS
    Types,          \* report types: keyboard, mouse, ...
    BootType,       \* the type of the boot keyboard interface
    Pointing,       \* boards: the types the pointing processor of each sends too
    Pressed,        \* what can be pressed of a type, other than nothing
    Up,             \* nothing pressed
    ChannelSize,    \* REPORT_CHANNEL_SIZE
    MaxReports,     \* bound: reports produced
    MaxLinkEvents   \* bound: events that take a link down, suspend it or flip it

ASSUME RoutingTypes ==
    /\ BootType \in Types
    /\ IsFiniteSet(Types)
    /\ Pointing \subseteq SUBSET Types
    /\ Up \notin Pressed

\* The all-up reports of one flip leave room in the channel.  The default
\* REPORT_CHANNEL_SIZE is 16 and there are at most five types.
ASSUME ChannelHoldsRelease == ChannelSize \in Nat /\ ChannelSize > Cardinality(Types)

ASSUME RoutingBounds == MaxReports \in Nat /\ MaxLinkEvents \in Nat

Transports == {"usb", "ble"}
Producers  == {"keyboard", "pointing"}

VARIABLES
    usb,        \* UsbState
    ble,        \* BleState
    preferred,  \* ConnectionStatus.preferred
    preSuspend, \* UsbDeviceHandler.pre_suspend
    bootMode,   \* BOOT_MODE
    device,     \* where usb_device_task is
    wakeup,     \* USB_REMOTE_WAKEUP is signalled
    serving,    \* a BLE connection is served: its writer task runs
    link,       \* the BLE link is up
    chan,       \* USB_REPORT_CHANNEL and BLE_REPORT_CHANNEL
    sender,     \* the report each producer is blocked on, if any
    writer,     \* the report each writer has in hand, if any
    retrying,   \* the USB writer waits before its second attempt
    held,       \* what the keyboard reported last, per type
    host,       \* what each host believes is pressed
    lost,       \* history: reports dropped by a writer
    asked,      \* history: a report reached the USB writer during this suspend
    reports,    \* bound
    events,     \* bound
    shared      \* the types the pointing processor sends too

statusVars == <<usb, ble, preferred>>
usbVars    == <<preSuspend, bootMode, device, wakeup, asked>>
bleVars    == <<serving, link>>
pipeVars   == <<sender, writer, retrying, held, host, lost>>
vars == <<statusVars, usbVars, bleVars, chan, pipeVars, reports, events, shared>>

Values == Pressed \union {Up}
Report == [type : Types, val : Values]
AllUp  == [ty \in Types |-> Up]

TypeOK ==
    /\ usb \in {"Disabled", "Enabled", "Configured", "Suspended"}
    /\ ble \in {"Inactive", "Advertising", "Connected"}
    /\ preferred \in Transports
    /\ preSuspend \in {"Disabled", "Enabled", "Configured", "Suspended"}
    /\ bootMode \in BOOLEAN
    /\ device \in {"run", "suspended", "waking"}
    /\ wakeup \in BOOLEAN
    /\ serving \in BOOLEAN
    /\ link \in BOOLEAN
    /\ chan \in [Transports -> Seq(Report)]
    /\ \A t \in Transports : Len(chan[t]) <= ChannelSize
    /\ sender \in [Producers -> SUBSET [report : Report, to : Transports]]
    /\ writer \in [Transports -> SUBSET Report]
    /\ retrying \in BOOLEAN
    /\ held \in [Types -> Values]
    /\ host \in [Transports -> [Types -> Values]]
    /\ lost \in [Transports -> [Types -> BOOLEAN]]
    /\ asked \in BOOLEAN
    /\ reports \in Nat
    /\ events \in 0 .. MaxLinkEvents
    /\ shared \in Pointing

Init ==
    /\ usb = "Disabled"
    /\ ble = "Inactive"
    /\ preferred = "usb"
    /\ preSuspend = "Disabled"
    /\ bootMode = FALSE
    /\ device = "run"
    /\ wakeup = FALSE
    /\ serving = FALSE
    /\ link = FALSE
    /\ chan = [t \in Transports |-> <<>>]
    /\ sender = [p \in Producers |-> {}]
    /\ writer = [t \in Transports |-> {}]
    /\ retrying = FALSE
    /\ held = AllUp
    /\ host = [t \in Transports |-> AllUp]
    /\ lost = [t \in Transports |-> [ty \in Types |-> FALSE]]
    /\ asked = FALSE
    /\ shared \in Pointing
    /\ reports = Cardinality(shared)    \* a board with two producers makes fewer reports
    /\ events = 0

-----------------------------------------------------------------------------
(* CONNECTION_STATUS.                                                      *)

UsbReady(u) == u \in {"Configured", "Suspended"}
BleReady(b) == b = "Connected"

\* decide_active: the transports that are active, none or one.
Active(u, b, p) ==
    CASE UsbReady(u) /\ ~ BleReady(b) -> {"usb"}
      [] ~ UsbReady(u) /\ BleReady(b) -> {"ble"}
      [] UsbReady(u) /\ BleReady(b)   -> {p}
      [] OTHER                        -> {}

ActiveTransport == Active(usb, ble, preferred)

\* An all-up report of every type, in some order.
ReleaseAll ==
    CHOOSE s \in [1 .. Cardinality(Types) -> {[type |-> ty, val |-> Up] : ty \in Types}] :
        \A ty \in Types : \E i \in DOMAIN s : s[i].type = ty

\* try_send of each report in turn: what does not fit is dropped.
Fit(s) == IF Len(s) <= ChannelSize THEN s ELSE SubSeq(s, 1, ChannelSize)

\* Mutant: the channel is cleared, nothing is released.
Released_ClearOnly(t) == <<>>

\* Mutant: releases are queued behind what is pending.
Released_NoClear(t) == Fit(chan[t] \o ReleaseAll)

\* clear_and_release_report_channel: clear, then try_send each.
Released(t) == Fit(ReleaseAll)

\* update_status, up to the published event: the new status and the flip.
UpdateStatus(u, b, p) ==
    /\ usb' = u
    /\ ble' = b
    /\ preferred' = p
    /\ chan' = [t \in Transports |->
                   IF t \in ActiveTransport /\ Active(u, b, p) # ActiveTransport
                   THEN Released(t) ELSE chan[t]]

-----------------------------------------------------------------------------
(* The producers: send_hid_report.                                         *)

Room(t) == Len(chan[t]) < ChannelSize

\* First attempt: drop without a transport, queue, or block on the channel of
\* the transport that was active.
Submit(p, r) ==
    \/ /\ ActiveTransport = {}
       /\ UNCHANGED <<chan, sender>>
    \/ \E t \in ActiveTransport :
         \/ /\ Room(t)
            /\ chan' = [chan EXCEPT ![t] = Append(@, r)]
            /\ UNCHANGED sender
         \/ /\ ~ Room(t)
            /\ sender' = [sender EXCEPT ![p] = {[report |-> r, to |-> t]}]
            /\ UNCHANGED chan

\* The keyboard task reports a change of one type.
KeyboardReport(ty, v) ==
    /\ sender["keyboard"] = {}
    /\ reports < MaxReports
    /\ reports' = reports + 1
    /\ v # held[ty]
    /\ held' = [held EXCEPT ![ty] = v]
    /\ Submit("keyboard", [type |-> ty, val |-> v])
    /\ UNCHANGED <<statusVars, usbVars, bleVars, writer, retrying, host, lost, events, shared>>

\* The pointing processor reports motion, with the buttons the keyboard holds.
PointingReport(ty) ==
    /\ ty \in shared
    /\ sender["pointing"] = {}
    /\ reports < MaxReports
    /\ reports' = reports + 1
    /\ Submit("pointing", [type |-> ty, val |-> held[ty]])
    /\ UNCHANGED <<statusVars, usbVars, bleVars, writer, retrying, held, host, lost,
                   events, shared>>

\* Mutant: the active host is not looked at again before the send.
StillActive_Any(t) == TRUE

\* active_transport() == Some(transport), checked again after the wait.
StillActive(t) == ActiveTransport = {t}

\* A blocked producer finds room: it drops the report if the transport has
\* changed, else it tries again.
Resume(p) ==
    /\ \E s \in sender[p] :
         /\ Room(s.to)
         /\ chan' = IF StillActive(s.to)
                    THEN [chan EXCEPT ![s.to] = Append(@, s.report)] ELSE chan
    /\ sender' = [sender EXCEPT ![p] = {}]
    /\ UNCHANGED <<statusVars, usbVars, bleVars, writer, retrying, held, host, lost,
                   reports, events, shared>>

-----------------------------------------------------------------------------
(* The writers.                                                            *)

Deliver(t, r) ==
    /\ host' = [host EXCEPT ![t][r.type] = r.val]
    /\ lost' = [lost EXCEPT ![t][r.type] = FALSE]

Drop(t, r) ==
    /\ lost' = [lost EXCEPT ![t][r.type] = TRUE]
    /\ UNCHANGED host

\* run_writer receives; on a suspended bus it asks for a wakeup and drops the
\* report.
UsbReceive ==
    /\ writer["usb"] = {}
    /\ chan["usb"] # <<>>
    /\ LET r == Head(chan["usb"]) IN
         \/ /\ usb = "Suspended"
            /\ wakeup' = TRUE
            /\ asked' = TRUE
            /\ Drop("usb", r)
            /\ UNCHANGED writer
         \/ /\ usb # "Suspended"
            /\ writer' = [writer EXCEPT !["usb"] = {r}]
            /\ UNCHANGED <<wakeup, asked, host, lost>>
    /\ chan' = [chan EXCEPT !["usb"] = Tail(@)]
    /\ UNCHANGED <<statusVars, preSuspend, bootMode, device, bleVars, sender,
                   retrying, held, reports, events, shared>>

\* write_report succeeds: the host polled the endpoint.  A host in the boot
\* protocol reads the boot interface only, other types are skipped.
UsbWrite ==
    /\ \E r \in writer["usb"] :
         \/ /\ usb = "Configured"
            /\ ~ bootMode \/ r.type = BootType
            /\ Deliver("usb", r)
         \/ /\ bootMode
            /\ r.type # BootType
            /\ Drop("usb", r)
    /\ writer' = [writer EXCEPT !["usb"] = {}]
    /\ retrying' = FALSE
    /\ UNCHANGED <<statusVars, usbVars, bleVars, chan, sender, held, reports, events, shared>>

\* write_report fails with EndpointError::Disabled: ask for a wakeup and try the
\* same report again after 500 ms; the second failure drops it.
UsbWriteDisabled ==
    /\ usb # "Configured"
    /\ \E r \in writer["usb"] :
         \/ /\ ~ retrying
            /\ retrying' = TRUE
            /\ wakeup' = TRUE
            /\ asked' = (asked \/ usb = "Suspended")
            /\ UNCHANGED <<writer, host, lost>>
         \/ /\ retrying
            /\ retrying' = FALSE
            /\ writer' = [writer EXCEPT !["usb"] = {}]
            /\ Drop("usb", r)
            /\ UNCHANGED <<wakeup, asked>>
    /\ UNCHANGED <<statusVars, preSuspend, bootMode, device, bleVars, chan, sender,
                   held, reports, events, shared>>

\* The BLE writer runs while a connection is served.
BleReceive ==
    /\ serving
    /\ writer["ble"] = {}
    /\ chan["ble"] # <<>>
    /\ writer' = [writer EXCEPT !["ble"] = {Head(chan["ble"])}]
    /\ chan' = [chan EXCEPT !["ble"] = Tail(@)]
    /\ UNCHANGED <<statusVars, usbVars, bleVars, sender, retrying, held, host, lost,
                   reports, events, shared>>

\* write_report notifies the host, or fails on a dead link.
BleWrite ==
    /\ serving
    /\ \E r \in writer["ble"] :
         \/ link /\ Deliver("ble", r)
         \/ ~ link /\ Drop("ble", r)
    /\ writer' = [writer EXCEPT !["ble"] = {}]
    /\ UNCHANGED <<statusVars, usbVars, bleVars, chan, sender, retrying, held,
                   reports, events, shared>>

-----------------------------------------------------------------------------
(* USB: usb_device_task and the UsbDeviceHandler callbacks.                *)

LinkEvent == events < MaxLinkEvents /\ events' = events + 1 /\ UNCHANGED shared

\* A host that resets, unconfigures or loses the device forgets its keys.
HostForgets(t) ==
    /\ host' = [host EXCEPT ![t] = AllUp]
    /\ lost' = [lost EXCEPT ![t] = [ty \in Types |-> FALSE]]

\* The bus is polled by run_until_suspend and by wait_resume, not while
\* remote_wakeup is awaited.
Polled == device # "waking"

\* enabled(true), enabled(false)
UsbEnabled(on) ==
    /\ IF on THEN UNCHANGED <<events, shared>> ELSE LinkEvent
    /\ Polled
    /\ on <=> usb = "Disabled"
    /\ UpdateStatus(IF on THEN "Enabled" ELSE "Disabled", ble, preferred)
    /\ HostForgets("usb")
    /\ device' = "run"
    /\ UNCHANGED <<preSuspend, bootMode, wakeup, asked, bleVars, sender, writer,
                   retrying, held, reports>>

\* reset()
UsbReset ==
    /\ LinkEvent
    /\ Polled
    /\ usb # "Disabled"
    /\ bootMode' = FALSE
    /\ preSuspend' = "Enabled"
    /\ UpdateStatus("Enabled", ble, preferred)
    /\ HostForgets("usb")
    /\ device' = "run"
    /\ UNCHANGED <<wakeup, asked, bleVars, sender, writer, retrying, held, reports>>

\* configured(true), configured(false)
UsbConfigured(on) ==
    /\ IF on THEN UNCHANGED <<events, shared>> ELSE LinkEvent
    /\ device = "run"
    /\ usb = IF on THEN "Enabled" ELSE "Configured"
    /\ UpdateStatus(IF on THEN "Configured" ELSE "Enabled", ble, preferred)
    /\ HostForgets("usb")
    /\ UNCHANGED <<usbVars, bleVars, sender, writer, retrying, held, reports>>

\* Only a configured device is published as Suspended.
SuspendPublished == usb = "Configured"

\* suspended(true): run_until_suspend returns.
UsbSuspend ==
    /\ LinkEvent
    /\ device = "run"
    /\ usb # "Disabled"
    /\ device' = "suspended"
    /\ asked' = FALSE
    /\ IF SuspendPublished
       THEN /\ preSuspend' = usb
            /\ UpdateStatus("Suspended", ble, preferred)
       ELSE UNCHANGED <<preSuspend, statusVars, chan>>
    /\ UNCHANGED <<bootMode, wakeup, bleVars, pipeVars, reports>>

\* suspended(false): the host, or a successful remote_wakeup, resumes the bus.
UsbResume(from) ==
    /\ device = from
    /\ device' = "run"
    /\ IF usb = "Suspended" THEN UpdateStatus(preSuspend, ble, preferred)
       ELSE UNCHANGED <<statusVars, chan>>
    /\ UNCHANGED <<preSuspend, bootMode, wakeup, asked, bleVars, pipeVars, reports>>

HostResumes == UsbResume("suspended") /\ UNCHANGED <<events, shared>>

\* USB_REMOTE_WAKEUP.wait() wins the select: remote_wakeup is called.
TakeWakeup ==
    /\ device = "suspended"
    /\ wakeup
    /\ wakeup' = FALSE
    /\ device' = "waking"
    /\ UNCHANGED <<statusVars, preSuspend, bootMode, asked, bleVars, chan, pipeVars,
                   reports, events, shared>>

WakeupSucceeds == UsbResume("waking") /\ UNCHANGED <<events, shared>>

\* remote_wakeup fails (the host did not enable it): the loop waits again.
WakeupFails ==
    /\ device = "waking"
    /\ device' = "suspended"
    /\ UNCHANGED <<statusVars, preSuspend, bootMode, wakeup, asked, bleVars, chan,
                   pipeVars, reports, events, shared>>

\* set_protocol
SetProtocol ==
    /\ LinkEvent
    /\ usb = "Configured"
    /\ bootMode' = ~ bootMode
    /\ UNCHANGED <<statusVars, preSuspend, device, wakeup, asked, bleVars, chan,
                   pipeVars, reports>>

-----------------------------------------------------------------------------
(* BLE: what the connection loop and gatt_events_task do to the status.    *)

BleAdvertise ==
    /\ ~ serving
    /\ ble = "Inactive"
    /\ UpdateStatus(usb, "Advertising", preferred)
    /\ UNCHANGED <<usbVars, bleVars, pipeVars, reports, events, shared>>

\* A host connects and serve_keyboard_connection starts.
BleAccept ==
    /\ ~ serving
    /\ ble = "Advertising"
    /\ serving' = TRUE
    /\ link' = TRUE
    /\ UNCHANGED <<statusVars, usbVars, chan, pipeVars, reports, events, shared>>

\* GattConnectionEvent::Encrypted
BleEncrypted ==
    /\ serving
    /\ link
    /\ ble = "Advertising"
    /\ UpdateStatus(usb, "Connected", preferred)
    /\ UNCHANGED <<usbVars, bleVars, pipeVars, reports, events, shared>>

\* The link is lost; gatt_events_task has not seen the event yet.
BleLinkLost ==
    /\ LinkEvent
    /\ link
    /\ link' = FALSE
    /\ HostForgets("ble")
    /\ UNCHANGED <<statusVars, usbVars, serving, chan, sender, writer, retrying, held,
                   reports>>

\* The served connection ends: its writer is dropped with the report in hand.
EndServe ==
    /\ serving' = FALSE
    /\ link' = FALSE
    /\ writer' = [writer EXCEPT !["ble"] = {}]
    /\ HostForgets("ble")

\* gatt_events_task returns and the loop sets Inactive, without an await.
BleServeEnds ==
    /\ serving
    /\ ~ link
    /\ EndServe
    /\ UpdateStatus(usb, IF ble = "Advertising" THEN ble ELSE "Inactive", preferred)
    /\ UNCHANGED <<usbVars, sender, retrying, held, reports, events, shared>>

\* update_profile wins the select: set_ble_profile, then the host is disconnected.
BleSwitchProfile ==
    /\ LinkEvent
    /\ serving
    /\ EndServe
    /\ UpdateStatus(usb, "Inactive", preferred)
    /\ UNCHANGED <<usbVars, sender, retrying, held, reports>>

\* toggle_preferred
TogglePreferred ==
    /\ LinkEvent
    /\ UpdateStatus(usb, ble, IF preferred = "usb" THEN "ble" ELSE "usb")
    /\ UNCHANGED <<usbVars, bleVars, pipeVars, reports>>

-----------------------------------------------------------------------------
UsbWriter == UsbReceive \/ UsbWrite \/ UsbWriteDisabled
BleWriter == BleReceive \/ BleWrite

UsbDevice ==
    \/ \E on \in BOOLEAN : UsbEnabled(on) \/ UsbConfigured(on)
    \/ UsbReset
    \/ UsbSuspend
    \/ HostResumes
    \/ TakeWakeup
    \/ WakeupSucceeds
    \/ WakeupFails
    \/ SetProtocol

BleConnection ==
    \/ BleAdvertise
    \/ BleAccept
    \/ BleEncrypted
    \/ BleLinkLost
    \/ BleServeEnds
    \/ BleSwitchProfile

Next ==
    \/ \E ty \in Types, v \in Values : KeyboardReport(ty, v)
    \/ \E ty \in Types : PointingReport(ty)
    \/ \E p \in Producers : Resume(p)
    \/ UsbWriter
    \/ BleWriter
    \/ UsbDevice
    \/ BleConnection
    \/ TogglePreferred

Spec == Init /\ [][Next]_vars

\* The executor polls a writer when its channel has a report, a producer when
\* its channel has room, and the connection loop when the link ends; a
\* configured host polls its endpoints.  A write on a suspended bus fails on
\* some USB peripherals only, on the others it waits for the resume.
Fairness ==
    /\ WF_vars(UsbReceive)
    /\ WF_vars(UsbWrite)
    /\ WF_vars(usb # "Suspended" /\ UsbWriteDisabled)
    /\ WF_vars(BleWriter)
    /\ WF_vars(BleServeEnds)
    /\ WF_vars(TakeWakeup)
    /\ \A p \in Producers : WF_vars(Resume(p))

FairSpec == Spec /\ Fairness

-----------------------------------------------------------------------------
\* Nothing is on its way to the host behind t.
Quiet(t) ==
    /\ chan[t] = <<>>
    /\ writer[t] = {}
    /\ \A p \in Producers : sender[p] = {}

\* A host that stopped being the active one has released everything once the
\* writer has drained its channel, whatever was queued, in the writer's hands or
\* blocked when the transport flipped ("so the previous host releases any
\* pressed keys and buttons", clear_and_release_report_channel).
PreviousHostReleased ==
    \A t \in Transports : t \notin ActiveTransport /\ Quiet(t) =>
        \A ty \in Types : ~ lost[t][ty] => host[t][ty] = Up

\* The host shows no key that the keyboard does not hold, once its channel is
\* drained, across any sequence of flips, suspends and reconnects
\* (send_hid_report, update_status).
NoStuckKey ==
    \A t \in Transports : Quiet(t) =>
        \A ty \in Types \ shared :
            ~ lost[t][ty] => host[t][ty] \in {Up, held[ty]}

\* A BLE host is shown nothing that was queued for the host of an earlier
\* connection: while no connection is served, only releases wait in its channel
\* unless BLE is still the active transport.
NothingLeftForNextHost ==
    "ble" \notin ActiveTransport =>
        \A i \in DOMAIN chan["ble"] : chan["ble"][i].val = Up

\* A producer blocked on a full channel gets on, also when the link of that
\* channel is gone: the flip makes room and wakes it (send_hid_report).  Only a
\* suspended bus may hold it until the host resumes.
SendersProgress ==
    \A p \in Producers : sender[p] # {} ~> (sender[p] = {} \/ usb = "Suspended")

\* The bus is woken for a report that is "pending and the bus is suspended"
\* (UsbKeyboardWriter::run_writer), not for one of an earlier suspend.
WakeupIsForReport == [][TakeWakeup /\ usb = "Suspended" => asked]_vars

\* A host that is not the active one holds nothing, once drained, and nothing waits for
\* the one that comes after it (clear_and_release_report_channel).
InactiveHostIsClean == TypeOK /\ PreviousHostReleased /\ NothingLeftForNextHost

=============================================================================
