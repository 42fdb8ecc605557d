# RMK: models and proofs

TLA+ models of the firmware library RMK (`rmk/`, `rmk-types/`), TLC
configurations that check them on small instances, and TLAPS proofs. Paths are
relative to the repository (`rmk/src/keyboard.rs` is `src/rmk/src/keyboard.rs`
in `PROJECT.json`). `PROJECT.json` lists the components, the runs, the map from
definitions to lines of code, one mutant per checked property, the hazards and
the theorems.

## The system

RMK is an async firmware for keyboards: a handful of tasks on one embassy
executor that exchange events over bounded channels and share a few statics. A
task runs until an `.await`; everything between two awaits is atomic with
respect to the others.

    matrix, encoders, pointing devices, split peripherals
            | KeyboardEvent / PointingEvent (pub/sub channels)
            v
    keyboard task (keyboard.rs, keymap.rs, keyboard/*)      pointing processor
            | Report                                          | Report
            v                                                 v
    send_hid_report (channel.rs): channel of the active transport (state.rs)
            |                                   |
    USB writer (usb/mod.rs)             BLE writer (ble/mod.rs)
            v                                   v
          host                                host
    every task that persists something --> storage task (storage/mod.rs) --> flash
    the other half of a split keyboard  <-- PeripheralManager (split/) --> its firmware (dfu/)
    host programs (rynk/) <-- Rynk session (host/rynk) --> keymap;  through a dongle: router (dongle/)

| Component | State | Operations | Hard because |
|---|---|---|---|
| key event engine | held buffer, registered keys, deadlines | key event, buffered-key timeout, decisions on held tap-hold keys | decisions on one key fire others; timeouts race events; layers change under buffered keys |
| combos | pressed mask and trigger flag per combo | press, release, re-press, dispatch, timeout | overlapping chords; share the buffer with tap-hold keys |
| one-shots | `None/Initial/Single/Held`, deadline | press, use, release, expiry | each other's keys use them up |
| keymap and layers | layer set, default layer, layer of every press | (de)activate, toggle, tri-layer, look-up | the release must undo its press |
| mouse keys, auto mouse layer | direction counters and repeat timers; a deadline per entry | key, repeat tick; motion, layer change, timeout | the layer is shared with layer keys |
| matrix, debouncers, encoder | timestamps modulo 2^16; last pins | scan, wait for an edge; sample | wrap-around, late scans, missed edges |
| connection status, report routing | USB state, BLE state, preference; two report channels | status updates with flip, send, drain | a flip while reports are queued, in hand or blocked |
| USB transport | device state, wakeup signal, boot mode | device callbacks, write, retry, remote wakeup | suspend races reports |
| BLE host side: connection loop, profiles, passkey, sleep | link, active profile, bond slots, passkey session, sleep input | advertise, accept, pair, serve, switch, clear, save, type digits, sleep | four copies of one bond; peers turned away; signals that keep the latest value |
| storage task | queue, request id, one reply slot, flash | store, read, reset, boot-time schema check | cancelled requests, id wrap, power loss |
| split link | slots and sessions; pushed state; address and bond on either side | scan, connect, serve, lose, clear; forward state, keys, battery | loss, reconnect, stale addresses, changes during a session's start |
| firmware update | command queue, write position, lock; chunk, try and attempt of a transfer | USB download, chunk transfer, verdict, swap, relock | failures noted late, changed frames, power cuts |
| Rynk sessions and host library | slots and sequence numbers, elected pump; deframer, parked requests, lock, topics | request, cancel, serve, forward, connect | cancelled calls, glued frames, a buffer shared by requests and replies |
| dongle | bond, link, two queues between host and keyboard | pairing window, connect, secure, relay, route | links that drop in the middle of a frame |
| forks, caps word, macros | active forks and keep mask; word state; queue of halves, chunks on flash | replace, finish; play, edit, save, boot | a fork must undo itself; host edits while a macro plays, saves that stop half way |
| Via/Vial, steno, display, LEDs, drivers, configuration | see `PROJECT.json` | | not modelled |

`PROJECT.json` "components" has the full list with status and reason, "hazards"
the places where this code is hardest to test, each with the property that covers
it or a note.

## Modules

| Module | Models |
|---|---|
| `StorageQueue` | the storage task and its clients (`storage/mod.rs`) |
| `FlashStore` | what `store()` and `read()` promise: the abstract specification `StorageQueue` implements |
| `ReportRouting` | connection status, report channels, USB and BLE writers (`state.rs`, `channel.rs`, `usb/mod.rs`, `ble/mod.rs`) |
| `Passkey`, `BleHost` | passkey entry; connection loop, profile manager, saver and sleep manager (`ble/`) |
| `SplitLink` | how a split central finds and keeps its peripherals (`split/ble/`) |
| `SplitSession` | one session between the two (`split/driver.rs`, `split/peripheral.rs`) |
| `DfuFlash`, `Dfu` | the flash handler of one half; downloads and automatic updates of both (`dfu/`, `usb/dfu.rs`, `split/dfu.rs`) |
| `Rynk` | host library and keyboard session of the Rynk protocol (`rynk/src/driver.rs`, `rynk-wasm`, `host/rynk`, `host/lock.rs`) |
| `DongleRouter`, `Dongle` | the router of a dongle's host sessions; pairing, link and relay (`dongle/`) |
| `Morse` | tap/hold bit patterns and their look-ups (`rmk-types/src/morse.rs`, pure part of `keyboard/morse.rs`) |
| `KeyActions`, `HeldKeys`, `Keyboard` | what a resolved action does; held buffer, tap-hold and morse engine; the keyboard task with combos, deadlines and time |
| `MorsePatterns`, `Debounce`, `Encoder`, `MouseKeys`, `AutoMouseLayer`, `Pages` | parts without state in common with others: bit patterns against sequences, `debounce/` with the scan, `rotary_encoder.rs`, `keyboard/mouse.rs`, `auto_mouse_layer.rs`, paged reads and writes (`rynk/src/api.rs`) |
| `Macros`, `Forks`, `MacroSaves` | forks, caps word and macro playback on plain keys (`keyboard.rs`, `keyboard/macros.rs`, `keyboard/fork.rs`); the macro buffer and its chunks on flash |
| `SmallParts` | those parts side by side: a behaviour exercises one |
| `MC*` | model values, boards and scenarios for TLC |
| `StorageQueueProofs`, `ReportRoutingProofs`, `BleHostProofs`, `SplitLinkProofs`, `SplitSessionProofs`, `DongleProofs`, `RynkProofs`, `SmallPartsProofs` | the TLAPS proofs about the module of that name (`DongleProofs` about the router, too) |

Most modules take their bounds from a *scenario*: a record of how many faults,
user actions, requests and so on are left, chosen in the initial state from the
set in the `MC` module. What the environment does spends the budget; what the
code does never does.

### Storage (`StorageQueue`, `FlashStore`)

`store()` and `read()` are the steps of `request()`: `Call`, `Lock` (take
`REQUEST_ID` and the next id), `Send`, `TakeReply`, and `Cancel`, which drops the
future at any await. `SendUnchecked` is `store_unchecked` and `reset`. The storage
task is `Receive`, `FinishStore`/`FinishRead` (which may fail), `StartReset`,
`FinishReset`; booting is `Probe`, `EraseStep`/`FinishErase`, `WriteHash`;
`PowerCycle` may strike at any step and change the firmware. The erase wipes an
arbitrary part before it is over. A payload is its place in the order of accepted
messages, so that "older" and "newer" can be compared. Erase commands do not fail,
and `write_layout` and serialisation are left out.

`FlashStore` knows no queue, ids or reply slot: a request takes effect at one
moment between its call and its return. `IsAtomicStore` is `FlashStore` under the
mapping at the end of `StorageQueue`: a request is "asked" from its `Call`, takes
effect when the storage task finishes its message, and has its answer from there.

`WithinWindow` in `Lock` states an assumption the code does not check: no message
is still under way that is as old as the number of ids (256). Without it a reply
could carry the id of a later request.

### Routing (`ReportRouting`)

`UpdateStatus` is `update_status` with the flip it may cause
(`clear_and_release_report_channel`); every callback of the USB device handler and
every step of the BLE connection loop that writes the status is an action that
uses it. A producer is `KeyboardReport` or `PointingReport`, and `Resume` when it
was blocked on a full channel; a writer takes a report in one step and delivers it
in another, so that a flip can come in between. `host[t]` is what the host behind a
transport believes is pressed. `lost` excuses what the code documents as lost:
reports dropped by a writer whose link fails. `Pointing` says whether a pointing
processor sends mouse reports too; `shared` marks the type both write, whose
buttons the code may report again after their release.

### BLE host side (`Passkey`, `BleHost`)

A slot holds one bond; the slot after the host profiles is the dongle's. The
connection loop is `Advertise`, `Answers`/`Accept`, `Mismatch` and `Rejected` (a
peer turned away), `DropServe` and `Left`, `AdvTimeout`, `AdvError`, `Restart`;
`UpdateProfile` is `update_profile`, which the loop races against advertising and
against serving. The GATT task's events are `PairingComplete`, `Encrypted`,
`CccdWrite`, `ControlPoint`, `PassKeyInput`. The saver is `SaverTake`,
`SaverStore`, `SaverFails`; `PowerCycle` and `Boot` restart from what was saved.
`SleepIdle`, `SleepInput`, `Slept` are `manage_sleep_state` on a signal that keeps
the latest input. The passkey state is a record; its functions are operators with
the names of the code. The deadline of advertising is counted in `AdvTicks`.

Abstractions: no connection is won in the very poll in which the advertising timer
fires; one host profile beside the dongle's, two peers. The saver takes a changed
bond before the profile, so CCCD tables that keep changing can starve the profile:
`SavedWhenIdle` speaks of an idle saver and nothing claims it becomes idle.

### Split link (`SplitLink`, `SplitSession`)

`SplitLink`: `Top` is the head of `scan_and_connect_peripherals`, from which it
connects (`Connect`, `ConnectError`, `ConnectTimeout`), scans (`ScanReport`,
`GhostReport`, `Take`, `ScanEnds`) or waits (`Woken`, `Wake`). A session task is
`SessionStart`, `SessionStops`, `StackDisconnects`, `SessionEnds`. A board
advertises to its central or to anyone (`DirectedTimeout`), falls asleep
(`SeekTimeout`) and wakes by a key. Addresses are stored without waiting
(`Store`), so a reboot can lose them; `ClearPeer` clears flash only and takes
effect at the next boot. A ghost is the address of a device that is not there.

`SplitSession` starts where a link is up. `ManagerStart` subscribes and takes the
snapshot, `ManagerSync` sends it, `ManagerSend` forwards the changes in the order
of `select_biased`, `ManagerReads` handles what the board says. Channels of
`publish_event` lose their oldest message when full, those of
`publish_event_async` make the sender wait; without a subscriber both drop. The
parameter task is `ParamsRequest`, `ParamsDone`, `ParamsNext`. Left out: serial
sessions (a board that restarts is not noticed), pointing and encoder messages.

Abstractions: a board that is in range and advertises is heard within the 15 s and
30 s windows; the 300 s of a seeking board only pass while the central sleeps.

### Firmware update (`DfuFlash`, `Dfu`)

An image is a sequence of chunks, a flash page holds several, a USB block several
chunks. A cell of flash is erased, new, or spoiled when it is programmed twice or
a chunk arrived changed. The host's requests are `HostStarts`, `HostWrites`,
`HostFinishes`, `HostResets`; every command goes through a queue that two readers
share, the flash handler (`Flash*`) and the lock (`Lock*`), and
that drops the oldest command for a slow reader. The manager of the split link
checks the board's hash (`MgrChecks`, `MgrHash`), sends chunks (`Attempt`,
`Update`), takes acknowledgements, the CRC report and the confirmation; the board
is `Board*`. Frames are lost or changed (`LinkLoses`, `LinkChanges`), deadlines
pass, flash operations fail and the power of either half is cut, each within the
budget of the scenario.

Abstractions: the host asks for the status before it sends; the board's flash
handler runs in the step of the message but for Finish; a deadline passes freely
when nothing is under way and otherwise spends `late`; sending does not fail; a
program that is not the image may or may not pass the sanity check; two images
never share a CRC. The bootloader's swap is external.

### Rynk (`Rynk`, `Pages`)

Bytes come in units: a frame is one unit or two, the last with the closing zero.
A call of the program is `Call`, `Claim` (the slot that has been free for longest, as the
free list is a channel, and a number), `Queue`, `Complete` or `Cancel`, which give the slot back. `Driver::run` is `WritesZero`, `WritesFrame`, `Carries`,
`Reads`; natively one task runs it, in the browser a call that waits does
(`TakePump`), and whoever runs it may return at any time. The keyboard is
`DeviceReads`, `Serve` (deframe, park, dispatch, reply), `Forward` (topics),
`Restarts` after a failed write. `ProgramRestarts` and `Probe` leave half frames
behind. `MaxSeq` numbers wrap. `shown` remembers whether the unlock keys were held since
the session was last locked; each session has a lock of its own.

Abstractions: the awaits inside a handler are one step; a damaged frame that shows
a header may be answered Malformed or skipped; the keyboard keeps its session when
the program restarts, as it does over a serial port.

`Pages` has `read_all` with its lanes and the pages of the bulk handlers, and
`write_all` with the splitting by size; `twice` remembers whether an item was stored that
was stored before.

### Dongle (`DongleRouter`, `Dongle`)

`Dongle` is `DongleCentral::run`: a pairing window (`OpenWindow`, `Gathers`,
`Picks`, `WindowCloses`) or a search for the bonded keyboard (`Asked`), `Connects`,
`Encrypted`/`Pairs`/`Refused`, `SetUp`, the relay and `Releases`; `Saves` is the
profile manager behind it. Keys of a bond are numbers that both sides of one
pairing share. `DongleRouter` is the session of the host: `ReadPiece`, `Forward`,
`Reply`, and the pipes' other ends. `fate[r]` follows each request; `glued` and
`rose` note the two cases the code does not close (a delimiter that never fits
into a full pipe; a link that comes up between two pieces).

Abstractions: a forward that was woken runs before another link is up; both sides
accept bonding. A candidate found in the last two seconds of a window is lost, as
in the code.

### Keyboard (`Morse`, `KeyActions`, `HeldKeys`, `Keyboard`)

The keyboard task handles one key event or one expired deadline at a time and is
the only writer of its state, so each is one action: `PressKey`, `ReleaseKey`,
`ComboKeyTimeout`, `MorseKeyTimeout`, `OneShotTimeout`; `Tick` is the clock. The
state is the record `kb`; the functions of the code are operators from state to
state with their names. `Boards` holds the configurations a run looks at (keymap,
combos, profiles, options); the initial state picks one.

Time is relative: a buffered key carries the ticks to its deadline and its age, and
`pt`, the rank of its press time, because the code sorts by it. A deadline that is
due is served before the next tick, an event of the same tick may come first.
Profiles are resolved: a tap-hold key carries the mode, the timeouts and the
flags that the code looks up for it.

Left out: forks, caps word and macros (on plain keys in `Forks`), consumer and system
keys, passkey digits (in `Passkey`), mouse keys (in `MouseKeys`), runtime edits of the keymap, encoders
and touch. Only the last report is kept (`host`), and keycodes are basic or
modifier keycodes.

### Small parts (`SmallParts`)

`Debounce` has one key, both debouncers, a clock modulo `ClockWrap`, scans that come
late by up to `MaxSkips`, and the wait for an edge of `async_matrix`. `Encoder`
has the knob and samples that miss at most one edge, with a resolution of 1 to 127, as the
code casts it to `i8`; a sample whose pins cannot be read changes nothing and is no sample;
`E8H7Phase` is left out.
`MouseKeys` has nine keys (two for one direction), three configurations and the
repeat timers; configurations with a maximum speed of zero are left out.
`AutoMouseLayer` has the task beside the layer keys, with the events that reach it
late. `Pages` is described above.

`Forks` runs forks, caps word and macros on plain keys: `Macros` has the report, the
register of keys with its rule for keys of macros, caps word and the queue of halves as
operators on the record `fk`; `Forks` adds the forks and the actions. A key event is one
action, a character of a text macro two, because a host may edit the macro while it is
shown; ops are untimed, one-shot modifiers are left out. `MacroSaves` has the macro
buffer, the chunks on flash and two host sessions that save; the message to the flash
task is part of the step that stores a chunk, as `StorageQueue` shows the order is kept.

Each part has its variables and next-state
relation; `SmallParts` puts them side by side so that one run covers them.

## Runs

All bounds are CONSTANTS in the `.cfg` files or scenarios of the `MC` modules.

| Run | Checks | Bounds |
|---|---|---|
| `storage` | `ReplyIsOwn`: a request returns its own answer; `WaitersAreAnswered`; `FlashIsTrue`: acknowledged stores survive (`DurableAck`), reads are as new as the flash when they took the lock (`ReadIsFresh`), nothing of another schema is served (`NoForeignItem`); `IsAtomicStore`: the whole implements `FlashStore`, so stores take effect in order | 2 clients, 2 ids so that they wrap, 1 key, 2 schemas, 2 boots |
| `report_routing` | `NoStuckKey`: the active host believes pressed what is; `InactiveHostIsClean`: the host left behind is released (`PreviousHostReleased`) and nothing waits for the next (`NothingLeftForNextHost`); `SendersProgress`: blocked producers get on | channel of 2, 4 reports, 2 link events, with and without a second producer |
| `ble_host` | `ServiceIsSound`: peer and passkey belong to the session and the bond (`ServedPeerIsBonded`, `PasskeyModeHasSession`, `ResponseIsForSession`); `BondKeepsOwner`; `BondsAgree`: the copies of a bond (`BondedFlag`, `SavedWhenIdle`); `RestsAndWakes` (`AdvertisingEnds`, `ActivityWakes`) | 2 peers, 1 profile and the dongle slot, 1 action, 1 fault; 2 passkey sessions |
| `split_link` | `SlotsFollowSessions` (`SlotTracksSession`, `CleanReconnect`), `EveryoneConnects` | 2 boards, 1 or 2 faults, ghosts, 2 sleep changes |
| `split_session` | `SidesAgree`: both sides hold the same when nothing is under way (`BoardInSync`, `KeysInSync`, `KeysInPlace`, `BatteryInSync`, `ParamsInSync`, `ClearIsWhole`); `SessionWorks`: it comes to that (`EventuallyQuiet`), and keys wake the central (`BoardKeyWakes`) | 2 changes, 3 strokes, a link loss |
| `dfu` | `OnlyWholeImagesBoot`; `FinishedIsTrue`: an update called finished was verified and booted (`FinishedIsVerified`, `FinishedIsBooted`); `OneFaultIsRepaired`; `WaitsEnd` (`UpdateSettles`, `RelocksEventually`) | 3 chunks on 2 pages, 2 retries, 2 attempts, up to 2 faults of every kind |
| `rynk` | `NothingInherited`: no slot is lost or handed out twice (`SlotsAreWhole`), no number is claimed twice (`NumbersAreDistinct`), replies reach who asked for them (`RepliesMatch`); `GatedNeedsPresence`: a gated request is served only where the unlock keys were held; `TopicsCatchUp`; `RequestsSucceed` (`EveryRequestAnswered`, `ConnectSucceeds`) | 2 slots, 4 numbers, a buffer of 3 units, up to 3 calls after the handshake |
| `dongle` | router: `FramesStayWhole` (`NothingParked`, `NoGluedFrame`, `WholeOrAnswered`), `RequestsSettle`; central: `RelayIsSound` (`RelayedIsBonded`, `WorkingBondKept`, `HostReleased`), `Reconnects` | 2 keyboards, 3 pairings, 3 requests |
| `kb_engine` | `NothingSticks`: no key or layer is stuck and all is released at rest (`RegisteredIsHeld`, `LayerIsHeld`, `TriLayerRule`, `AllUp`); `FiresOnce`: no press fires twice, one buffer entry per key (`Once`, `OneEntryPerKey`) | five boards of 3 or 4 keys; buffer of 3, 2 keycode slots, 3 registrations |
| `kb_waiting` | `NothingSticks` with combos; `ChordsKeepOrder`; every wait ends (`WaitsEnd`: `ComesToRest`, `HoldIsDecided`) | four overlapping combos on 4 keys; a board with a chord key, an early-firing morse key and a one-shot |
| `small_parts` | `PatternsAgree`, `DebouncedRight`, `StepsAccountForTurn`, `MouseFollowsKeys`, `LayerFollowsMotion`, `PagesAreWhole`; `ReplacedKeysAreSound`: forks undo themselves and macros neither leave nor take a key (`ForksAreSound`, `MacrosAreSound`); `SavedMacrosBoot` | words of 6 bits; a clock of 8 ms, threshold 2; 4 mouse key events; 2 devices, 3 motions; 2 lanes; six boards with forks or macros, a macro queue of 2; 3 chunks, 2 sessions, 2 edits |
| `kb_panic` | violation: see below | a tap-hold key above a plain key |

A name before brackets is a conjunction of the properties in them, each with its own
comment in the module, and of the module's type invariant `TypeOK`; the runs check the
conjunctions. To check one conjunct alone, put its name in the `.cfg`.

The small capacities are chosen so that overflow happens: four keys on a buffer of
three, three queued commands on a queue of their size, a request of two units
behind another in a buffer of three. Ids, sequence numbers and clocks wrap within a
few steps, which is harder than in the code. Ages and idle times are capped at the
largest value a comparison can tell apart (`MaxAge`, `IdleCap`). Runs without
deadlock check end when their budget is used up; the keyboard runs never do.

### Where the code disagrees with what is said of it

`kb_panic` is the one that is a run: a buffered plain key that is a tap-hold key on
the layer that the decision turned on fails `assert!(!action.is_morse())`
(`keyboard.rs:663`).

The following were met with TLC, too, and end in a counterexample, but are not listed as
runs. `MCWakeup.cfg` and `MCDfuUnlock.cfg` are kept beside the others; the rest take a few
lines changed in another configuration:

- `MCWakeup.cfg` (`WakeupIsForReport`): the remote wakeup raised for one suspend is
  still set at the next (`usb/mod.rs:87`).
- `PasskeyIsFresh` (`MCBleHost.cfg` with `SPECIFICATION Spec`, `AdvTicks = 1`,
  `PasskeyLength = 2`, this invariant and no property): digits typed for a passkey session that timed
  out count for the next one when no key event came in between (`ble/passkey.rs:193`).
- `MCDfuUnlock.cfg` (`UnlockLasts`): a second UnlockRequest while the download is
  awaited closes the lock (`dfu/mod.rs:649`; the doc at `:568` gives ten seconds).
- `NoOvertaking` (`MCKbWaiting.cfg` with `SPECIFICATION Spec`, `Boards <- LayerTap`, this
  invariant and no property): with a permissive layer-tap undecided and A, B
  pressed behind it, the release of B reports B while A stays buffered
  (`keyboard.rs:652`).
- `RegisteredIsHeld` (the same with `Boards <- ChordTapHold`): the flush of buffered keys takes a key
  that waits for its combo but leaves the combo armed; the combo later consumes the
  key's release (`keyboard/morse.rs:264`).
- `AllUp` (`MCKbEngine.cfg` with `KeySlots = 6`, `RegCapacity = 16`, `HoldBuffer = 16`,
  `Boards <- StickyOneShots` and this invariant): with `activate_on_keypress`, a one-shot modifier used
  up by a one-shot layer key is never reported as released (`keyboard.rs:1318`).

Met and without a configuration: a combo whose output is held when combos are
switched off is not released; `LayerOff` does not "Reactivate the layer after the
key is released" as its comment says; a flow tap into a full held buffer reports its
press and loses the entry that would report the release; an edit that ends a macro
between two characters leaves the text's shift at the host (`cut` in `Macros`); after a
first save that stopped, a later one skips a chunk that became empty and leaves the old
one on flash (`stale` in `MacroSaves`); a second fork that fires on the same modifier
clears the keep mask of the first one too.

Three more came from proofs that failed, and bound what the runs say:

- Request numbers of Rynk come round after 255 and `alloc_seq` does not look whether a number
  is still in use or its answer under way (`rynk/src/driver.rs:266`; `:147` says that a late
  reply is "dropped as unmatched"). With `MaxSeq = 4` and six `lock` calls of which the third
  is cancelled, TLC finds its late reply taken by the seventh request; with `MaxSeq = 7` a
  cancelled call and two restarts do. `NothingInherited` therefore holds in the run because
  no number comes round there, and in the theorems under the condition they name.
- `OnlyWholeImagesBoot` is no theorem for every bound of `Dfu`. An acknowledgement names an
  offset and not a try, and a CRC report names no attempt: when enough answers come after
  their deadline, old ones are taken for those of the current attempt, and a changed chunk
  passes. TLC finds it with 2 chunks, 3 attempts and 5 late answers (4 are not enough), and
  with 3 chunks, 4 attempts and 10. The code allows three attempts and three tries a chunk
  (`split/dfu.rs:312`) for images of thousands of chunks, so it takes a late answer for nearly
  every chunk; the run's bounds exclude it.
- A fork that keeps a modifier (`kept_modifiers`) puts it back in force against the forks that
  suppress it (`keyboard.rs:930`, `:1410`), but only a modifier that is dropped gets a report of
  its own (`:977`). A replacement that is a keycode sends one; when the fork fires a macro or
  nothing, the host sees the modifier up until the next report. TLC finds it on a board with
  two forks on Shift of which one keeps it and triggers a macro; `ReportIsCurrent` therefore
  holds in the run because no board of it has such a fork, and in the theorems under
  `KeepersFireKeys`.

### Fairness

The executor polls every task that was woken. So tasks are weakly fair: the storage
task, the writers, blocked producers whose channel has room, the connection loop,
the saver, the split manager and the board, the flash handler, the driver and the
session of Rynk, the dongle task and its router, and the keyboard's deadlines. In
`Dongle` the choice of the candidate (`Picks`) and the hearing of a keyboard that
advertises (`Heard`) are strongly fair: both compete with other steps again and
again, and advertisements are repeated. Hosts, users, links, peers and power are not
fair: nobody has to press a key, resume a bus, reconnect or end a transfer.

In `Keyboard` the fairness is written with the guards of the actions in place of
ENABLED, which TLC cannot evaluate cheaply on nested definitions; the guards say
exactly when a step that changes the state exists.

## Proofs

The theorems hold for all values of the constants that satisfy the named assumptions: any
number of peers, boards, keyboards, clients or keys, any capacity, any scenario. Every module
has one inductive invariant (two for the storage and Rynk), a lemma per action that preserves
it, and theorems that state the invariants of the runs. TLC checked each invariant on the run
of its module before it was proved.

| Module | Proved | Inductive invariant, and why it is needed |
|---|---|---|
| `StorageQueueProofs` | `TypeCorrect`, `RepliesAreOwn` (`ReplyIsOwn`) | `IInv`: the client that sends or waits holds the lock and the last serial (`HolderInv`); every message under way carries the id its serial took, within the window of distinct ids (`OutstandingInv`). So a reply with the current id has the current serial |
| | `FlashStaysTrue` (`FlashIsTrue`), `StorageIsAtomic` (`IsAtomicStore`) | `FInv`: the queue is in the order in which messages were accepted, all newer than the flash (`OrderInv`); a message under way is what its waiting client asked for (`RequestInv`); before the task runs nothing is queued (`BootInv`); a hash on flash speaks for all items beside it (`SchemaInv`). With it every step of the queue maps to a step of `FlashStore` or a stutter |
| `ReportRoutingProofs` | `InactiveIsReleased` (`InactiveHostIsClean`), `NoKeyStaysStuck` (`NoStuckKey`) | `RInv` reads a channel, what the writer holds and what the host has as one pipe per report type: the last report of the pipe is a release on a transport that is not active, and what the keyboard holds (or a blocked report will say so) on any other |
| `BleHostProofs` | `ServiceStaysSound` (`ServiceIsSound`), `BondsStayInAgreement` (`BondsAgree`), `BondsKeepTheirOwner` (`BondKeepsOwner`), `BleIsSound` | `BleInv`: a slot's last change is marked, in the saver's hands or on flash (`SaverInv`); passkey mode belongs to a session that was begun (`PasskeyInv`) |
| `SplitLinkProofs` | `SlotsAreFollowed` (`SlotsFollowSessions`) | `SLInv`: an address in a slot, on flash or in a report is the board's or a ghost's (`AddrInv`); a board's link has a connected slot and a session that is not over (`LinkInv`) |
| `SplitSessionProofs` | `BothSidesAgree` (`SidesAgree`) | `SSInv`: per topic, key and battery level, the pipe from source to copy (subscription, snapshot, link) either holds nothing about it and the copy is the source, or the last entry about it carries the source's value |
| `DongleProofs` | `FramesAreWhole` (`FramesStayWhole`) | `RouterInv`: what the host will read is a stream whose neighbours fit (`Flows`), the router has sent a part of a request exactly while that request is at the head (`PartInv`) |
| | `RelayStaysSound` (`RelayIsSound`) | `CentralInv`: which bond each state of the loop works with (`BondInv`, `RelayInv`) |
| `RynkProofs` | `SlotsStayWhole` (`TypeOK`, `SlotsAreWhole`), `GatedRequestsNeedPresence` (`GatedNeedsPresence`), `LayerIsCaughtUp` (`TopicsCatchUp`), `RynkIsSound` | `RynkInv`: slots and calls own each other; the free list holds every slot without an owner once (`FreeInv`), so a slot that comes back finds room, by counting slots; a session is open, or the keys held, only when they were shown (`PresenceInv`); an answer that tells the layer is the newest or a topic follows it (`CatchInv`), which starts after the handshake (`HandshakeInv`) |
| | `FreeNumbersSuffice`, `FewRequestsInheritNothing` (`NothingInherited`) | `NumbersInv`: claimed numbers are distinct, and what travels with the number of a claimed slot is an answer to its request. It is inductive only while a number is free when it is handed out (`NumberIsFree`); the second theorem derives that for programs with fewer requests than numbers (`FewRequests`) |
| `SmallPartsProofs` | `StepsAreCounted` (`StepsAccountForTurn`) | `EncoderInv`: knob, pulses kept and steps sent add up, and fewer pulses are kept than a step needs |
| | `MacrosBoot` (`SavedMacrosBoot`) | `BankInv`: chunk 0 is on flash as soon as any is (`ZeroFirst`), so a boot does not fall back to the defaults; every chunk a job is past is right (`ChunkIsRight`) |
| | `DebouncersKeepTime` | `DebounceInv`: the time stamp, modulo the clock, is as old as the change of the contact, or the millisecond that reads 0 or a late scan excuses it |
| | `LayerStaysWhileMoving`, `DeadlinesSpareKeys` | `AutoInv`: an entry's deadline, the owner of its layer and what the task has yet to hear agree |
| | `PointerDoesNotDrift`, `SpeedNeverDrops` | `MouseInv`: an axis goes with the keys that are down (`GoesWith`, `NotAgainst`); speeds grow with the repeats. The latter assumes `TopSpeedsAreSet`, no maximum speed of zero |
| | `ReplacedKeysStaySound` (`ReplacedKeysAreSound`), `ForksAndMacrosEnd` | `ForksHold`: every active fork and every registered key belongs to a key that is down, or to a macro (`ForksOfKeys`, `KeysOfKeys`); the host shows the registered keycodes and the modifiers in force (`CodesShown`, `ModifiersShown`); whatever a macro pressed, or has queued to press, has its release ahead, in the queue or in the second half that a trigger still down owes (`EndsAhead`); each source holds one keycode (`OneOfEach`), so the slots of a report suffice |
| | `ReadsAreGapless` | `ReadInv`: every item of the windows claimed so far is in a page or still owed by a lane (`Owed`), and a lane ends only when the windows reach the total |
| | `PagesStayWhole` (`PagesAreWhole`) | in addition, by the turns of the stitch (`Stitching`): the result reaches as far as the pages that were taken, so an item that is next would be on a page that was taken, or on one that starts before the earliest left (`TurnOfStitch`); no turn meets a gap, and as many turns as pages take them all. Assumes `TotalsAreTrue`, see below |
| | `PatternsAreSequences` (`PatternsAgree`) | `PatternsInv`: the sequences are of at most `Width - 1` steps. A pattern of n steps lies between 2^n and 2^(n+1) (`PatternSteps`), so the leading 1 tells the length and no shift loses a bit; shifting out the last steps leaves the pattern of those before (`PatternShifted`), which makes patterns unique and prefixes agree. Powers of two are counted as subsets, as the library has no fact about exponents |
| | `WritesAreWhole` | `WriteInv`: the pages closed so far and the open one hold the items before the current one (`Splits`); the lanes' shares are all pages, whatever their number. Nothing is stored twice: closed pages share no item (`Apart`) and no page is in the share of two lanes (`LanesApart`) |

The assumptions on constants are named in the modules that declare them. Most say what
type a constant has; those that say more: at least two ids (`SizesAssumption`), and
`WithinWindow` as part of the model (see Storage); the report channel holds a release of every
type (`ChannelHoldsRelease`; the default `REPORT_CHANNEL_SIZE` is 16, the types are five); a Rynk buffer of at least two units (`RynkSizes`); a dongle is bonded to one
keyboard at most at first (`DongleScenarios`); a resolution that an `i8` holds
(`EncoderPhases`); a word for morse patterns that has a bit (`PatternBits`).

Five theorems of `SmallPartsProofs` are parts of the properties of run `small_parts`:
`DebouncedRight`, `LayerFollowsMotion` and `MouseFollowsKeys` are conjunctions with liveness.
`WritesAreWhole` and `ReadsAreGapless` are the parts of `PagesAreWhole` that hold for every device.

`PagesStayWhole` needs `TotalsAreTrue`: no device has more items than its capabilities say. With
more of them the last page of a window may reach beyond the total, as `bulk_page` only looks at
what the device has, and `read_all` does not cut it; so the result may then be longer than the
total asked for. The firmware's combos and morses sit in arrays of the size that it advertises,
at most 255 by the checks of `rmk-config`, and its keymap has the advertised dimensions.

The forks and macros need three conditions on the configuration, which `Forks` states beside
the properties and `MCSmallParts` has TLC evaluate on the boards of the run
(`MCBoardsQualify`): forks that keep modifiers fire keycodes (`KeepersFireKeys`, see "Met and
without a configuration"); every press of a macro has a release behind it (`MacrosBalance`), as
a macro may also hold a key on purpose; no more keycodes can be down at once than a report has
slots (`ReportsHaveRoom`), as a full report drops keys. `ForksAndMacrosEnd` says which of the
seven conjuncts needs which: on any board, forks end with their key, a modifier pressed since
counts, caps word shifts letters only and a text gives its modifiers back; the other three need
one condition each. The chain of forks at a press is a recursive function (`Bound`), as are the steps of a morse pattern (`Encoded`) and the
turns of a stitch (`Stitched`); their proofs go by the least turn of the loop that is not as
claimed (`UpToN`), as an induction theorem cannot be used.

What stays with TLC:

- liveness, fairness and ENABLED, which are out of the prover's reach: `WaitersAreAnswered`,
  `SendersProgress`, `RestsAndWakes`, `EveryoneConnects`, `SessionWorks`, `WaitsEnd`,
  `RequestsSucceed`, `RequestsSettle`, `Reconnects`, and the liveness conjuncts of the small parts;
- `Dfu`: `OnlyWholeImagesBoot` is not true for every bound (see above), and `FinishedIsTrue`
  rests on the same acknowledgements;
- the keyboard (`NothingSticks`, `FiresOnce`, `ChordsKeepOrder`): one event runs through
  combos, morse keys, layers and one-shots, whose operators fold over the held buffer and the
  registered keys; forks and macros, whose step calls five of these operators, took over a fifth of
  all lemmas.

## Not modelled

- Data without control: items and layout of the flash, keycode tables, the messages
  of the protocols, KLE layouts, battery curves, descriptors, configuration and code
  generation (`rmk-config`, `rmk-macro`), which make up most of the lines.
- Hardware: matrices, sensors, SPI, PIO and flash drivers, watchdog, display, LEDs.
- Logic that is left: Via and Vial (request and response without concurrency), forks
  and macros on tap-hold keys (the runs of `KeyActions` are at their limit), steno,
  serial framing of the split link, `E8H7Phase`, joystick.

## Plan

1. Proofs: the flash handler of `Dfu` apart from the link (what Finish verified is what
   boots), `FinishedIsTrue` for bounds on late answers; lemmas about layers and registered keys
   in `KeyActions`, from which `NothingSticks` for a board without held keys follows; one-shot
   modifiers in `Forks`, whose invariant then has a third owner of modifiers.
2. Abstract specifications: routing as "the active host shows what is held, all others
   nothing"; the split session as a mirror of the central's status.
3. Forks and macros composed with the key event engine.
