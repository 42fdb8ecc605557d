------------------------------ MODULE BleHost ------------------------------
(***************************************************************************)
(* The BLE side of the keyboard towards its hosts (rmk/src/ble): the       *)
(* connection loop that advertises, connects and serves; the profile       *)
(* manager with its bond slots and its saver; the sleep manager; passkey   *)
(* entry (Passkey.tla).                                                    *)
(*                                                                         *)
(* A slot holds one bond.  Slots 0 .. NumProfiles-1 are host profiles, the *)
(* slot after them belongs to the dongle.  The slot of the active profile  *)
(* is the only one whose keys the BLE stack knows.                         *)
(***************************************************************************)
EXTENDS Passkey, FiniteSets

CONSTANTS
    NumProfiles,    \* NUM_BLE_PROFILE
    Peers,          \* hosts and dongles in range
    NoPeer,
    AdvTicks,       \* how many clock ticks an advertising session lasts
    Scenarios       \* what a behaviour may contain, see Scenario

ASSUME BleTypes == NumProfiles \in Nat \ {0} /\ NoPeer \notin Peers
ASSUME BleTime == AdvTicks \in Nat \ {0}

DongleProfile == NumProfiles
Profiles      == 0 .. NumProfiles - 1
Slots         == 0 .. DongleProfile     \* BOND_SLOTS, on a dongle build

Bond    == [kind : {"bond"}, peer : Peers]
Empty   == [kind |-> "empty", peer |-> NoPeer]
Removed == [kind |-> "removed", peer |-> NoPeer]

\* Whether the sleep manager is configured (a timeout of 0 disables it), the peers
\* that come into range, the peers bonded at first, and the bounds: how many profile
\* actions, faults (power cycles, failed reads and stores, radio errors) and passkey
\* requests are left.
Scenario == [sleepManager : BOOLEAN, peers : SUBSET Peers,
             stored : [Slots -> Peers \union {NoPeer}],
             actions : Nat, faults : Nat, sessions : 0 .. MaxSessions]

ASSUME BleScenarios == Scenarios \subseteq Scenario

\* BleProfileAction.
SwitchTo(p)  == [kind |-> "switch", slot |-> p]
ClearSlot(p) == [kind |-> "clear", slot |-> p]
Previous     == [kind |-> "previous", slot |-> 0]
NextProfile  == [kind |-> "next", slot |-> 0]
ClearBond    == [kind |-> "clear active", slot |-> 0]
Actions == {SwitchTo(p) : p \in Slots} \union {ClearSlot(p) : p \in Slots}
               \union {Previous, NextProfile, ClearBond}

NoDeadline == AdvTicks + 1
NoLink     == [peer |-> NoPeer, keys |-> FALSE, event |-> "none"]

VARIABLES
    ble,        \* ConnectionStatus.ble: profile, state, bonded
    bonds,      \* ProfileManager.profiles
    stack,      \* peers whose keys the BLE stack holds
    loop,       \* where connection_loop is
    deadline,   \* adv_deadline, in ticks left
    link,       \* the connection: its peer, whether the stack can encrypt it,
                \* the pairing event gatt_events_task has yet to see
    outbox,     \* profile actions the keyboard task has yet to send
    chan,       \* BLE_PROFILE_CHANNEL, of capacity 1
    dirty,      \* slots, and "profile", the saver has yet to take
    saver,      \* the item the saver is storing
    flash,      \* what storage holds
    sleep,      \* SLEEPING_STATE and SLEEP_INPUT
    pk,         \* passkey entry
    faulty,     \* history: a read or store failed or the power went
    left        \* the scenario, and what is left of its bounds

profileVars == <<ble, bonds, stack>>
saverVars   == <<dirty, saver, flash>>
queueVars   == <<outbox, chan>>
vars == <<profileVars, loop, deadline, link, queueVars, saverVars, sleep, pk,
          faulty, left>>

Item == [slot : Slots \union {DongleProfile + 1}, bond : Bond \union {Empty, Removed},
         profile : Slots]
ProfileKey == DongleProfile + 1     \* the storage key of the active profile

TypeOK ==
    /\ ble \in [profile : Slots, state : {"Inactive", "Advertising", "Connected"},
                bonded : BOOLEAN]
    /\ bonds \in [Slots -> Bond \union {Empty, Removed}]
    /\ stack \subseteq Peers
    /\ loop \in {"off", "top", "adv", "rejecting", "serving", "leaving", "asleep"}
    /\ deadline \in 0 .. NoDeadline
    /\ link \in [peer : Peers \union {NoPeer}, keys : BOOLEAN,
                 event : {"none", "bond", "no bond"}]
    /\ outbox \in Seq(Actions) /\ Len(outbox) <= 2
    /\ chan \subseteq Actions /\ Cardinality(chan) <= 1
    /\ dirty \subseteq Slots \union {ProfileKey}
    /\ saver \subseteq Item /\ Cardinality(saver) <= 1
    /\ flash \in [bonds : [Slots -> Bond \union {Empty, Removed}], profile : Slots]
    /\ sleep \in [asleep : BOOLEAN, input : {"none", "sleep", "activity"}]
    /\ pk \in PasskeyType
    /\ faulty \in BOOLEAN
    /\ left \in Scenario

NoBonds == [s \in Slots |-> Empty]

Init ==
    /\ ble = [profile |-> 0, state |-> "Inactive", bonded |-> FALSE]
    /\ bonds = NoBonds
    /\ stack = {}
    /\ loop = "off"
    /\ deadline = NoDeadline
    /\ link = NoLink
    /\ outbox = <<>>
    /\ chan = {}
    /\ dirty = {}
    /\ saver = {}
    /\ left \in Scenarios
    /\ flash = [bonds   |-> [s \in Slots |-> IF left.stored[s] = NoPeer THEN Empty
                                            ELSE [kind |-> "bond", peer |-> left.stored[s]]],
                profile |-> 0]
    /\ sleep = [asleep |-> FALSE, input |-> "none"]
    /\ pk = PasskeyIdle
    /\ faulty = FALSE

-----------------------------------------------------------------------------
(* Bond slots.                                                             *)

\* bond_info(s) is some: the slot has a bond that was not removed.
Live(b, s) == b[s].kind = "bond"

IsBondedDongle(p) == Live(bonds, DongleProfile) /\ bonds[DongleProfile].peer = p

\* update_stack_bonds: the stack forgets all keys and learns those of profile p.
StackBonds(b, p) == IF Live(b, p) THEN {b[p].peer} ELSE {}

\* Mutant: the bonded flag keeps its old value.
SetProfiles_StaleFlag(b, p, s) ==
    /\ bonds' = b
    /\ ble' = [ble EXCEPT !.profile = p, !.state = s]
    /\ stack' = StackBonds(b, p)

\* The slots become b and profile p active in state s, with the stack and the
\* bonded flag brought up to date.
SetProfiles(b, p, s) ==
    /\ bonds' = b
    /\ ble' = [profile |-> p, state |-> s, bonded |-> Live(b, p)]
    /\ stack' = StackBonds(b, p)

\* SLEEP_INPUT: the latest input wins.  Nobody reads it without a sleep manager.
SignalSleep(input) ==
    sleep' = IF left.sleepManager THEN [sleep EXCEPT !.input = input] ELSE sleep
Activity == SignalSleep("activity")

Action == left.actions > 0 /\ left' = [left EXCEPT !.actions = @ - 1]
Fault  == left.faults > 0 /\ left' = [left EXCEPT !.faults = @ - 1] /\ faulty' = TRUE

-----------------------------------------------------------------------------
(* Profile actions.                                                        *)

\* process_user, on the release of a user key: one action.
UserTap(a) ==
    /\ outbox = <<>> /\ Action
    /\ a \notin {ClearSlot(p) : p \in Slots}
    /\ outbox' = <<a>>
    /\ UNCHANGED <<profileVars, loop, deadline, link, chan, saverVars, sleep, pk, faulty>>

\* fire_user_hold: forget the bond of the slot, then switch to it.
UserHold(s) ==
    /\ outbox = <<>> /\ Action
    /\ outbox' = <<ClearSlot(s), SwitchTo(s)>>
    /\ UNCHANGED <<profileVars, loop, deadline, link, chan, saverVars, sleep, pk, faulty>>

\* The keyboard task gets its next action into the channel.
SendAction ==
    /\ outbox # <<>> /\ chan = {}
    /\ chan' = {Head(outbox)}
    /\ outbox' = Tail(outbox)
    /\ UNCHANGED <<profileVars, loop, deadline, link, saverVars, sleep, pk, faulty, left>>

\* A host tool switches to a host profile or clears one; try_send refuses it
\* while the channel is full.
HostAction(a) ==
    /\ chan = {} /\ Action
    /\ a.kind \in {"switch", "clear"} /\ a.slot \in Profiles
    /\ chan' = {a}
    /\ UNCHANGED <<profileVars, loop, deadline, link, outbox, saverVars, sleep, pk, faulty>>

\* The profile an action other than a clear selects.
Target(a, cur) ==
    CASE a.kind = "switch"   -> a.slot
      [] a.kind = "previous" -> IF cur = 0 THEN NumProfiles - 1 ELSE cur - 1
      [] a.kind = "next"     -> IF cur + 1 >= NumProfiles THEN 0 ELSE cur + 1

\* What an action does to the slots, the status and the saver's inputs.
ApplySwitch(p) ==
    IF p = ble.profile THEN UNCHANGED <<profileVars, dirty>>
    ELSE /\ SetProfiles(bonds, p, "Inactive")
         /\ dirty' = dirty \union {ProfileKey}

\* clear_bond: the slot keeps a record that says it was removed.
ApplyClear(s) ==
    /\ SetProfiles([bonds EXCEPT ![s] = Removed], ble.profile, ble.state)
    /\ dirty' = dirty \union {s}

\* The serve future is dropped, and the guard of passkey entry with it.
DropServe ==
    pk' = Clear(pk)

\* update_profile in the select of connection_loop.  A switch to the active
\* profile is ignored; after any other action the loop starts over, hanging up
\* first when a host is served.
UpdateProfile ==
    /\ loop \in {"adv", "serving"}
    /\ \E a \in chan :
        /\ chan' = {}
        /\ IF a.kind = "switch" /\ a.slot = ble.profile
           THEN UNCHANGED <<profileVars, dirty, loop, deadline, link, pk>>
           ELSE /\ CASE a.kind = "clear"        -> ApplyClear(a.slot)
                     [] a.kind = "clear active" -> ApplyClear(ble.profile)
                     [] OTHER                   -> ApplySwitch(Target(a, ble.profile))
                /\ IF loop = "adv"
                   THEN loop' = "top" /\ deadline' = NoDeadline /\ UNCHANGED <<link, pk>>
                   ELSE /\ loop' = "leaving"
                        /\ link' = [link EXCEPT !.event = "none"]
                        /\ DropServe
                        /\ UNCHANGED deadline
        /\ UNCHANGED <<outbox, saver, flash, sleep, faulty, left>>

-----------------------------------------------------------------------------
(* The connection loop.                                                    *)

\* The end of the loop body: a fresh advertising session, Inactive unless the
\* state never left Advertising.
Restart(st) ==
    /\ loop' = "top"
    /\ deadline' = NoDeadline
    /\ link' = NoLink
    /\ ble' = [ble EXCEPT !.state = IF st = "Advertising" THEN st ELSE "Inactive"]

\* Advertising starts; a session that goes on keeps its deadline.
Advertise ==
    /\ loop = "top"
    /\ loop' = "adv"
    /\ ble' = [ble EXCEPT !.state = "Advertising"]
    /\ deadline' = IF deadline = NoDeadline THEN AdvTicks ELSE deadline
    /\ UNCHANGED <<bonds, stack, link, queueVars, saverVars, sleep, pk, faulty, left>>

\* Who can answer the advertisement: on a bonded dongle slot it is directed.
Answers(p) ==
    ble.profile = DongleProfile /\ Live(bonds, DongleProfile) =>
        p = bonds[DongleProfile].peer

\* Mutant: any peer may take the slot.
Mismatch_Dropped(p) == FALSE

\* Mutant: a bonded dongle is served on a host profile.
Mismatch_NoDongle(p) == Live(bonds, ble.profile) /\ bonds[ble.profile].peer # p

\* The peer is not the one the active profile is bonded to, or it is the bonded
\* dongle on a host profile.
Mismatch(p) ==
    \/ Live(bonds, ble.profile) /\ bonds[ble.profile].peer # p
    \/ ble.profile # DongleProfile /\ IsBondedDongle(p)

\* A peer connects before the deadline.
Accept(p) ==
    /\ loop = "adv" /\ deadline > 0
    /\ Answers(p)
    /\ link' = [peer |-> p, keys |-> p \in stack, event |-> "none"]
    /\ loop' = IF Mismatch(p) THEN "rejecting" ELSE "serving"
    /\ UNCHANGED <<profileVars, deadline, queueVars, saverVars, sleep, pk, faulty, left>>

\* The advertising session is over: sleep until a key or a pointing event.
AdvTimeout ==
    /\ loop = "adv" /\ deadline = 0
    /\ loop' = "asleep"
    /\ ble' = [ble EXCEPT !.state = "Inactive"]
    /\ SignalSleep("sleep")
    /\ UNCHANGED <<bonds, stack, deadline, link, queueVars, saverVars, pk, faulty, left>>

\* Advertising fails: the loop starts over after a pause.
AdvError ==
    /\ loop = "adv" /\ Fault
    /\ Restart(ble.state)
    /\ UNCHANGED <<bonds, stack, queueVars, saverVars, sleep, pk>>

\* disconnect() after a mismatch: back to advertising, in the same session.
Rejected ==
    /\ loop = "rejecting"
    /\ loop' = "top"
    /\ link' = NoLink
    /\ UNCHANGED <<profileVars, deadline, queueVars, saverVars, sleep, pk, faulty, left>>

\* disconnect() after a profile action.
Left ==
    /\ loop = "leaving"
    /\ Restart(ble.state)
    /\ UNCHANGED <<bonds, stack, queueVars, saverVars, sleep, pk, faulty, left>>

\* gatt_events_task sees Disconnected.
LinkLost ==
    /\ loop = "serving"
    /\ Restart(ble.state)
    /\ DropServe
    /\ UNCHANGED <<bonds, stack, queueVars, saverVars, sleep, faulty, left>>

\* The clock, as far as an advertising session sees it.
Tick ==
    /\ loop \in {"top", "adv", "rejecting"}
    /\ deadline \in 1 .. AdvTicks
    /\ deadline' = deadline - 1
    /\ UNCHANGED <<profileVars, loop, link, queueVars, saverVars, sleep, pk, faulty, left>>

-----------------------------------------------------------------------------
(* A served connection.                                                    *)

\* The stack finishes a pairing with the peer, with a bond or without.  It may
\* do so as well while the keyboard is hanging up.
StackPairs(ev) ==
    /\ loop \in {"serving", "rejecting", "leaving"} /\ ~link.keys
    /\ link' = [link EXCEPT !.keys = TRUE, !.event = IF loop = "serving" THEN ev ELSE "none"]
    /\ stack' = IF ev = "bond" THEN stack \union {link.peer} ELSE stack
    /\ UNCHANGED <<ble, bonds, loop, deadline, queueVars, saverVars, sleep, pk, faulty, left>>

\* PairingComplete: the slot of the profile gets the bond.
PairingComplete ==
    /\ loop = "serving" /\ link.event # "none"
    /\ link' = [link EXCEPT !.event = "none"]
    /\ pk' = Clear(pk)
    /\ IF link.event = "bond"
       THEN /\ SetProfiles([bonds EXCEPT ![ble.profile] =
                               [kind |-> "bond", peer |-> link.peer]],
                           ble.profile, ble.state)
            /\ dirty' = dirty \union {ble.profile}
       ELSE UNCHANGED <<profileVars, dirty>>
    /\ UNCHANGED <<loop, deadline, queueVars, saver, flash, sleep, faulty, left>>

\* Encrypted: from here on reports go to this host.
Encrypted ==
    /\ loop = "serving" /\ link.keys /\ ble.state # "Connected"
    /\ ble' = [ble EXCEPT !.state = "Connected"]
    /\ UNCHANGED <<bonds, stack, loop, deadline, link, queueVars, saverVars, sleep, pk,
                   faulty, left>>

\* A CCCD write: activity, even when it is refused on an unencrypted link.  A table
\* that differs from the one of the live bond is kept, and saved, with the bond.
CccdWrite ==
    /\ loop = "serving"
    /\ Activity
    /\ \/ link.keys /\ Live(bonds, ble.profile) /\ dirty' = dirty \union {ble.profile}
       \/ UNCHANGED dirty
    /\ UNCHANGED <<profileVars, loop, deadline, link, queueVars, saver, flash, pk, faulty, left>>

\* The HID control point: suspend or exit suspend.
ControlPoint(input) ==
    /\ loop = "serving"
    /\ SignalSleep(input)
    /\ UNCHANGED <<profileVars, loop, deadline, link, queueVars, saverVars, pk, faulty, left>>

\* PassKeyInput: the stack asks for a passkey.
PassKeyInput ==
    /\ loop = "serving" /\ ~link.keys
    /\ left.sessions > 0 /\ left' = [left EXCEPT !.sessions = @ - 1]
    /\ pk' = Begin(pk)
    /\ UNCHANGED <<profileVars, loop, deadline, link, queueVars, saverVars, sleep, faulty>>

\* The answer of the keyboard task reaches the stack, the entry times out, or
\* pairing fails.
PasskeyAnswered ==
    /\ pk.open /\ pk.response # NoResponse
    /\ pk' = [Clear(pk) EXCEPT !.response = NoResponse]
    /\ UNCHANGED <<profileVars, loop, deadline, link, queueVars, saverVars, sleep, faulty, left>>
PasskeyEnds ==
    /\ pk.open
    /\ pk' = Clear(pk)
    /\ UNCHANGED <<profileVars, loop, deadline, link, queueVars, saverVars, sleep, faulty, left>>

-----------------------------------------------------------------------------
(* Keys and sleep.                                                         *)

\* A key event: activity, passkey entry, and the wakeup of connection_loop.
KeyEvent(key) ==
    /\ loop # "off"
    /\ Activity
    /\ pk' = PasskeyKey(pk, key)
    /\ IF loop = "asleep" THEN Restart(ble.state) ELSE UNCHANGED <<ble, loop, deadline, link>>
    /\ UNCHANGED <<bonds, stack, queueVars, saverVars, faulty, left>>

\* manage_sleep_state: the idle timeout, which input beats.
SleepIdle ==
    /\ left.sleepManager
    /\ loop # "off" /\ ~sleep.asleep /\ sleep.input = "none"
    /\ sleep' = [sleep EXCEPT !.asleep = TRUE]
    /\ UNCHANGED <<profileVars, loop, deadline, link, queueVars, saverVars, pk, faulty, left>>

\* Mutant: a wake input does not end the sleep.
Slept_Sticky(s) == s.asleep \/ s.input = "sleep"

\* The sleep state after an input.
Slept(s) == s.input = "sleep"

SleepInput ==
    /\ loop # "off" /\ sleep.input # "none"
    /\ sleep' = [asleep |-> Slept(sleep), input |-> "none"]
    /\ UNCHANGED <<profileVars, loop, deadline, link, queueVars, saverVars, pk, faulty, left>>

-----------------------------------------------------------------------------
(* The saver, and power.                                                   *)

\* ProfileManager::run takes what changed, bonds before the profile, lower slots
\* before higher ones.  The item is the value of that moment.
SaverTake ==
    /\ saver = {} /\ dirty # {}
    /\ \E s \in dirty :
        /\ \A t \in dirty : s <= t
        /\ dirty' = dirty \ {s}
        /\ saver' = {[slot |-> s, bond |-> IF s = ProfileKey THEN Empty ELSE bonds[s],
                      profile |-> IF s = ProfileKey THEN ble.profile ELSE 0]}
    /\ UNCHANGED <<profileVars, loop, deadline, link, queueVars, flash, sleep, pk, faulty, left>>

SaverStore ==
    /\ \E it \in saver :
        flash' = IF it.slot = ProfileKey THEN [flash EXCEPT !.profile = it.profile]
                 ELSE [flash EXCEPT !.bonds[it.slot] = it.bond]
    /\ saver' = {}
    /\ UNCHANGED <<profileVars, loop, deadline, link, queueVars, dirty, sleep, pk, faulty, left>>

\* The store fails: an error is logged, the item is dropped.
SaverFails ==
    /\ saver # {} /\ Fault
    /\ saver' = {}
    /\ UNCHANGED <<profileVars, loop, deadline, link, queueVars, dirty, flash, sleep, pk>>

\* load_bonded_devices: removed records and slots that cannot be read are empty.
Loaded(unread) ==
    [s \in Slots |-> IF s \in unread \/ ~Live(flash.bonds, s) THEN Empty ELSE flash.bonds[s]]

Boot ==
    /\ loop = "off"
    /\ \/ SetProfiles(Loaded({}), flash.profile, "Inactive") /\ UNCHANGED <<faulty, left>>
       \/ \E s \in Slots : SetProfiles(Loaded({s}), flash.profile, "Inactive") /\ Fault
    /\ loop' = "top"
    /\ UNCHANGED <<deadline, link, queueVars, saverVars, sleep, pk>>

PowerCycle ==
    /\ loop # "off" /\ Fault
    /\ ble' = [profile |-> 0, state |-> "Inactive", bonded |-> FALSE]
    /\ bonds' = NoBonds
    /\ stack' = {}
    /\ loop' = "off"
    /\ deadline' = NoDeadline
    /\ link' = NoLink
    /\ outbox' = <<>> /\ chan' = {}
    /\ dirty' = {} /\ saver' = {}
    /\ sleep' = [asleep |-> FALSE, input |-> "none"]
    /\ pk' = [PasskeyIdle EXCEPT !.session = pk.session]
    /\ UNCHANGED flash

-----------------------------------------------------------------------------

ConnectionLoop == Advertise \/ AdvTimeout \/ Rejected \/ Left
Saver          == SaverTake \/ SaverStore
Environment ==
    \/ \E a \in Actions : UserTap(a) \/ HostAction(a)
    \/ \E s \in Slots : UserHold(s)
    \/ \E p \in left.peers : Accept(p)
    \/ AdvError \/ LinkLost
    \/ \E ev \in {"bond", "no bond"} : StackPairs(ev)
    \/ Encrypted \/ CccdWrite
    \/ \E input \in {"sleep", "activity"} : ControlPoint(input)
    \/ PassKeyInput
    \/ \E key \in PasskeyKeys : KeyEvent(key)
    \/ SleepIdle \/ SaverFails \/ PowerCycle

Next ==
    \/ ConnectionLoop \/ UpdateProfile \/ SendAction \/ Tick \/ PairingComplete
    \/ PasskeyAnswered \/ PasskeyEnds \/ SleepInput \/ Saver \/ Boot \/ Environment

\* The tasks run whenever they can; the clock ticks; a passkey session has a
\* deadline.  The stack reports a disconnection that was asked for.
Fairness ==
    /\ WF_vars(ConnectionLoop) /\ WF_vars(UpdateProfile) /\ WF_vars(Tick)
    /\ WF_vars(PasskeyEnds) /\ WF_vars(SleepInput) /\ WF_vars(Saver) /\ WF_vars(Boot)

Spec     == Init /\ [][Next]_vars
FairSpec == Spec /\ Fairness

-----------------------------------------------------------------------------
(* Properties.                                                             *)

\* The bonded flag the host protocols and the display show is that of the
\* active profile, after every switch, pairing, clear and reboot.
BondedFlag == loop # "off" => (ble.bonded <=> Live(bonds, ble.profile))

\* A host is served only on a profile that is free or bonded to it, and the
\* bonded dongle only on its own slot: connections of other peers are dropped
\* before anything is served, and a profile action ends the service.
ServedPeerIsBonded ==
    loop = "serving" =>
        /\ Live(bonds, ble.profile) => bonds[ble.profile].peer = link.peer
        /\ IsBondedDongle(link.peer) => ble.profile = DongleProfile

\* A bond passes to another peer only after it was cleared: no sequence of
\* connections, pairings, switches and power cycles overwrites it.
BondKeepsOwner ==
    [][\A s \in Slots : Live(bonds, s) /\ Live(bonds', s) =>
           bonds'[s].peer = bonds[s].peer]_vars

\* Reports are withheld for a passkey only while the connection that asked for
\* it is served: a lost link, a profile switch or a timeout ends the mode.
PasskeyModeHasSession == pk.mode => loop = "serving" /\ pk.open

\* What is submitted was typed in the session that is open (violated: the
\* keyboard task resets its digits only when it has seen the mode off).
PasskeyIsFresh ==
    pk.open /\ pk.response.kind = "submit" =>
        \A i \in DOMAIN pk.response.digits : pk.response.digits[i] = pk.session

\* The answer the stack gets was given while it was waiting for it: one left from
\* a session that timed out or whose link dropped is never submitted to the next.
ResponseIsForSession ==
    pk.open /\ pk.response # NoResponse => pk.response.session = pk.session

\* Advertising ends: peers that connect and are turned away do not keep the
\* radio on beyond the session's deadline.
AdvertisingEnds == (loop = "adv") ~> (loop \in {"serving", "asleep", "off"})

\* When the saver has caught up, flash holds the bonds and the active profile
\* that are in force, however switches, pairings and clears overlapped with its
\* stores, unless a read or a store failed or the power went.  (It need not ever
\* catch up with the profile: a changed bond is always taken first.)
SavedWhenIdle ==
    dirty = {} /\ saver = {} /\ loop # "off" /\ ~faulty =>
        /\ flash.profile = ble.profile
        /\ \A s \in Slots : bonds[s] # Empty => flash.bonds[s] = bonds[s]

\* Activity wakes the keyboard unless a request to sleep comes after it.
ActivityWakes ==
    (sleep.asleep /\ sleep.input = "activity") ~> (~sleep.asleep \/ sleep.input = "sleep")

\* The copies of a bond agree: slots, active profile and bonded flag at any time, and
\* flash once the saver is idle (update_stack_bonds, set_ble_bonded, ProfileManager::run).
BondsAgree == TypeOK /\ BondedFlag /\ SavedWhenIdle

\* What is served is owed to the session that is open: its peer to the bond of the active
\* profile, withheld reports and submitted passkeys to its own request
\* (run_ble_keyboard, PasskeyCleanupGuard, PASSKEY_RESPONSE).
ServiceIsSound == ServedPeerIsBonded /\ PasskeyModeHasSession /\ ResponseIsForSession

\* The keyboard comes to rest when nobody connects, and activity wakes it again
\* (run_ble_keyboard, manage_sleep_state).
RestsAndWakes == AdvertisingEnds /\ ActivityWakes

=============================================================================
