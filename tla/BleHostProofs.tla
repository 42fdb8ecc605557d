---------------------------- MODULE BleHostProofs ----------------------------
(***************************************************************************)
(* TLAPS proofs about BleHost, for any number of profiles and peers, any   *)
(* length of a passkey and of an advertising session.                      *)
(*                                                                         *)
(* That a served peer owns the bond of the active profile needs what is    *)
(* known of the bonds before they are loaded; that a passkey answer is for *)
(* the open session needs the order of the mode, the guard and the keys;   *)
(* and that flash is right when the saver is idle needs, for every slot,   *)
(* the place where its last change is.                                     *)
(***************************************************************************)
EXTENDS BleHost, FiniteSetTheorems, TLAPS

-----------------------------------------------------------------------------
(* The invariant.                                                          *)

BleType   == [profile : Slots, state : {"Inactive", "Advertising", "Connected"}, bonded : BOOLEAN]
Record    == Bond \union {Empty, Removed}
Tables    == [Slots -> Record]
LinkType  == [peer : Peers \union {NoPeer}, keys : BOOLEAN, event : {"none", "bond", "no bond"}]
SleepType == [asleep : BOOLEAN, input : {"none", "sleep", "activity"}]
AtMostOne(X, S) == X = {} \/ \E x \in S : X = {x}

HostTypes ==
    /\ ble \in BleType /\ bonds \in Tables /\ stack \subseteq Peers
    /\ loop \in {"off", "top", "adv", "rejecting", "serving", "leaving", "asleep"}
    /\ deadline \in 0 .. NoDeadline /\ link \in LinkType
    /\ outbox \in Seq(Actions) /\ Len(outbox) <= 2 /\ AtMostOne(chan, Actions)
    /\ dirty \subseteq Slots \union {ProfileKey} /\ AtMostOne(saver, Item)
    /\ flash \in [bonds : Tables, profile : Slots]
    /\ sleep \in SleepType /\ faulty \in BOOLEAN /\ left \in Scenario

\* Connections: what the loop serves has a peer, and before the boot nothing is loaded.
ServiceInv ==
    /\ ServedPeerIsBonded /\ BondedFlag
    /\ loop \in {"serving", "rejecting", "leaving"} => link.peer \in Peers
    /\ loop = "off" => bonds = NoBonds /\ dirty = {} /\ saver = {}

\* Passkey entry: digits are only typed once a session was begun.
PasskeyInv ==
    /\ pk \in PasskeyType
    /\ pk.session + left.sessions <= MaxSessions
    /\ pk.mode \/ pk.active => pk.session >= 1
    /\ PasskeyModeHasSession /\ ResponseIsForSession

\* The last change of a slot or of the active profile is marked, in the saver's hands or on
\* flash.
UnderWay(s) == s \in dirty \/ \E it \in saver : it.slot = s
SaverInv ==
    /\ \A it \in saver : \/ it.slot \in dirty
                         \/ it.slot = ProfileKey /\ it.profile = ble.profile
                         \/ it.slot # ProfileKey /\ it.bond = bonds[it.slot]
    /\ ~ faulty /\ loop # "off" =>
          /\ UnderWay(ProfileKey) \/ flash.profile = ble.profile
          /\ \A s \in Slots : UnderWay(s) \/ bonds[s] = Empty \/ flash.bonds[s] = bonds[s]

BleInv == HostTypes /\ ServiceInv /\ PasskeyInv /\ SaverInv

-----------------------------------------------------------------------------
(* Helpers.                                                                *)

LEMMA Singles ==
    ASSUME NEW X, NEW S, AtMostOne(X, S)
    PROVE  X \subseteq S /\ Cardinality(X) <= 1
<1>1. CASE X = {}
  BY <1>1, FS_EmptySet
<1>2. CASE \E x \in S : X = {x}
  BY <1>2, FS_Singleton
<1> QED
  BY <1>1, <1>2 DEF AtMostOne

LEMMA SlotFacts ==
    /\ DongleProfile \in Slots /\ 0 \in Slots /\ Profiles \subseteq Slots /\ Slots \subseteq Nat
    /\ ProfileKey \in Nat /\ ProfileKey \notin Slots
BY BleTypes DEF DongleProfile, Slots, Profiles, ProfileKey

LEMMA RecordFacts ==
    /\ Empty \in Record /\ Removed \in Record /\ NoBonds \in Tables
    /\ \A p \in Peers : [kind |-> "bond", peer |-> p] \in Record
    /\ \A b \in Tables, s \in Slots : b[s] \in Record /\ (Live(b, s) => b[s].peer \in Peers)
    /\ NoLink \in LinkType /\ ~ NoLink.keys
<1>1. Empty \in Record /\ Removed \in Record /\ \A p \in Peers : [kind |-> "bond", peer |-> p] \in Record
  BY DEF Record, Bond, Empty, Removed
<1>2. NoBonds \in Tables
  BY <1>1 DEF NoBonds, Tables
<1>3. ASSUME NEW b \in Tables, NEW s \in Slots PROVE b[s] \in Record /\ (Live(b, s) => b[s].peer \in Peers)
  BY DEF Tables, Record, Bond, Empty, Removed, Live
<1>4. NoLink \in LinkType /\ ~ NoLink.keys
  BY DEF NoLink, LinkType
<1> QED
  BY <1>1, <1>2, <1>3, <1>4

\* The slots and the status change together.
LEMMA ProfilesSet ==
    ASSUME NEW b \in Tables, NEW p \in Slots,
           NEW s \in {"Inactive", "Advertising", "Connected"}, SetProfiles(b, p, s)
    PROVE  /\ ble' \in BleType /\ bonds' = b /\ bonds' \in Tables /\ stack' \subseteq Peers
           /\ ble'.profile = p /\ ble'.state = s /\ (ble'.bonded <=> Live(b, p))
<1> DEFINE l == Live(b, p)
<1>1. ble' = [profile |-> p, state |-> s, bonded |-> l] /\ bonds' = b /\ stack' = StackBonds(b, p)
  BY DEF SetProfiles
<1>2. l \in BOOLEAN
  BY DEF Live
<1>3. StackBonds(b, p) \subseteq Peers
  BY RecordFacts DEF StackBonds
<1> HIDE DEF l
<1>4. ble' \in BleType /\ ble'.profile = p /\ ble'.state = s /\ ble'.bonded = l
  BY <1>1, <1>2 DEF BleType
<1> QED
  BY <1>1, <1>2, <1>3, <1>4 DEF l

LEMMA BleFields ==
    ASSUME ble \in BleType
    PROVE  /\ ble.profile \in Slots /\ ble.state \in {"Inactive", "Advertising", "Connected"}
           /\ ble.bonded \in BOOLEAN
           /\ \A s \in {"Inactive", "Advertising", "Connected"} :
                 /\ [ble EXCEPT !.state = s] \in BleType
                 /\ [ble EXCEPT !.state = s].profile = ble.profile
                 /\ [ble EXCEPT !.state = s].bonded = ble.bonded
BY DEF BleType

LEMMA ActionKinds ==
    ASSUME NEW a \in Actions
    PROVE  /\ a.kind \in {"switch", "clear", "previous", "next", "clear active"}
           /\ a.kind \in {"switch", "clear"} => a.slot \in Slots
<1>1. \/ \E p \in Slots : a = SwitchTo(p)
      \/ \E p \in Slots : a = ClearSlot(p)
      \/ a = Previous \/ a = NextProfile \/ a = ClearBond
  BY DEF Actions
<1>2. CASE \E p \in Slots : a = SwitchTo(p)
  BY <1>2 DEF SwitchTo
<1>3. CASE \E p \in Slots : a = ClearSlot(p)
  BY <1>3 DEF ClearSlot
<1>4. CASE a = Previous
  BY <1>4 DEF Previous
<1>5. CASE a = NextProfile
  BY <1>5 DEF NextProfile
<1>6. CASE a = ClearBond
  BY <1>6 DEF ClearBond
<1> QED
  BY <1>1, <1>2, <1>3, <1>4, <1>5, <1>6

LEMMA Neighbours ==
    ASSUME NEW cur \in Slots
    PROVE  /\ (IF cur = 0 THEN NumProfiles - 1 ELSE cur - 1) \in Slots
           /\ (IF cur + 1 >= NumProfiles THEN 0 ELSE cur + 1) \in Slots
BY BleTypes DEF Slots, DongleProfile

\* The profile an action selects.
LEMMA TargetSlot ==
    ASSUME NEW a \in Actions, NEW cur \in Slots, a.kind \notin {"clear", "clear active"}
    PROVE  Target(a, cur) \in Slots
<1>1. a.kind \in {"switch", "previous", "next"} /\ (a.kind = "switch" => a.slot \in Slots)
  BY ActionKinds
<1> QED
  BY <1>1, Neighbours DEF Target

LEMMA ScenarioFields ==
    ASSUME left \in Scenario
    PROVE  /\ left.peers \subseteq Peers /\ left.sleepManager \in BOOLEAN
           /\ left.sessions \in 0 .. MaxSessions
           /\ left.actions > 0 => [left EXCEPT !.actions = left.actions - 1] \in Scenario
           /\ left.faults > 0 => [left EXCEPT !.faults = left.faults - 1] \in Scenario
           /\ left.sessions > 0 => [left EXCEPT !.sessions = left.sessions - 1] \in Scenario
BY PasskeyBounds DEF Scenario

LEMMA Signalled ==
    ASSUME sleep \in SleepType, NEW i \in {"sleep", "activity"}, SignalSleep(i)
    PROVE  sleep' \in SleepType
BY DEF SignalSleep, SleepType

\* Starting over keeps the profile.
LEMMA Restarted ==
    ASSUME ble \in BleType, NEW s, Restart(s)
    PROVE  /\ ble' \in BleType /\ ble'.profile = ble.profile /\ ble'.bonded = ble.bonded
           /\ loop' = "top" /\ deadline' = NoDeadline /\ deadline' \in 0 .. NoDeadline
           /\ link' \in LinkType
<1>1. ble' = [ble EXCEPT !.state = IF s = "Advertising" THEN s ELSE "Inactive"]
  BY DEF Restart
<1>2. (IF s = "Advertising" THEN s ELSE "Inactive") \in {"Inactive", "Advertising", "Connected"}
  OBVIOUS
<1>3. loop' = "top" /\ deadline' = NoDeadline /\ link' = NoLink
  BY DEF Restart
<1>4. NoDeadline \in 0 .. NoDeadline
  BY BleTime DEF NoDeadline
<1> QED
  BY <1>1, <1>2, <1>3, <1>4, BleFields, RecordFacts

LEMMA Spent ==
    ASSUME left \in Scenario, Action \/ Fault
    PROVE  left' \in Scenario /\ left'.sessions = left.sessions
<1>1. \/ left.actions > 0 /\ left' = [left EXCEPT !.actions = left.actions - 1]
      \/ left.faults > 0 /\ left' = [left EXCEPT !.faults = left.faults - 1]
  BY DEF Action, Fault
<1>2. left' \in Scenario
  BY <1>1, ScenarioFields
<1>3. left'.sessions = left.sessions
  BY <1>1 DEF Scenario
<1> QED
  BY <1>2, <1>3

-----------------------------------------------------------------------------
(* Initially.                                                              *)

LEMMA InitInv ==
    ASSUME Init
    PROVE  BleInv
<1> USE DEF Init
<1>1. left \in Scenario
  BY BleScenarios
<1>2. ble \in BleType /\ ble.profile = 0
  BY SlotFacts DEF BleType
<1>3. bonds = NoBonds /\ bonds \in Tables
  BY RecordFacts
<1>4. flash \in [bonds : Tables, profile : Slots] /\ flash.profile = 0
  <2> DEFINE b == [s \in Slots |-> IF left.stored[s] = NoPeer THEN Empty
                                   ELSE [kind |-> "bond", peer |-> left.stored[s]]]
  <2>1. b \in Tables
    <3>1. ASSUME NEW s \in Slots PROVE b[s] \in Record
      <4>1. left.stored[s] \in Peers \union {NoPeer}
        BY <1>1 DEF Scenario
      <4> QED
        BY <4>1, RecordFacts
    <3> QED
      BY <3>1 DEF Tables
  <2>2. flash = [bonds |-> b, profile |-> 0]
    OBVIOUS
  <2> HIDE DEF b
  <2> QED
    BY <2>1, <2>2, SlotFacts
<1>5. deadline \in 0 .. NoDeadline
  BY BleTime DEF NoDeadline
<1>6. outbox \in Seq(Actions) /\ Len(outbox) <= 2 /\ AtMostOne(chan, Actions) /\ AtMostOne(saver, Item)
  BY DEF AtMostOne
<1>7. link \in LinkType /\ sleep \in SleepType /\ faulty \in BOOLEAN
  BY RecordFacts DEF SleepType
<1>8. HostTypes
  BY <1>1, <1>2, <1>3, <1>4, <1>5, <1>6, <1>7 DEF HostTypes
<1>9. ServiceInv
  BY <1>3 DEF ServiceInv, ServedPeerIsBonded, BondedFlag
<1>10. PasskeyInv
  <2>1. <<>> \in Digits
    <3>1. <<>> \in [1 .. 0 -> Sessions] /\ 0 \in 0 .. PasskeyLength
      BY PasskeyBounds
    <3> QED
      BY <3>1 DEF Digits
  <2>2. NoResponse \in Response /\ 0 \in 0 .. MaxSessions
    BY <2>1, PasskeyBounds DEF NoResponse, Response
  <2>3. pk \in PasskeyType
    BY <2>1, <2>2 DEF PasskeyIdle, PasskeyType
  <2>4. ~ pk.mode /\ ~ pk.active /\ ~ pk.open /\ pk.session = 0
    BY DEF PasskeyIdle
  <2>5. left.sessions \in 0 .. MaxSessions
    BY <1>1, ScenarioFields
  <2> QED
    BY <2>3, <2>4, <2>5, PasskeyBounds DEF PasskeyInv, PasskeyModeHasSession, ResponseIsForSession
<1>11. SaverInv
  BY DEF SaverInv
<1> QED
  BY <1>8, <1>9, <1>10, <1>11 DEF BleInv

-----------------------------------------------------------------------------
(* Types.                                                                  *)

\* What update_profile does with an action it took.
ProfileStep(a) ==
    /\ chan' = {}
    /\ IF a.kind = "switch" /\ a.slot = ble.profile
       THEN UNCHANGED <<profileVars, dirty, loop, deadline, link, pk>>
       ELSE /\ CASE a.kind = "clear"        -> ApplyClear(a.slot)
                 [] a.kind = "clear active" -> ApplyClear(ble.profile)
                 [] OTHER                   -> ApplySwitch(Target(a, ble.profile))
            /\ IF loop = "adv"
               THEN loop' = "top" /\ deadline' = NoDeadline /\ UNCHANGED <<link, pk>>
               ELSE /\ loop' = "leaving"
                    /\ link' = [link EXCEPT !.event = "none"]
                    /\ DropServe
                    /\ UNCHANGED deadline
    /\ UNCHANGED <<outbox, saver, flash, sleep, faulty, left>>

\* An action that is not ignored moves to a slot or clears one.
LEMMA ProfileChange ==
    ASSUME ble \in BleType, NEW a \in Actions, ProfileStep(a),
           ~ (a.kind = "switch" /\ a.slot = ble.profile)
    PROVE  \/ UNCHANGED <<ble, bonds, stack, dirty>>
           \/ \E t \in Slots : SetProfiles(bonds, t, "Inactive") /\ dirty' = dirty \union {ProfileKey}
           \/ \E t \in Slots : /\ SetProfiles([bonds EXCEPT ![t] = Removed], ble.profile, ble.state)
                               /\ dirty' = dirty \union {t}
<1>1. ble.profile \in Slots
  BY BleFields
<1>2. CASE a.kind = "clear"
  <2>1. a.slot \in Slots /\ ApplyClear(a.slot)
    BY <1>2, ActionKinds DEF ProfileStep
  <2> QED
    BY <2>1 DEF ApplyClear
<1>3. CASE a.kind = "clear active"
  <2>1. ApplyClear(ble.profile)
    BY <1>3 DEF ProfileStep
  <2> QED
    BY <1>1, <2>1 DEF ApplyClear
<1>4. CASE a.kind \notin {"clear", "clear active"}
  <2>1. Target(a, ble.profile) \in Slots /\ ApplySwitch(Target(a, ble.profile))
    BY <1>1, <1>4, TargetSlot DEF ProfileStep
  <2> QED
    BY <2>1 DEF ApplySwitch, profileVars
<1> QED
  BY <1>2, <1>3, <1>4

\* Profile actions and the saver.
LEMMA ProfileTypes ==
    ASSUME HostTypes, ServiceInv,
           \/ \E a \in Actions : UserTap(a) \/ HostAction(a)
           \/ \E s \in Slots : UserHold(s)
           \/ SendAction \/ UpdateProfile \/ SaverTake \/ SaverStore \/ SaverFails \/ Boot \/ PowerCycle
    PROVE  HostTypes'
<1>1. ASSUME NEW a \in Actions, UserTap(a) PROVE HostTypes'
  <2>1. UNCHANGED <<ble, bonds, stack, loop, deadline, link, chan, dirty, saver, flash, sleep, faulty>>
        /\ Action /\ outbox' = <<a>>
    BY <1>1 DEF UserTap, profileVars, saverVars
  <2>2. left' \in Scenario
    BY <2>1, Spent DEF HostTypes
  <2>3. outbox' \in Seq(Actions) /\ Len(outbox') <= 2
    BY <2>1
  <2> QED
    BY <2>1, <2>2, <2>3 DEF HostTypes
<1>2. ASSUME NEW s \in Slots, UserHold(s) PROVE HostTypes'
  <2>1. UNCHANGED <<ble, bonds, stack, loop, deadline, link, chan, dirty, saver, flash, sleep, faulty>>
        /\ Action /\ outbox' = <<ClearSlot(s), SwitchTo(s)>>
    BY <1>2 DEF UserHold, profileVars, saverVars
  <2>2. left' \in Scenario
    BY <2>1, Spent DEF HostTypes
  <2>3. ClearSlot(s) \in Actions /\ SwitchTo(s) \in Actions
    BY DEF Actions
  <2>4. outbox' \in Seq(Actions) /\ Len(outbox') <= 2
    BY <2>1, <2>3
  <2> QED
    BY <2>1, <2>2, <2>4 DEF HostTypes
<1>3. ASSUME NEW a \in Actions, HostAction(a) PROVE HostTypes'
  <2>1. UNCHANGED <<ble, bonds, stack, loop, deadline, link, outbox, dirty, saver, flash, sleep, faulty>>
        /\ Action /\ chan' = {a}
    BY <1>3 DEF HostAction, profileVars, saverVars
  <2>2. left' \in Scenario
    BY <2>1, Spent DEF HostTypes
  <2>3. AtMostOne(chan', Actions)
    BY <2>1 DEF AtMostOne
  <2> QED
    BY <2>1, <2>2, <2>3 DEF HostTypes
<1>4. ASSUME SendAction PROVE HostTypes'
  <2>1. UNCHANGED <<ble, bonds, stack, loop, deadline, link, dirty, saver, flash, sleep, faulty, left>>
        /\ outbox # <<>> /\ chan' = {Head(outbox)} /\ outbox' = Tail(outbox)
    BY <1>4 DEF SendAction, profileVars, saverVars
  <2>2. outbox \in Seq(Actions) /\ Len(outbox) <= 2
    BY DEF HostTypes
  <2>3. Head(outbox) \in Actions /\ outbox' \in Seq(Actions) /\ Len(outbox') <= 2
    BY <2>1, <2>2
  <2>4. AtMostOne(chan', Actions)
    BY <2>1, <2>3 DEF AtMostOne
  <2> QED
    BY <2>1, <2>3, <2>4 DEF HostTypes
<1>5. ASSUME UpdateProfile PROVE HostTypes'
  <2>1. PICK a \in chan : ProfileStep(a)
    BY <1>5 DEF UpdateProfile, ProfileStep
  <2>2. a \in Actions /\ ble.profile \in Slots /\ ble.state \in {"Inactive", "Advertising", "Connected"}
    BY Singles, BleFields DEF HostTypes
  <2>3. AtMostOne(chan', Actions)
    BY <2>1 DEF AtMostOne, ProfileStep
  <2>4. CASE a.kind = "switch" /\ a.slot = ble.profile
    BY <2>1, <2>3, <2>4 DEF HostTypes, profileVars, ProfileStep
  <2>5. CASE ~ (a.kind = "switch" /\ a.slot = ble.profile)
    <3>1. \/ UNCHANGED <<ble, bonds, stack, dirty>>
          \/ \E t \in Slots : SetProfiles(bonds, t, "Inactive") /\ dirty' = dirty \union {ProfileKey}
          \/ \E t \in Slots : /\ SetProfiles([bonds EXCEPT ![t] = Removed], ble.profile, ble.state)
                              /\ dirty' = dirty \union {t}
      BY <2>1, <2>2, <2>5, ProfileChange DEF HostTypes
    <3>2. ble' \in BleType /\ bonds' \in Tables /\ stack' \subseteq Peers
          /\ dirty' \subseteq Slots \union {ProfileKey}
      <4>1. bonds \in Tables /\ dirty \subseteq Slots \union {ProfileKey}
        BY DEF HostTypes
      <4>2. \A t \in Slots : [bonds EXCEPT ![t] = Removed] \in Tables
        BY <4>1, RecordFacts DEF Tables
      <4>3. CASE UNCHANGED <<ble, bonds, stack, dirty>>
        BY <4>3 DEF HostTypes
      <4>4. CASE \E t \in Slots : SetProfiles(bonds, t, "Inactive") /\ dirty' = dirty \union {ProfileKey}
        <5>1. PICK t \in Slots : SetProfiles(bonds, t, "Inactive") /\ dirty' = dirty \union {ProfileKey}
          BY <4>4
        <5>2. ble' \in BleType /\ bonds' \in Tables /\ stack' \subseteq Peers
          BY <4>1, <5>1, ProfilesSet
        <5> QED
          BY <4>1, <5>1, <5>2
      <4>5. CASE \E t \in Slots : /\ SetProfiles([bonds EXCEPT ![t] = Removed], ble.profile, ble.state)
                                  /\ dirty' = dirty \union {t}
        <5>1. PICK t \in Slots : /\ SetProfiles([bonds EXCEPT ![t] = Removed], ble.profile, ble.state)
                                 /\ dirty' = dirty \union {t}
          BY <4>5
        <5>2. ble' \in BleType /\ bonds' \in Tables /\ stack' \subseteq Peers
          BY <2>2, <4>2, <5>1, ProfilesSet
        <5> QED
          BY <4>1, <5>1, <5>2
      <4> QED
        BY <3>1, <4>3, <4>4, <4>5
    <3>3. loop' \in {"top", "leaving"} /\ deadline' \in 0 .. NoDeadline /\ link' \in LinkType
      <4>1. NoDeadline \in 0 .. NoDeadline
        BY BleTime DEF NoDeadline
      <4>2. deadline \in 0 .. NoDeadline /\ link \in LinkType
        BY DEF HostTypes
      <4>3. [link EXCEPT !.event = "none"] \in LinkType
        BY <4>2 DEF LinkType
      <4> QED
        BY <2>1, <2>5, <4>1, <4>2, <4>3 DEF ProfileStep
    <3> QED
      BY <2>1, <2>3, <3>2, <3>3 DEF HostTypes, ProfileStep
  <2> QED
    BY <2>4, <2>5
<1>6. ASSUME SaverTake PROVE HostTypes'
  <2>1. UNCHANGED <<ble, bonds, stack, loop, deadline, link, outbox, chan, flash, sleep, faulty, left>>
    BY <1>6 DEF SaverTake, profileVars, queueVars
  <2>2. PICK s \in dirty :
          /\ dirty' = dirty \ {s}
          /\ saver' = {[slot |-> s, bond |-> IF s = ProfileKey THEN Empty ELSE bonds[s],
                        profile |-> IF s = ProfileKey THEN ble.profile ELSE 0]}
    BY <1>6 DEF SaverTake
  <2>3. [slot |-> s, bond |-> IF s = ProfileKey THEN Empty ELSE bonds[s],
         profile |-> IF s = ProfileKey THEN ble.profile ELSE 0] \in Item
    <3>1. s \in Slots \union {DongleProfile + 1} /\ (s # ProfileKey => s \in Slots)
      BY DEF HostTypes, ProfileKey
    <3>2. (IF s = ProfileKey THEN Empty ELSE bonds[s]) \in Bond \union {Empty, Removed}
      BY <3>1, RecordFacts DEF HostTypes, Record
    <3>3. (IF s = ProfileKey THEN ble.profile ELSE 0) \in Slots
      BY SlotFacts, BleFields DEF HostTypes
    <3> QED
      BY <3>1, <3>2, <3>3 DEF Item
  <2>4. AtMostOne(saver', Item)
    BY <2>2, <2>3 DEF AtMostOne
  <2> QED
    BY <2>1, <2>2, <2>4 DEF HostTypes
<1>7. ASSUME SaverStore PROVE HostTypes'
  <2>1. UNCHANGED <<ble, bonds, stack, loop, deadline, link, outbox, chan, dirty, sleep, faulty, left>>
        /\ saver' = {}
    BY <1>7 DEF SaverStore, profileVars, queueVars
  <2>2. PICK it \in saver : flash' = IF it.slot = ProfileKey THEN [flash EXCEPT !.profile = it.profile]
                                     ELSE [flash EXCEPT !.bonds[it.slot] = it.bond]
    BY <1>7 DEF SaverStore
  <2>3. it \in Item
    BY Singles DEF HostTypes
  <2>4. it.bond \in Record /\ it.profile \in Slots /\ (it.slot # ProfileKey => it.slot \in Slots)
    BY <2>3 DEF Item, Record, ProfileKey
  <2>5. flash' \in [bonds : Tables, profile : Slots]
    <3>1. flash \in [bonds : Tables, profile : Slots]
      BY DEF HostTypes
    <3>2. [flash.bonds EXCEPT ![it.slot] = it.bond] \in Tables
      BY <2>4, <3>1 DEF Tables
    <3> QED
      BY <2>2, <2>4, <3>1, <3>2
  <2>6. AtMostOne(saver', Item)
    BY <2>1 DEF AtMostOne
  <2> QED
    BY <2>1, <2>5, <2>6 DEF HostTypes
<1>8. ASSUME SaverFails PROVE HostTypes'
  <2>1. UNCHANGED <<ble, bonds, stack, loop, deadline, link, outbox, chan, dirty, flash, sleep>>
        /\ saver' = {} /\ Fault
    BY <1>8 DEF SaverFails, profileVars, queueVars
  <2>2. left' \in Scenario /\ faulty' \in BOOLEAN /\ AtMostOne(saver', Item)
    BY <2>1, Spent DEF HostTypes, Fault, AtMostOne
  <2> QED
    BY <2>1, <2>2 DEF HostTypes
<1>9. ASSUME Boot PROVE HostTypes'
  <2>1. UNCHANGED <<deadline, link, outbox, chan, dirty, saver, flash, sleep>> /\ loop' = "top"
    BY <1>9 DEF Boot, queueVars, saverVars
  <2>2. left' \in Scenario /\ faulty' \in BOOLEAN
    BY <1>9, Spent DEF Boot, HostTypes, Fault
  <2>3. PICK u : SetProfiles(Loaded(u), flash.profile, "Inactive")
    BY <1>9 DEF Boot
  <2>4. Loaded(u) \in Tables /\ flash.profile \in Slots
    BY RecordFacts DEF Loaded, Tables, HostTypes
  <2>5. ble' \in BleType /\ bonds' \in Tables /\ stack' \subseteq Peers
    BY <2>3, <2>4, ProfilesSet
  <2> QED
    BY <2>1, <2>2, <2>5 DEF HostTypes
<1>10. ASSUME PowerCycle PROVE HostTypes'
  <2>1. /\ Fault /\ ble' = [profile |-> 0, state |-> "Inactive", bonded |-> FALSE]
        /\ bonds' = NoBonds /\ stack' = {} /\ loop' = "off" /\ deadline' = NoDeadline /\ link' = NoLink
        /\ outbox' = <<>> /\ chan' = {} /\ dirty' = {} /\ saver' = {}
        /\ sleep' = [asleep |-> FALSE, input |-> "none"] /\ UNCHANGED flash
    BY <1>10 DEF PowerCycle
  <2>2. left' \in Scenario /\ faulty' \in BOOLEAN
    BY <2>1, Spent DEF HostTypes, Fault
  <2>3. ble' \in BleType /\ sleep' \in SleepType
    BY <2>1, SlotFacts DEF BleType, SleepType
  <2>4. outbox' \in Seq(Actions) /\ Len(outbox') <= 2 /\ AtMostOne(chan', Actions) /\ AtMostOne(saver', Item)
    BY <2>1 DEF AtMostOne
  <2>5. deadline' \in 0 .. NoDeadline
    BY <2>1, BleTime DEF NoDeadline
  <2> QED
    BY <2>1, <2>2, <2>3, <2>4, <2>5, RecordFacts DEF HostTypes
<1> QED
  BY <1>1, <1>2, <1>3, <1>4, <1>5, <1>6, <1>7, <1>8, <1>9, <1>10

LEMMA Membership ==
    ASSUME NEW x, NEW S
    PROVE  (x \in S) \in BOOLEAN
BY SMT

\* The deadline counts down.
LEMMA Deadlines ==
    /\ AdvTicks \in 0 .. NoDeadline
    /\ \A d \in 1 .. AdvTicks : d - 1 \in 0 .. NoDeadline
BY BleTime DEF NoDeadline

\* Connections, sleep and passkeys.
LEMMA ConnectionTypes ==
    ASSUME HostTypes, ServiceInv,
           \/ ConnectionLoop \/ Tick \/ PairingComplete \/ PasskeyAnswered \/ PasskeyEnds \/ SleepInput
           \/ \E p \in left.peers : Accept(p)
           \/ AdvError \/ LinkLost \/ \E ev \in {"bond", "no bond"} : StackPairs(ev)
           \/ Encrypted \/ CccdWrite \/ \E input \in {"sleep", "activity"} : ControlPoint(input)
           \/ PassKeyInput \/ \E key \in PasskeyKeys : KeyEvent(key)
           \/ SleepIdle
    PROVE  HostTypes'
<1> DEFINE Rest == UNCHANGED <<outbox, chan, flash, saver>>
<1>0. ble \in BleType /\ link \in LinkType /\ sleep \in SleepType /\ left \in Scenario
      /\ deadline \in 0 .. NoDeadline /\ bonds \in Tables /\ stack \subseteq Peers
      /\ dirty \subseteq Slots \union {ProfileKey}
  BY DEF HostTypes
<1>a. ASSUME Rest, ble' \in BleType, link' \in LinkType, sleep' \in SleepType, left' \in Scenario,
             deadline' \in 0 .. NoDeadline, bonds' \in Tables, stack' \subseteq Peers,
             dirty' \subseteq Slots \union {ProfileKey}, faulty' \in BOOLEAN,
             loop' \in {"off", "top", "adv", "rejecting", "serving", "leaving", "asleep"}
      PROVE  HostTypes'
  BY <1>a DEF HostTypes
<1>b. faulty \in BOOLEAN /\ loop \in {"off", "top", "adv", "rejecting", "serving", "leaving", "asleep"}
  BY DEF HostTypes
<1>1. ASSUME Advertise PROVE HostTypes'
  <2>1. ble' \in BleType
    BY <1>0, <1>1, BleFields DEF Advertise
  <2>2. deadline' \in 0 .. NoDeadline
    BY <1>0, <1>1, Deadlines DEF Advertise
  <2> QED
    BY <1>0, <1>a, <1>b, <1>1, <2>1, <2>2 DEF Advertise, queueVars, saverVars
<1>2. ASSUME AdvTimeout PROVE HostTypes'
  <2>1. ble' \in BleType
    BY <1>0, <1>2, BleFields DEF AdvTimeout
  <2>2. sleep' \in SleepType
    BY <1>0, <1>2, Signalled DEF AdvTimeout
  <2> QED
    BY <1>0, <1>a, <1>b, <1>2, <2>1, <2>2 DEF AdvTimeout, queueVars, saverVars
<1>3. ASSUME Rejected PROVE HostTypes'
  BY <1>0, <1>a, <1>b, <1>3, RecordFacts DEF Rejected, profileVars, queueVars, saverVars
<1>4. ASSUME Left PROVE HostTypes'
  <2>1. ble' \in BleType /\ loop' = "top" /\ deadline' \in 0 .. NoDeadline /\ link' \in LinkType
    BY <1>0, <1>4, Restarted DEF Left
  <2> QED
    BY <1>0, <1>a, <1>b, <1>4, <2>1 DEF Left, queueVars, saverVars
<1>5. ASSUME Tick PROVE HostTypes'
  <2>1. deadline' \in 0 .. NoDeadline
    BY <1>5, Deadlines DEF Tick
  <2> QED
    BY <1>0, <1>a, <1>b, <1>5, <2>1 DEF Tick, profileVars, queueVars, saverVars
<1>6. ASSUME PairingComplete PROVE HostTypes'
  <2>1. link' = [link EXCEPT !.event = "none"]
        /\ UNCHANGED <<loop, deadline, outbox, chan, saver, flash, sleep, faulty, left>>
    BY <1>6 DEF PairingComplete, queueVars
  <2>2. link' \in LinkType
    BY <1>0, <2>1 DEF LinkType
  <2>3. ble' \in BleType /\ bonds' \in Tables /\ stack' \subseteq Peers
        /\ dirty' \subseteq Slots \union {ProfileKey}
    <3> DEFINE b == [bonds EXCEPT ![ble.profile] = [kind |-> "bond", peer |-> link.peer]]
    <3>1. CASE link.event # "bond"
      BY <1>0, <1>6, <3>1 DEF PairingComplete, profileVars
    <3>2. CASE link.event = "bond"
      <4>1. SetProfiles(b, ble.profile, ble.state) /\ dirty' = dirty \union {ble.profile}
        BY <1>6, <3>2 DEF PairingComplete
      <4>2. link.peer \in Peers /\ ble.profile \in Slots
            /\ ble.state \in {"Inactive", "Advertising", "Connected"}
        BY <1>0, <1>6, BleFields DEF PairingComplete, ServiceInv
      <4>3. b \in Tables
        BY <1>0, <4>2, RecordFacts DEF Tables
      <4> HIDE DEF b
      <4>4. ble' \in BleType /\ bonds' \in Tables /\ stack' \subseteq Peers
        BY <4>1, <4>2, <4>3, ProfilesSet
      <4> QED
        BY <1>0, <4>1, <4>2, <4>4
    <3> QED
      BY <3>1, <3>2
  <2> QED
    BY <1>0, <1>a, <1>b, <2>1, <2>2, <2>3
<1>7. ASSUME PasskeyAnswered \/ PasskeyEnds PROVE HostTypes'
  BY <1>0, <1>a, <1>b, <1>7 DEF PasskeyAnswered, PasskeyEnds, profileVars, queueVars, saverVars
<1>8. ASSUME SleepInput PROVE HostTypes'
  <2>1. sleep' \in SleepType
    BY <1>0, <1>8 DEF SleepInput, SleepType, Slept
  <2> QED
    BY <1>0, <1>a, <1>b, <1>8, <2>1 DEF SleepInput, profileVars, queueVars, saverVars
<1>9. ASSUME NEW p \in left.peers, Accept(p) PROVE HostTypes'
  <2>1. p \in Peers
    BY <1>0, ScenarioFields
  <2>2. link' \in LinkType
    <3> DEFINE k == p \in stack
    <3>1. k \in BOOLEAN
      BY Membership
    <3>2. link' = [peer |-> p, keys |-> k, event |-> "none"]
      BY <1>9 DEF Accept
    <3> HIDE DEF k
    <3> QED
      BY <2>1, <3>1, <3>2 DEF LinkType
  <2>3. loop' \in {"rejecting", "serving"}
    BY <1>9 DEF Accept
  <2> QED
    BY <1>0, <1>a, <1>b, <1>9, <2>2, <2>3 DEF Accept, profileVars, queueVars, saverVars
<1>10. ASSUME AdvError PROVE HostTypes'
  <2>1. ble' \in BleType /\ loop' = "top" /\ deadline' \in 0 .. NoDeadline /\ link' \in LinkType
    BY <1>0, <1>10, Restarted DEF AdvError
  <2>2. left' \in Scenario /\ faulty' \in BOOLEAN
    BY <1>0, <1>10, Spent DEF AdvError, Fault
  <2> QED
    BY <1>0, <1>a, <1>10, <2>1, <2>2 DEF AdvError, queueVars, saverVars
<1>11. ASSUME LinkLost PROVE HostTypes'
  <2>1. ble' \in BleType /\ loop' = "top" /\ deadline' \in 0 .. NoDeadline /\ link' \in LinkType
    BY <1>0, <1>11, Restarted DEF LinkLost
  <2> QED
    BY <1>0, <1>a, <1>b, <1>11, <2>1 DEF LinkLost, queueVars, saverVars
<1>12. ASSUME NEW ev \in {"bond", "no bond"}, StackPairs(ev) PROVE HostTypes'
  <2>1. link.peer \in Peers
    BY <1>12 DEF StackPairs, ServiceInv
  <2>2. stack' \subseteq Peers
    BY <1>0, <1>12, <2>1 DEF StackPairs
  <2>3. link' \in LinkType
    BY <1>0, <1>12 DEF StackPairs, LinkType
  <2> QED
    BY <1>0, <1>a, <1>b, <1>12, <2>2, <2>3 DEF StackPairs, queueVars, saverVars
<1>13. ASSUME Encrypted PROVE HostTypes'
  <2>1. ble' \in BleType
    BY <1>0, <1>13, BleFields DEF Encrypted
  <2> QED
    BY <1>0, <1>a, <1>b, <1>13, <2>1 DEF Encrypted, queueVars, saverVars
<1>14. ASSUME CccdWrite PROVE HostTypes'
  <2>1. sleep' \in SleepType
    BY <1>0, <1>14, Signalled DEF CccdWrite, Activity
  <2>2. dirty' \subseteq Slots \union {ProfileKey}
    BY <1>0, <1>14, BleFields DEF CccdWrite
  <2> QED
    BY <1>0, <1>a, <1>b, <1>14, <2>1, <2>2 DEF CccdWrite, profileVars, queueVars
<1>15. ASSUME NEW i \in {"sleep", "activity"}, ControlPoint(i) PROVE HostTypes'
  <2>1. sleep' \in SleepType
    BY <1>0, <1>15, Signalled DEF ControlPoint
  <2> QED
    BY <1>0, <1>a, <1>b, <1>15, <2>1 DEF ControlPoint, profileVars, queueVars, saverVars
<1>16. ASSUME PassKeyInput PROVE HostTypes'
  <2>1. left' \in Scenario
    BY <1>0, <1>16, ScenarioFields DEF PassKeyInput
  <2> QED
    BY <1>0, <1>a, <1>b, <1>16, <2>1 DEF PassKeyInput, profileVars, queueVars, saverVars
<1>17. ASSUME NEW key \in PasskeyKeys, KeyEvent(key) PROVE HostTypes'
  <2>1. sleep' \in SleepType
    BY <1>0, <1>17, Signalled DEF KeyEvent, Activity
  <2>2. ble' \in BleType /\ deadline' \in 0 .. NoDeadline /\ link' \in LinkType /\ (loop' = "top" \/ loop' = loop)
    <3>1. CASE loop = "asleep"
      BY <1>0, <1>17, <3>1, Restarted DEF KeyEvent
    <3>2. CASE loop # "asleep"
      BY <1>0, <1>17, <3>2 DEF KeyEvent
    <3> QED
      BY <3>1, <3>2
  <2> QED
    BY <1>0, <1>a, <1>b, <1>17, <2>1, <2>2 DEF KeyEvent, queueVars, saverVars
<1>18. ASSUME SleepIdle PROVE HostTypes'
  <2>1. sleep' \in SleepType
    BY <1>0, <1>18 DEF SleepIdle, SleepType
  <2> QED
    BY <1>0, <1>a, <1>b, <1>18, <2>1 DEF SleepIdle, profileVars, queueVars, saverVars
<1> QED
  BY <1>1, <1>2, <1>3, <1>4, <1>5, <1>6, <1>7, <1>8, <1>9, <1>10, <1>11, <1>12, <1>13, <1>14,
     <1>15, <1>16, <1>17, <1>18 DEF ConnectionLoop

LEMMA TypesStep ==
    ASSUME HostTypes, ServiceInv, Next
    PROVE  HostTypes'
BY ProfileTypes, ConnectionTypes DEF Next, Environment, Saver

-----------------------------------------------------------------------------
(* What is served.                                                         *)

\* A step that leaves the bonds and the active profile alone and serves nobody new.
LEMMA ServiceKept ==
    ASSUME ServiceInv, bonds' = bonds, ble'.profile = ble.profile, ble'.bonded = ble.bonded,
           \/ loop' = loop /\ link'.peer = link.peer /\ (loop = "off" => dirty' = dirty /\ saver' = saver)
           \/ loop # "off" /\ loop' \in {"top", "adv", "asleep"}
    PROVE  ServiceInv'
<1>1. CASE loop' = loop /\ link'.peer = link.peer /\ (loop = "off" => dirty' = dirty /\ saver' = saver)
  BY <1>1 DEF ServiceInv, ServedPeerIsBonded, BondedFlag, IsBondedDongle, Live
<1>2. CASE loop # "off" /\ loop' \in {"top", "adv", "asleep"}
  BY <1>2 DEF ServiceInv, ServedPeerIsBonded, BondedFlag, IsBondedDongle, Live
<1> QED
  BY <1>1, <1>2

\* After the slots changed, nobody is served or the served peer has the slot.
LEMMA ServiceMoved ==
    ASSUME NEW b \in Tables, NEW p \in Slots,
           NEW s \in {"Inactive", "Advertising", "Connected"}, SetProfiles(b, p, s),
           loop' \in {"top", "leaving"}, loop' = "leaving" => link'.peer \in Peers
    PROVE  ServiceInv'
<1>1. ble'.profile = p /\ bonds' = b /\ (ble'.bonded <=> Live(b, p))
  BY ProfilesSet
<1>2. BondedFlag'
  BY <1>1 DEF BondedFlag
<1> QED
  BY <1>2 DEF ServiceInv, ServedPeerIsBonded

LEMMA ServiceStep ==
    ASSUME HostTypes, ServiceInv, Next
    PROVE  ServiceInv'
<1>0. ble \in BleType /\ link \in LinkType /\ left \in Scenario /\ bonds \in Tables
  BY DEF HostTypes
<1>1. ASSUME \/ \E a \in Actions : UserTap(a) \/ HostAction(a)
             \/ \E s \in Slots : UserHold(s)
             \/ SendAction \/ Tick \/ PasskeyAnswered \/ PasskeyEnds
      PROVE  ServiceInv'
  <2>1. UNCHANGED <<bonds, ble, loop, link, dirty, saver>>
    BY <1>1 DEF UserTap, HostAction, UserHold, SendAction, Tick, PasskeyAnswered, PasskeyEnds,
                profileVars, saverVars
  <2> QED
    BY <2>1, ServiceKept
<1>2. ASSUME \/ SleepInput \/ SleepIdle \/ CccdWrite \/ PassKeyInput
             \/ \E input \in {"sleep", "activity"} : ControlPoint(input)
      PROVE  ServiceInv'
  <2>1. UNCHANGED <<bonds, ble, loop, link>> /\ loop # "off"
    BY <1>2 DEF SleepInput, SleepIdle, CccdWrite, PassKeyInput, ControlPoint, profileVars
  <2> QED
    BY <2>1, ServiceKept
<1>3. ASSUME SaverTake \/ SaverStore \/ SaverFails PROVE ServiceInv'
  <2>1. UNCHANGED <<bonds, ble, loop, link>> /\ (dirty # {} \/ saver # {})
    BY <1>3 DEF SaverTake, SaverStore, SaverFails, profileVars
  <2>2. loop # "off"
    BY <2>1 DEF ServiceInv
  <2> QED
    BY <2>1, <2>2, ServiceKept
<1>4. ASSUME Advertise \/ AdvTimeout \/ Encrypted PROVE ServiceInv'
  <2>1. /\ bonds' = bonds /\ ble'.profile = ble.profile /\ ble'.bonded = ble.bonded
        /\ loop # "off" /\ (loop' \in {"top", "adv", "asleep"} \/ (loop' = loop /\ link' = link))
    <3>1. \E s \in {"Inactive", "Advertising", "Connected"} : ble' = [ble EXCEPT !.state = s]
      BY <1>4 DEF Advertise, AdvTimeout, Encrypted
    <3> QED
      BY <1>0, <1>4, <3>1, BleFields DEF Advertise, AdvTimeout, Encrypted
  <2> QED
    BY <2>1, ServiceKept
<1>5. ASSUME Rejected PROVE ServiceInv'
  <2>1. UNCHANGED <<bonds, ble>> /\ loop # "off" /\ loop' = "top"
    BY <1>5 DEF Rejected, profileVars
  <2> QED
    BY <2>1, ServiceKept
<1>6. ASSUME Left \/ AdvError \/ LinkLost PROVE ServiceInv'
  <2>1. Restart(ble.state) /\ bonds' = bonds /\ loop # "off"
    BY <1>6 DEF Left, AdvError, LinkLost
  <2>2. ble'.profile = ble.profile /\ ble'.bonded = ble.bonded /\ loop' = "top"
    BY <1>0, <2>1, Restarted
  <2> QED
    BY <2>1, <2>2, ServiceKept
<1>7. ASSUME NEW key \in PasskeyKeys, KeyEvent(key) PROVE ServiceInv'
  <2>1. bonds' = bonds /\ loop # "off"
    BY <1>7 DEF KeyEvent
  <2>2. CASE loop = "asleep"
    <3>1. ble'.profile = ble.profile /\ ble'.bonded = ble.bonded /\ loop' = "top"
      BY <1>0, <1>7, <2>2, Restarted DEF KeyEvent
    <3> QED
      BY <2>1, <3>1, ServiceKept
  <2>3. CASE loop # "asleep"
    <3>1. UNCHANGED <<ble, loop, link>>
      BY <1>7, <2>3 DEF KeyEvent
    <3> QED
      BY <2>1, <3>1, ServiceKept
  <2> QED
    BY <2>2, <2>3
<1>8. ASSUME NEW ev \in {"bond", "no bond"}, StackPairs(ev) PROVE ServiceInv'
  <2>1. UNCHANGED <<bonds, ble, loop>> /\ loop # "off"
    BY <1>8 DEF StackPairs
  <2>2. link'.peer = link.peer
    BY <1>0, <1>8 DEF StackPairs, LinkType
  <2> QED
    BY <2>1, <2>2, ServiceKept
<1>9. ASSUME NEW p \in left.peers, Accept(p) PROVE ServiceInv'
  <2>1. p \in Peers
    BY <1>0, ScenarioFields
  <2>2. UNCHANGED <<bonds, ble>> /\ link'.peer = p /\ loop' \in {"rejecting", "serving"} /\ loop # "off"
    BY <1>9 DEF Accept, profileVars
  <2>3. loop' = "serving" => ~ Mismatch(p)
    BY <1>9 DEF Accept
  <2>4. ServedPeerIsBonded'
    BY <2>2, <2>3 DEF ServedPeerIsBonded, Mismatch, IsBondedDongle, Live
  <2>5. BondedFlag'
    BY <2>2 DEF ServiceInv, BondedFlag, Live
  <2> QED
    BY <2>1, <2>2, <2>4, <2>5 DEF ServiceInv
<1>10. ASSUME PairingComplete PROVE ServiceInv'
  <2>1. loop = "serving" /\ loop' = loop
    BY <1>10 DEF PairingComplete
  <2>2. link'.peer = link.peer
    BY <1>0, <1>10 DEF PairingComplete, LinkType
  <2>3. CASE link.event # "bond"
    <3>1. UNCHANGED <<ble, bonds>>
      BY <1>10, <2>3 DEF PairingComplete, profileVars
    <3> QED
      BY <2>1, <2>2, <3>1, ServiceKept
  <2>4. CASE link.event = "bond"
    <3> DEFINE b == [bonds EXCEPT ![ble.profile] = [kind |-> "bond", peer |-> link.peer]]
    <3>1. SetProfiles(b, ble.profile, ble.state)
      BY <1>10, <2>4 DEF PairingComplete
    <3>2. link.peer \in Peers /\ ble.profile \in Slots
          /\ ble.state \in {"Inactive", "Advertising", "Connected"}
      BY <1>0, <2>1, BleFields DEF ServiceInv
    <3>3. b \in Tables /\ b[ble.profile].peer = link.peer
          /\ \A s \in Slots : s # ble.profile => b[s] = bonds[s]
      BY <1>0, <3>2, RecordFacts DEF Tables
    <3> HIDE DEF b
    <3>4. bonds' = b /\ ble'.profile = ble.profile /\ (ble'.bonded <=> Live(b, ble.profile))
      BY <3>1, <3>2, <3>3, ProfilesSet
    <3>5. BondedFlag'
      BY <3>4 DEF BondedFlag
    <3>6. ServedPeerIsBonded'
      BY <2>1, <2>2, <3>3, <3>4, SlotFacts DEF ServiceInv, ServedPeerIsBonded, IsBondedDongle, Live
    <3> QED
      BY <2>1, <2>2, <3>2, <3>5, <3>6 DEF ServiceInv
  <2> QED
    BY <2>3, <2>4
<1>11. ASSUME Boot PROVE ServiceInv'
  <2>1. loop' = "top"
    BY <1>11 DEF Boot
  <2>2. PICK u : SetProfiles(Loaded(u), flash.profile, "Inactive")
    BY <1>11 DEF Boot
  <2>3. Loaded(u) \in Tables /\ flash.profile \in Slots
    BY RecordFacts DEF Loaded, Tables, HostTypes
  <2> QED
    BY <2>1, <2>2, <2>3, ServiceMoved
<1>12. ASSUME PowerCycle PROVE ServiceInv'
  BY <1>12 DEF PowerCycle, ServiceInv, ServedPeerIsBonded, BondedFlag
<1>13. ASSUME UpdateProfile PROVE ServiceInv'
  <2>1. PICK a \in chan : ProfileStep(a)
    BY <1>13 DEF UpdateProfile, ProfileStep
  <2>2. loop \in {"adv", "serving"} /\ a \in Actions
    BY <1>13, Singles DEF UpdateProfile, HostTypes
  <2>3. CASE a.kind = "switch" /\ a.slot = ble.profile
    <3>1. UNCHANGED <<ble, bonds, loop, link>>
      BY <2>1, <2>3 DEF ProfileStep, profileVars
    <3> QED
      BY <2>2, <3>1, ServiceKept
  <2>4. CASE ~ (a.kind = "switch" /\ a.slot = ble.profile)
    <3>1. loop' \in {"top", "leaving"} /\ (loop' = "leaving" => link'.peer \in Peers)
      <4>1. CASE loop = "adv"
        BY <2>1, <2>4, <4>1 DEF ProfileStep
      <4>2. CASE loop = "serving"
        <5>1. loop' = "leaving" /\ link' = [link EXCEPT !.event = "none"] /\ link.peer \in Peers
          BY <2>1, <2>4, <4>2 DEF ProfileStep, ServiceInv
        <5>2. link'.peer = link.peer
          BY <1>0, <5>1 DEF LinkType
        <5> QED
          BY <5>1, <5>2
      <4> QED
        BY <2>2, <4>1, <4>2
    <3>2. \/ UNCHANGED <<ble, bonds, stack, dirty>>
          \/ \E t \in Slots : SetProfiles(bonds, t, "Inactive") /\ dirty' = dirty \union {ProfileKey}
          \/ \E t \in Slots : /\ SetProfiles([bonds EXCEPT ![t] = Removed], ble.profile, ble.state)
                              /\ dirty' = dirty \union {t}
      BY <2>1, <2>2, <2>4, ProfileChange DEF HostTypes
    <3>3. CASE UNCHANGED <<ble, bonds, stack, dirty>>
      BY <2>2, <3>1, <3>3 DEF ServiceInv, ServedPeerIsBonded, BondedFlag, Live
    <3>4. CASE \E t \in Slots : SetProfiles(bonds, t, "Inactive") /\ dirty' = dirty \union {ProfileKey}
      BY <1>0, <3>1, <3>4, ServiceMoved
    <3>5. CASE \E t \in Slots : /\ SetProfiles([bonds EXCEPT ![t] = Removed], ble.profile, ble.state)
                                /\ dirty' = dirty \union {t}
      <4>1. \A t \in Slots : [bonds EXCEPT ![t] = Removed] \in Tables
        BY <1>0, RecordFacts DEF Tables
      <4>2. ble.profile \in Slots /\ ble.state \in {"Inactive", "Advertising", "Connected"}
        BY <1>0, BleFields
      <4> QED
        BY <3>1, <3>5, <4>1, <4>2, ServiceMoved
    <3> QED
      BY <3>2, <3>3, <3>4, <3>5
  <2> QED
    BY <2>3, <2>4
<1> QED
  BY <1>1, <1>2, <1>3, <1>4, <1>5, <1>6, <1>7, <1>8, <1>9, <1>10, <1>11, <1>12, <1>13
  DEF Next, ConnectionLoop, Saver, Environment

-----------------------------------------------------------------------------
(* Passkey entry.                                                          *)

LEMMA Prefix ==
    ASSUME NEW S, NEW d \in Seq(S), NEW n \in Nat, n <= Len(d)
    PROVE  SubSeq(d, 1, n) \in Seq(S) /\ Len(SubSeq(d, 1, n)) = n
OBVIOUS

LEMMA DigitFacts ==
    /\ <<>> \in Digits
    /\ \A d \in Digits, s \in Sessions : Len(d) < PasskeyLength => Append(d, s) \in Digits
    /\ \A d \in Digits : d # <<>> => SubSeq(d, 1, Len(d) - 1) \in Digits
<1>1. <<>> \in Digits
  <2>1. <<>> \in [1 .. 0 -> Sessions] /\ 0 \in 0 .. PasskeyLength
    BY PasskeyBounds
  <2> QED
    BY <2>1 DEF Digits
<1>2. ASSUME NEW d \in Digits PROVE d \in Seq(Sessions) /\ Len(d) \in 0 .. PasskeyLength
  <2>1. PICK n \in 0 .. PasskeyLength : d \in [1 .. n -> Sessions]
    BY DEF Digits
  <2>2. n \in Nat
    BY <2>1, PasskeyBounds
  <2>3. d \in Seq(Sessions) /\ Len(d) = n
    BY <2>1, <2>2
  <2> QED
    BY <2>1, <2>3
<1>3. ASSUME NEW d \in Seq(Sessions), Len(d) \in 0 .. PasskeyLength PROVE d \in Digits
  <2>1. d \in [1 .. Len(d) -> Sessions]
    OBVIOUS
  <2> QED
    BY <1>3, <2>1 DEF Digits
<1>4. ASSUME NEW d \in Digits, NEW s \in Sessions, Len(d) < PasskeyLength PROVE Append(d, s) \in Digits
  <2>1. d \in Seq(Sessions) /\ Len(d) \in 0 .. PasskeyLength
    BY <1>2
  <2>2. Append(d, s) \in Seq(Sessions) /\ Len(Append(d, s)) = Len(d) + 1
    BY <2>1
  <2>3. Len(Append(d, s)) \in 0 .. PasskeyLength
    BY <1>4, <2>1, <2>2, PasskeyBounds
  <2> QED
    BY <1>3, <2>2, <2>3
<1>5. ASSUME NEW d \in Digits, d # <<>> PROVE SubSeq(d, 1, Len(d) - 1) \in Digits
  <2>1. d \in Seq(Sessions) /\ Len(d) \in 0 .. PasskeyLength /\ Len(d) # 0
    BY <1>2, <1>5
  <2>2. SubSeq(d, 1, Len(d) - 1) \in Seq(Sessions) /\ Len(SubSeq(d, 1, Len(d) - 1)) = Len(d) - 1
    <3>1. Len(d) - 1 \in Nat /\ Len(d) - 1 <= Len(d)
      BY <2>1, PasskeyBounds
    <3> QED
      BY <2>1, <3>1, Prefix
  <2>3. Len(SubSeq(d, 1, Len(d) - 1)) \in 0 .. PasskeyLength
    BY <2>1, <2>2, PasskeyBounds
  <2> QED
    BY <1>3, <2>2, <2>3
<1> QED
  BY <1>1, <1>4, <1>5

\* The record of passkey entry and the two facts every operation keeps: digits are typed
\* in a session that was begun, and an answer is for the session that is open.
EntryInv(e) ==
    /\ e \in PasskeyType
    /\ e.mode \/ e.active => e.session >= 1
    /\ e.mode => e.open
    /\ e.open /\ e.response # NoResponse => e.response.session = e.session

LEMMA Cleared ==
    ASSUME NEW e, EntryInv(e)
    PROVE  /\ EntryInv(Clear(e)) /\ ~ Clear(e).mode /\ Clear(e).session = e.session
           /\ EntryInv([Clear(e) EXCEPT !.response = NoResponse])
           /\ ~ [Clear(e) EXCEPT !.response = NoResponse].mode
           /\ [Clear(e) EXCEPT !.response = NoResponse].session = e.session
<1>1. e \in PasskeyType /\ NoResponse \in Response
  BY DigitFacts, PasskeyBounds DEF EntryInv, NoResponse, Response
<1>2. CASE e.open
  BY <1>1, <1>2 DEF EntryInv, Clear, PasskeyType
<1>3. CASE ~ e.open
  BY <1>1, <1>3 DEF EntryInv, Clear, PasskeyType
<1> QED
  BY <1>2, <1>3

LEMMA Begun ==
    ASSUME NEW e, EntryInv(e), e.session < MaxSessions
    PROVE  EntryInv(Begin(e)) /\ Begin(e).session = e.session + 1
<1>1. e \in PasskeyType /\ NoResponse \in Response
  BY DigitFacts, PasskeyBounds DEF EntryInv, NoResponse, Response
<1>2. e.session + 1 \in 0 .. MaxSessions /\ e.session + 1 >= 1
  BY <1>1, PasskeyBounds DEF PasskeyType
<1> QED
  BY <1>1, <1>2 DEF EntryInv, Begin, PasskeyType

\* A key event changes neither the mode nor the session, and what it answers is for this
\* session.
LEMMA Typed ==
    ASSUME NEW e, EntryInv(e), NEW key \in PasskeyKeys
    PROVE  /\ EntryInv(PasskeyKey(e, key)) /\ PasskeyKey(e, key).session = e.session
           /\ PasskeyKey(e, key).mode = e.mode /\ PasskeyKey(e, key).open = e.open
<1> DEFINE Same(f) == f.session = e.session /\ f.mode = e.mode /\ f.open = e.open
<1>1. e \in PasskeyType
  BY DEF EntryInv
<1> DEFINE s == CheckModeTransition(e)
<1>2. EntryInv(s) /\ Same(s)
  <2>1. CASE e.mode /\ ~ e.active
    BY <1>1, <2>1, DigitFacts DEF EntryInv, CheckModeTransition, PasskeyType
  <2>2. CASE ~ (e.mode /\ ~ e.active)
    <3> DEFINE b == e.active /\ e.mode
    <3>1. b \in BOOLEAN /\ (b => e.active)
      BY <1>1 DEF PasskeyType
    <3>2. s = [e EXCEPT !.active = b]
      BY <2>2 DEF CheckModeTransition
    <3> HIDE DEF b, s
    <3>3. s \in PasskeyType /\ s.active = b /\ Same(s) /\ s.response = e.response
      BY <1>1, <3>1, <3>2 DEF PasskeyType
    <3> QED
      BY <3>1, <3>3 DEF EntryInv
  <2> QED
    BY <2>1, <2>2
<1> HIDE DEF s
<1>3. ASSUME s.active PROVE EntryInv(HandleKey(s, key)) /\ Same(HandleKey(s, key))
  <2> DEFINE h == HandleKey(s, key)
  <2>1. s \in PasskeyType /\ s.digits \in Digits /\ s.session \in Sessions
    BY <1>2, <1>3 DEF EntryInv, PasskeyType, Sessions
  <2>2. ASSUME NEW d \in Digits PROVE EntryInv([s EXCEPT !.digits = d]) /\ Same([s EXCEPT !.digits = d])
    BY <1>2, <2>1 DEF EntryInv, PasskeyType
  <2>3. ASSUME NEW r \in Response, r.session = s.session
        PROVE  /\ EntryInv([s EXCEPT !.digits = <<>>, !.response = r])
               /\ Same([s EXCEPT !.digits = <<>>, !.response = r])
    BY <1>2, <2>1, <2>3, DigitFacts DEF EntryInv, PasskeyType
  <2>4. ASSUME NEW k \in {"cancel", "submit"}, NEW d \in Digits
        PROVE  Answer(k, d, s) \in Response /\ Answer(k, d, s).session = s.session
    BY <2>1 DEF Answer, Response, Sessions
  <2>5. CASE key = "digit" /\ Len(s.digits) < PasskeyLength
    <3>1. HandleKey(s, key) = [s EXCEPT !.digits = Append(s.digits, s.session)]
      BY <2>5 DEF HandleKey
    <3> DEFINE d == Append(s.digits, s.session)
    <3>2. d \in Digits
      BY <2>1, <2>5, DigitFacts
    <3> HIDE DEF d
    <3>3. EntryInv([s EXCEPT !.digits = d]) /\ Same([s EXCEPT !.digits = d])
      BY <2>2, <3>2
    <3> QED
      BY <3>1, <3>3 DEF d
  <2>6. CASE key = "enter" /\ Len(s.digits) = PasskeyLength
    <3>1. HandleKey(s, key) = [s EXCEPT !.digits = <<>>, !.response = Answer("submit", s.digits, s)]
      BY <2>6 DEF HandleKey
    <3> QED
      BY <2>1, <2>3, <2>4, <3>1
  <2>7. CASE key = "escape"
    <3>1. HandleKey(s, key) = [s EXCEPT !.digits = <<>>, !.response = Answer("cancel", <<>>, s)]
      BY <2>7 DEF HandleKey
    <3> QED
      BY <2>3, <2>4, <3>1, DigitFacts
  <2>8. CASE key = "backspace" /\ s.digits # <<>>
    <3>1. HandleKey(s, key) = [s EXCEPT !.digits = SubSeq(s.digits, 1, Len(s.digits) - 1)]
      BY <2>8 DEF HandleKey
    <3> QED
      BY <2>1, <2>2, <2>8, <3>1, DigitFacts
  <2>9. CASE /\ ~ (key = "digit" /\ Len(s.digits) < PasskeyLength)
             /\ ~ (key = "enter" /\ Len(s.digits) = PasskeyLength)
             /\ key # "escape" /\ ~ (key = "backspace" /\ s.digits # <<>>)
    <3>1. HandleKey(s, key) = s
      BY <2>9 DEF HandleKey
    <3> QED
      BY <1>2, <3>1
  <2> QED
    BY <2>5, <2>6, <2>7, <2>8, <2>9
<1>4. PasskeyKey(e, key) = IF s.active THEN HandleKey(s, key) ELSE s
  BY DEF PasskeyKey, s
<1> QED
  BY <1>2, <1>3, <1>4

LEMMA PasskeyKept ==
    ASSUME EntryInv(pk'), pk'.session + left'.sessions <= MaxSessions, pk'.mode => loop' = "serving"
    PROVE  PasskeyInv'
BY DEF EntryInv, PasskeyInv, PasskeyModeHasSession, ResponseIsForSession

LEMMA PasskeyStep ==
    ASSUME HostTypes, PasskeyInv, Next
    PROVE  PasskeyInv'
<1>0. EntryInv(pk) /\ pk.session + left.sessions <= MaxSessions /\ (pk.mode => loop = "serving")
  BY DEF EntryInv, PasskeyInv, PasskeyModeHasSession, ResponseIsForSession
<1>a. left \in Scenario
  BY DEF HostTypes
<1>1. ASSUME pk' = pk, left'.sessions = left.sessions, loop = "serving" => loop' = "serving"
      PROVE  PasskeyInv'
  BY <1>0, <1>1, PasskeyKept
<1>2. ASSUME pk' = Clear(pk) \/ pk' = [Clear(pk) EXCEPT !.response = NoResponse],
             left'.sessions = left.sessions
      PROVE  PasskeyInv'
  <2>1. EntryInv(pk') /\ ~ pk'.mode /\ pk'.session = pk.session
    BY <1>0, <1>2, Cleared
  <2> QED
    BY <1>0, <1>2, <2>1, PasskeyKept
<1>3. ASSUME \/ \E a \in Actions : UserTap(a) \/ HostAction(a)
             \/ \E s \in Slots : UserHold(s)
             \/ SendAction \/ Tick \/ SleepInput \/ SleepIdle \/ CccdWrite
             \/ \E i \in {"sleep", "activity"} : ControlPoint(i)
             \/ SaverTake \/ SaverStore \/ SaverFails \/ Encrypted
             \/ \E ev \in {"bond", "no bond"} : StackPairs(ev)
      PROVE  PasskeyInv'
  <2>1. pk' = pk /\ loop' = loop /\ (left' = left \/ Action \/ Fault)
    BY <1>3 DEF UserTap, HostAction, UserHold, SendAction, Tick, SleepInput, SleepIdle, CccdWrite,
                ControlPoint, SaverTake, SaverStore, SaverFails, Encrypted, StackPairs
  <2>2. left'.sessions = left.sessions
    BY <1>a, <2>1, Spent
  <2> QED
    BY <1>1, <2>1, <2>2
<1>4. ASSUME \/ Advertise \/ AdvTimeout \/ Rejected \/ Left \/ AdvError \/ Boot
             \/ \E p \in left.peers : Accept(p)
      PROVE  PasskeyInv'
  <2>1. pk' = pk /\ loop # "serving" /\ (left' = left \/ Fault)
    BY <1>4 DEF Advertise, AdvTimeout, Rejected, Left, AdvError, Boot, Accept
  <2>2. left'.sessions = left.sessions
    BY <1>a, <2>1, Spent
  <2> QED
    BY <1>1, <2>1, <2>2
<1>5. ASSUME LinkLost \/ PairingComplete \/ PasskeyAnswered \/ PasskeyEnds PROVE PasskeyInv'
  <2>1. /\ pk' = Clear(pk) \/ pk' = [Clear(pk) EXCEPT !.response = NoResponse]
        /\ left' = left
    BY <1>5 DEF LinkLost, PairingComplete, PasskeyAnswered, PasskeyEnds, DropServe
  <2> QED
    BY <1>2, <2>1
<1>6. ASSUME UpdateProfile PROVE PasskeyInv'
  <2>1. PICK a \in chan : ProfileStep(a)
    BY <1>6 DEF UpdateProfile, ProfileStep
  <2>2. loop \in {"adv", "serving"} /\ left' = left
    BY <1>6, <2>1 DEF UpdateProfile, ProfileStep
  <2>3. \/ pk' = pk /\ loop' = loop
        \/ pk' = pk /\ loop = "adv"
        \/ pk' = Clear(pk)
    BY <2>1 DEF ProfileStep, DropServe
  <2> QED
    BY <1>1, <1>2, <2>2, <2>3
<1>7. ASSUME PassKeyInput PROVE PasskeyInv'
  <2>1. pk' = Begin(pk) /\ loop' = "serving" /\ left.sessions > 0 /\ left' = [left EXCEPT !.sessions = left.sessions - 1]
    BY <1>7 DEF PassKeyInput
  <2>2. left.sessions \in Nat /\ left'.sessions = left.sessions - 1 /\ pk.session \in Nat
    BY <1>0, <1>a, <2>1, PasskeyBounds DEF Scenario, EntryInv, PasskeyType
  <2>3. pk.session < MaxSessions
    BY <1>0, <2>1, <2>2, PasskeyBounds
  <2>4. EntryInv(pk') /\ pk'.session = pk.session + 1
    BY <1>0, <2>1, <2>3, Begun
  <2>5. pk'.session + left'.sessions <= MaxSessions
    BY <1>0, <2>2, <2>4, PasskeyBounds
  <2> QED
    BY <2>1, <2>4, <2>5, PasskeyKept
<1>8. ASSUME NEW key \in PasskeyKeys, KeyEvent(key) PROVE PasskeyInv'
  <2>1. pk' = PasskeyKey(pk, key) /\ left' = left /\ (loop # "asleep" => loop' = loop)
    BY <1>8 DEF KeyEvent
  <2>2. EntryInv(pk') /\ pk'.session = pk.session /\ pk'.mode = pk.mode
    BY <1>0, <2>1, Typed
  <2> QED
    BY <1>0, <2>1, <2>2, PasskeyKept
<1>9. ASSUME PowerCycle PROVE PasskeyInv'
  <2>1. pk' = [PasskeyIdle EXCEPT !.session = pk.session] /\ Fault
    BY <1>9 DEF PowerCycle
  <2>2. left'.sessions = left.sessions
    BY <1>a, <2>1, Spent
  <2>3. NoResponse \in Response /\ <<>> \in Digits /\ pk.session \in 0 .. MaxSessions
    BY <1>0, DigitFacts, PasskeyBounds DEF NoResponse, Response, EntryInv, PasskeyType
  <2>4. EntryInv(pk') /\ ~ pk'.mode /\ pk'.session = pk.session
    BY <2>1, <2>3 DEF PasskeyIdle, PasskeyType, EntryInv
  <2> QED
    BY <1>0, <2>2, <2>4, PasskeyKept
<1> QED
  BY <1>3, <1>4, <1>5, <1>6, <1>7, <1>8, <1>9 DEF Next, ConnectionLoop, Saver, Environment

-----------------------------------------------------------------------------
(* The saver.                                                              *)

\* A step that marks everything it changes.
LEMMA MarkedChanges ==
    ASSUME HostTypes, SaverInv, dirty \subseteq dirty', saver' = saver, flash' = flash,
           ble'.profile = ble.profile \/ ProfileKey \in dirty',
           \A s \in Slots : bonds'[s] = bonds[s] \/ s \in dirty',
           ~ faulty' /\ loop' # "off" => ~ faulty /\ loop # "off"
    PROVE  SaverInv'
<1>1. \A it \in saver : it.slot # ProfileKey => it.slot \in Slots
  <2>1. saver \subseteq Item
    BY Singles DEF HostTypes
  <2> QED
    BY <2>1 DEF Item, ProfileKey
<1>2. ASSUME NEW it \in saver'
      PROVE  \/ it.slot \in dirty'
             \/ it.slot = ProfileKey /\ it.profile = ble'.profile
             \/ it.slot # ProfileKey /\ it.bond = bonds'[it.slot]
  BY <1>1 DEF SaverInv
<1>3. \A s : UnderWay(s) => UnderWay(s)'
  BY DEF UnderWay
<1>4. ASSUME ~ faulty', loop' # "off" PROVE UnderWay(ProfileKey)' \/ flash'.profile = ble'.profile
  BY <1>3, <1>4 DEF SaverInv, UnderWay
<1>5. ASSUME ~ faulty', loop' # "off", NEW s \in Slots
      PROVE  UnderWay(s)' \/ bonds'[s] = Empty \/ flash'.bonds[s] = bonds'[s]
  <2>1. UnderWay(s) \/ bonds[s] = Empty \/ flash.bonds[s] = bonds[s]
    BY <1>5 DEF SaverInv
  <2>2. CASE s \in dirty'
    BY <2>2 DEF UnderWay
  <2>3. CASE s \notin dirty'
    BY <1>3, <2>1, <2>3
  <2> QED
    BY <2>2, <2>3
<1> QED
  BY <1>2, <1>4, <1>5 DEF SaverInv

LEMMA SaverStep ==
    ASSUME HostTypes, ServiceInv, SaverInv, Next
    PROVE  SaverInv'
<1>0. ble \in BleType /\ bonds \in Tables /\ left \in Scenario
  BY DEF HostTypes
<1>1. ASSUME dirty' = dirty, saver' = saver, flash' = flash, bonds' = bonds, ble'.profile = ble.profile,
             faulty' = faulty \/ faulty' = TRUE, loop # "off" \/ loop' = loop
      PROVE  SaverInv'
  BY <1>1, MarkedChanges
<1>2. ASSUME \/ \E a \in Actions : UserTap(a) \/ HostAction(a)
             \/ \E s \in Slots : UserHold(s)
             \/ SendAction \/ Tick \/ SleepInput \/ SleepIdle
             \/ \E i \in {"sleep", "activity"} : ControlPoint(i)
             \/ PassKeyInput \/ PasskeyAnswered \/ PasskeyEnds
      PROVE  SaverInv'
  <2>1. UNCHANGED <<dirty, saver, flash, bonds, ble, faulty, loop>>
    BY <1>2 DEF UserTap, HostAction, UserHold, SendAction, Tick, SleepInput, SleepIdle, ControlPoint,
                PassKeyInput, PasskeyAnswered, PasskeyEnds, profileVars, saverVars
  <2> QED
    BY <1>1, <2>1
<1>3. ASSUME \/ Rejected \/ \E p \in left.peers : Accept(p)
             \/ \E ev \in {"bond", "no bond"} : StackPairs(ev)
      PROVE  SaverInv'
  <2>1. UNCHANGED <<dirty, saver, flash, bonds, ble, faulty>> /\ loop # "off"
    BY <1>3 DEF Rejected, Accept, StackPairs, profileVars, saverVars
  <2> QED
    BY <1>1, <2>1
<1>4. ASSUME Advertise \/ AdvTimeout \/ Encrypted PROVE SaverInv'
  <2>1. \E s \in {"Inactive", "Advertising", "Connected"} : ble' = [ble EXCEPT !.state = s]
    BY <1>4 DEF Advertise, AdvTimeout, Encrypted
  <2>2. ble'.profile = ble.profile
    BY <1>0, <2>1, BleFields
  <2>3. UNCHANGED <<dirty, saver, flash, bonds, faulty>> /\ loop # "off"
    BY <1>4 DEF Advertise, AdvTimeout, Encrypted, saverVars
  <2> QED
    BY <1>1, <2>2, <2>3
<1>5. ASSUME Left \/ AdvError \/ LinkLost PROVE SaverInv'
  <2>1. Restart(ble.state) /\ UNCHANGED <<dirty, saver, flash, bonds>> /\ loop # "off"
        /\ (faulty' = faulty \/ faulty' = TRUE)
    BY <1>5 DEF Left, AdvError, LinkLost, saverVars, Fault
  <2>2. ble'.profile = ble.profile
    BY <1>0, <2>1, Restarted
  <2> QED
    BY <1>1, <2>1, <2>2
<1>6. ASSUME NEW key \in PasskeyKeys, KeyEvent(key) PROVE SaverInv'
  <2>1. UNCHANGED <<dirty, saver, flash, bonds, faulty>> /\ loop # "off" /\ (Restart(ble.state) \/ ble' = ble)
    BY <1>6 DEF KeyEvent, saverVars
  <2>2. ble'.profile = ble.profile
    BY <1>0, <2>1, Restarted
  <2> QED
    BY <1>1, <2>1, <2>2
<1>7. ASSUME CccdWrite PROVE SaverInv'
  <2>1. UNCHANGED <<saver, flash, bonds, ble, faulty, loop>> /\ dirty \subseteq dirty'
    BY <1>7 DEF CccdWrite, profileVars
  <2> QED
    BY <2>1, MarkedChanges
<1>8. ASSUME PairingComplete PROVE SaverInv'
  <2>1. UNCHANGED <<saver, flash, faulty, loop>>
    BY <1>8 DEF PairingComplete
  <2>2. CASE link.event # "bond"
    BY <1>1, <1>8, <2>1, <2>2 DEF PairingComplete, profileVars
  <2>3. CASE link.event = "bond"
    <3> DEFINE b == [bonds EXCEPT ![ble.profile] = [kind |-> "bond", peer |-> link.peer]]
    <3>1. SetProfiles(b, ble.profile, ble.state) /\ dirty' = dirty \union {ble.profile}
      BY <1>8, <2>3 DEF PairingComplete
    <3>2. ble'.profile = ble.profile /\ bonds' = b
      BY <3>1 DEF SetProfiles
    <3>3. \A s \in Slots : s # ble.profile => b[s] = bonds[s]
      BY <1>0 DEF Tables
    <3> QED
      BY <2>1, <3>1, <3>2, <3>3, MarkedChanges
  <2> QED
    BY <2>2, <2>3
<1>9. ASSUME UpdateProfile PROVE SaverInv'
  <2>1. PICK a \in chan : ProfileStep(a)
    BY <1>9 DEF UpdateProfile, ProfileStep
  <2>2. loop \in {"adv", "serving"} /\ a \in Actions /\ UNCHANGED <<saver, flash, faulty>>
    BY <1>9, <2>1, Singles DEF UpdateProfile, ProfileStep, HostTypes
  <2>3. CASE a.kind = "switch" /\ a.slot = ble.profile
    BY <1>1, <2>1, <2>2, <2>3 DEF ProfileStep, profileVars
  <2>4. CASE ~ (a.kind = "switch" /\ a.slot = ble.profile)
    <3>1. \/ UNCHANGED <<ble, bonds, stack, dirty>>
          \/ \E t \in Slots : SetProfiles(bonds, t, "Inactive") /\ dirty' = dirty \union {ProfileKey}
          \/ \E t \in Slots : /\ SetProfiles([bonds EXCEPT ![t] = Removed], ble.profile, ble.state)
                              /\ dirty' = dirty \union {t}
      BY <1>0, <2>1, <2>2, <2>4, ProfileChange
    <3>2. CASE UNCHANGED <<ble, bonds, stack, dirty>>
      BY <1>1, <2>2, <3>2
    <3>3. CASE \E t \in Slots : SetProfiles(bonds, t, "Inactive") /\ dirty' = dirty \union {ProfileKey}
      <4>1. bonds' = bonds /\ dirty' = dirty \union {ProfileKey}
        BY <3>3 DEF SetProfiles
      <4> QED
        BY <2>2, <4>1, MarkedChanges
    <3>4. CASE \E t \in Slots : /\ SetProfiles([bonds EXCEPT ![t] = Removed], ble.profile, ble.state)
                                /\ dirty' = dirty \union {t}
      <4>1. PICK t \in Slots : /\ SetProfiles([bonds EXCEPT ![t] = Removed], ble.profile, ble.state)
                               /\ dirty' = dirty \union {t}
        BY <3>4
      <4>2. bonds' = [bonds EXCEPT ![t] = Removed] /\ ble'.profile = ble.profile
        BY <4>1 DEF SetProfiles
      <4>3. \A s \in Slots : s # t => bonds'[s] = bonds[s]
        BY <1>0, <4>2 DEF Tables
      <4> QED
        BY <2>2, <4>1, <4>2, <4>3, MarkedChanges
    <3> QED
      BY <3>1, <3>2, <3>3, <3>4
  <2> QED
    BY <2>3, <2>4
<1>10. ASSUME SaverTake PROVE SaverInv'
  <2>1. UNCHANGED <<ble, bonds, flash, faulty, loop>> /\ saver = {}
    BY <1>10 DEF SaverTake, profileVars
  <2>2. PICK s \in dirty :
          /\ dirty' = dirty \ {s}
          /\ saver' = {[slot |-> s, bond |-> IF s = ProfileKey THEN Empty ELSE bonds[s],
                        profile |-> IF s = ProfileKey THEN ble.profile ELSE 0]}
    BY <1>10 DEF SaverTake
  <2> DEFINE new == [slot |-> s, bond |-> IF s = ProfileKey THEN Empty ELSE bonds[s],
                     profile |-> IF s = ProfileKey THEN ble.profile ELSE 0]
  <2>3. new.slot = s /\ (s = ProfileKey => new.profile = ble.profile)
        /\ (s # ProfileKey => new.bond = bonds[s])
    OBVIOUS
  <2>4. saver' = {new} /\ dirty' = dirty \ {s}
    BY <2>2
  <2> HIDE DEF new
  <2>5. \A t : UnderWay(t) => UnderWay(t)'
    BY <2>1, <2>3, <2>4 DEF UnderWay
  <2>6. ASSUME NEW it \in saver'
        PROVE  \/ it.slot \in dirty'
               \/ it.slot = ProfileKey /\ it.profile = ble'.profile
               \/ it.slot # ProfileKey /\ it.bond = bonds'[it.slot]
    BY <2>1, <2>3, <2>4
  <2>7. ASSUME ~ faulty', loop' # "off"
        PROVE  /\ UnderWay(ProfileKey)' \/ flash'.profile = ble'.profile
               /\ \A t \in Slots : UnderWay(t)' \/ bonds'[t] = Empty \/ flash'.bonds[t] = bonds'[t]
    <3>1. /\ UnderWay(ProfileKey) \/ flash.profile = ble.profile
          /\ \A t \in Slots : UnderWay(t) \/ bonds[t] = Empty \/ flash.bonds[t] = bonds[t]
      BY <2>1, <2>7 DEF SaverInv
    <3> QED
      BY <2>1, <2>5, <3>1
  <2> QED
    BY <2>6, <2>7 DEF SaverInv
<1>11. ASSUME SaverStore PROVE SaverInv'
  <2>1. UNCHANGED <<ble, bonds, dirty, faulty, loop>> /\ saver' = {}
    BY <1>11 DEF SaverStore, profileVars
  <2>2. PICK it \in saver : flash' = IF it.slot = ProfileKey THEN [flash EXCEPT !.profile = it.profile]
                                     ELSE [flash EXCEPT !.bonds[it.slot] = it.bond]
    BY <1>11 DEF SaverStore
  <2>3. flash \in [bonds : Tables, profile : Slots] /\ saver = {it} /\ it \in Item
    <3>1. AtMostOne(saver, Item) /\ saver # {}
      BY <2>2 DEF HostTypes
    <3> QED
      BY <2>2, <3>1 DEF HostTypes, AtMostOne
  <2>4. it.slot # ProfileKey => it.slot \in Slots
    BY <2>3 DEF Item, ProfileKey
  <2>5. CASE it.slot = ProfileKey
    <3>1. flash'.bonds = flash.bonds /\ flash'.profile = it.profile
      BY <2>2, <2>3, <2>5
    <3>2. ASSUME ~ faulty', loop' # "off" PROVE UnderWay(ProfileKey)' \/ flash'.profile = ble'.profile
      <4>1. it.slot \in dirty \/ it.profile = ble.profile
        BY <2>2, <2>5 DEF SaverInv
      <4> QED
        BY <2>1, <2>5, <3>1, <4>1 DEF UnderWay
    <3>3. ASSUME ~ faulty', loop' # "off", NEW t \in Slots
          PROVE  UnderWay(t)' \/ bonds'[t] = Empty \/ flash'.bonds[t] = bonds'[t]
      <4>1. UnderWay(t) \/ bonds[t] = Empty \/ flash.bonds[t] = bonds[t]
        BY <2>1, <3>3 DEF SaverInv
      <4>2. UnderWay(t) => t \in dirty
        BY <2>3, <2>5, SlotFacts DEF UnderWay
      <4> QED
        BY <2>1, <3>1, <4>1, <4>2 DEF UnderWay
    <3> QED
      BY <2>1, <3>2, <3>3 DEF SaverInv
  <2>6. CASE it.slot # ProfileKey
    <3>1. flash'.profile = flash.profile /\ flash'.bonds = [flash.bonds EXCEPT ![it.slot] = it.bond]
      BY <2>2, <2>3, <2>6
    <3>2. ASSUME ~ faulty', loop' # "off" PROVE UnderWay(ProfileKey)' \/ flash'.profile = ble'.profile
      <4>1. UnderWay(ProfileKey) \/ flash.profile = ble.profile
        BY <2>1, <3>2 DEF SaverInv
      <4>2. UnderWay(ProfileKey) => ProfileKey \in dirty
        BY <2>3, <2>6 DEF UnderWay
      <4> QED
        BY <2>1, <3>1, <4>1, <4>2 DEF UnderWay
    <3>3. ASSUME ~ faulty', loop' # "off", NEW t \in Slots
          PROVE  UnderWay(t)' \/ bonds'[t] = Empty \/ flash'.bonds[t] = bonds'[t]
      <4>1. UnderWay(t) \/ bonds[t] = Empty \/ flash.bonds[t] = bonds[t]
        BY <2>1, <3>3 DEF SaverInv
      <4>2. it.slot \in dirty \/ it.bond = bonds[it.slot]
        BY <2>2, <2>6 DEF SaverInv
      <4>3. UnderWay(t) => t \in dirty \/ t = it.slot
        BY <2>3 DEF UnderWay
      <4>4. flash'.bonds[t] = IF t = it.slot THEN it.bond ELSE flash.bonds[t]
        BY <2>3, <3>1 DEF Tables
      <4> QED
        BY <2>1, <4>1, <4>2, <4>3, <4>4 DEF UnderWay
    <3> QED
      BY <2>1, <3>2, <3>3 DEF SaverInv
  <2> QED
    BY <2>5, <2>6
<1>12. ASSUME SaverFails \/ PowerCycle PROVE SaverInv'
  <2>1. saver' = {} /\ faulty' = TRUE
    BY <1>12 DEF SaverFails, PowerCycle, Fault
  <2> QED
    BY <2>1 DEF SaverInv
<1>13. ASSUME Boot PROVE SaverInv'
  <2>1. saver' = {}
    BY <1>13 DEF Boot, ServiceInv, saverVars
  <2>2. flash' = flash
    BY <1>13 DEF Boot, saverVars
  <2>3. CASE SetProfiles(Loaded({}), flash.profile, "Inactive")
    <3>1. ble'.profile = flash.profile /\ bonds' = Loaded({})
      BY <2>3 DEF SetProfiles
    <3>2. \A s \in Slots : bonds'[s] = Empty \/ bonds'[s] = flash.bonds[s]
      BY <3>1 DEF Loaded
    <3> QED
      BY <2>1, <2>2, <3>1, <3>2 DEF SaverInv
  <2>4. CASE Fault
    BY <2>1, <2>4 DEF SaverInv, Fault
  <2> QED
    BY <1>13, <2>3, <2>4 DEF Boot
<1> QED
  BY <1>2, <1>3, <1>4, <1>5, <1>6, <1>7, <1>8, <1>9, <1>10, <1>11, <1>12, <1>13
  DEF Next, ConnectionLoop, Saver, Environment

-----------------------------------------------------------------------------
(* The theorems.                                                           *)

LEMMA BleStutter ==
    ASSUME BleInv, UNCHANGED vars
    PROVE  BleInv'
<1>1. UNCHANGED <<ble, bonds, stack, loop, deadline, link, outbox, chan, dirty, saver, flash,
                  sleep, pk, faulty, left>>
  BY DEF vars, profileVars, saverVars, queueVars
<1>2. HostTypes'
  BY <1>1 DEF BleInv, HostTypes
<1>3. ServiceInv'
  BY <1>1 DEF BleInv, ServiceInv, ServedPeerIsBonded, BondedFlag, IsBondedDongle, Live
<1>4. PasskeyInv'
  BY <1>1 DEF BleInv, PasskeyInv, PasskeyModeHasSession, ResponseIsForSession
<1>5. SaverInv'
  BY <1>1 DEF BleInv, SaverInv, UnderWay
<1> QED
  BY <1>2, <1>3, <1>4, <1>5 DEF BleInv

LEMMA BleStep ==
    ASSUME BleInv, [Next]_vars
    PROVE  BleInv'
<1>1. CASE Next
  BY <1>1, TypesStep, ServiceStep, PasskeyStep, SaverStep DEF BleInv
<1>2. CASE UNCHANGED vars
  BY <1>2, BleStutter
<1> QED
  BY <1>1, <1>2

\* The inductive invariant holds: types; what belongs to the peer that is served; which passkey
\* request the mode, the guard and the typed digits belong to; and, for every slot, which of
\* flash, the stack, the saver's hands and the dirty set has its last change.
THEOREM BleIsSound == Spec => []BleInv
<1>1. Init => BleInv
  BY InitInv
<1>2. BleInv /\ [Next]_vars => BleInv'
  BY BleStep
<1> QED
  BY <1>1, <1>2, PTL DEF Spec

\* What is served is owed to the session that is open: a host is served only on a profile
\* that is free or its own, and reports are withheld and passkeys submitted only for the
\* request of this session (run_ble_keyboard, PasskeyCleanupGuard, PASSKEY_RESPONSE).
THEOREM ServiceStaysSound == Spec => []ServiceIsSound
<1>1. BleInv => ServiceIsSound
  BY DEF BleInv, ServiceInv, PasskeyInv, ServiceIsSound
<1> QED
  BY <1>1, BleIsSound, PTL

\* The copies of a bond agree: slots, active profile and bonded flag at any time, and flash
\* once the saver is idle (update_stack_bonds, set_ble_bonded, ProfileManager::run).
THEOREM BondsStayInAgreement == Spec => []BondsAgree
<1>1. ASSUME BleInv PROVE BondsAgree
  <2>1. TypeOK
    <3>1. chan \subseteq Actions /\ Cardinality(chan) <= 1 /\ saver \subseteq Item /\ Cardinality(saver) <= 1
      BY <1>1, Singles DEF BleInv, HostTypes
    <3> QED
      BY <1>1, <3>1 DEF BleInv, HostTypes, PasskeyInv, TypeOK, BleType, Tables, Record, LinkType, SleepType
  <2>2. BondedFlag
    BY <1>1 DEF BleInv, ServiceInv
  <2>3. SavedWhenIdle
    BY <1>1 DEF BleInv, SaverInv, UnderWay, SavedWhenIdle
  <2> QED
    BY <2>1, <2>2, <2>3 DEF BondsAgree
<1>2. BleInv => BondsAgree
  BY <1>1
<1> QED
  BY <1>2, BleIsSound, PTL

\* A bond passes to another peer only after it was cleared: pairing needs a free slot or its
\* owner, and a boot finds the slots empty (update_profile, load_bonded_devices).
THEOREM BondsKeepTheirOwner == Spec => BondKeepsOwner
<1> DEFINE Kept == \A s \in Slots : Live(bonds, s) /\ Live(bonds', s) => bonds'[s].peer = bonds[s].peer
<1>1. ASSUME BleInv, Next PROVE Kept
  <2>0. ble \in BleType /\ link \in LinkType /\ bonds \in Tables
    BY <1>1 DEF BleInv, HostTypes
  <2>1. CASE bonds' = bonds
    BY <2>1
  <2>2. CASE PairingComplete
    <3>1. CASE link.event # "bond"
      BY <2>2, <3>1 DEF PairingComplete, profileVars
    <3>2. CASE link.event = "bond"
      <4>1. bonds' = [bonds EXCEPT ![ble.profile] = [kind |-> "bond", peer |-> link.peer]]
        BY <2>2, <3>2 DEF PairingComplete, SetProfiles
      <4>2. Live(bonds, ble.profile) => bonds[ble.profile].peer = link.peer
        BY <1>1, <2>2 DEF PairingComplete, BleInv, ServiceInv, ServedPeerIsBonded
      <4>3. ASSUME NEW s \in Slots, Live(bonds, s) PROVE bonds'[s].peer = bonds[s].peer
        <5>1. CASE s = ble.profile
          BY <2>0, <4>1, <4>2, <4>3, <5>1 DEF Tables
        <5>2. CASE s # ble.profile
          BY <2>0, <4>1, <5>2 DEF Tables
        <5> QED
          BY <5>1, <5>2
      <4> QED
        BY <4>3
    <3> QED
      BY <3>1, <3>2
  <2>3. CASE UpdateProfile
    <3>1. PICK a \in chan : ProfileStep(a)
      BY <2>3 DEF UpdateProfile, ProfileStep
    <3>2. a \in Actions
      BY <1>1, Singles DEF BleInv, HostTypes
    <3>3. CASE a.kind = "switch" /\ a.slot = ble.profile
      BY <3>1, <3>3 DEF ProfileStep, profileVars
    <3>4. CASE ~ (a.kind = "switch" /\ a.slot = ble.profile)
      <4>1. bonds' = bonds \/ \E t \in Slots : bonds' = [bonds EXCEPT ![t] = Removed]
        BY <2>0, <3>1, <3>2, <3>4, ProfileChange DEF SetProfiles
      <4>2. ASSUME NEW t \in Slots, bonds' = [bonds EXCEPT ![t] = Removed], NEW s \in Slots,
                   Live(bonds', s)
            PROVE  bonds'[s].peer = bonds[s].peer
        <5>1. bonds'[s] = IF s = t THEN Removed ELSE bonds[s]
          BY <2>0, <4>2 DEF Tables
        <5>2. s # t
          BY <4>2, <5>1 DEF Live, Removed
        <5> QED
          BY <5>1, <5>2
      <4> QED
        BY <2>1, <4>1, <4>2
    <3> QED
      BY <3>3, <3>4
  <2>4. CASE Boot
    <3>1. bonds = NoBonds
      BY <1>1, <2>4 DEF Boot, BleInv, ServiceInv
    <3> QED
      BY <3>1 DEF NoBonds, Live, Empty
  <2>5. CASE PowerCycle
    BY <2>5 DEF PowerCycle, NoBonds, Live, Empty
  <2>6. CASE \/ ConnectionLoop \/ Tick \/ PasskeyAnswered \/ PasskeyEnds \/ SleepInput \/ Saver
             \/ SendAction
             \/ \E a \in Actions : UserTap(a) \/ HostAction(a)
             \/ \E s \in Slots : UserHold(s)
             \/ \E p \in left.peers : Accept(p)
             \/ AdvError \/ LinkLost \/ \E ev \in {"bond", "no bond"} : StackPairs(ev)
             \/ Encrypted \/ CccdWrite \/ \E input \in {"sleep", "activity"} : ControlPoint(input)
             \/ PassKeyInput \/ \E key \in PasskeyKeys : KeyEvent(key)
             \/ SleepIdle \/ SaverFails
    <3>1. bonds' = bonds
      BY <2>6 DEF ConnectionLoop, Advertise, AdvTimeout, Rejected, Left, Tick, PasskeyAnswered,
                  PasskeyEnds, SleepInput, Saver, SaverTake, SaverStore, SendAction, UserTap,
                  HostAction, UserHold, Accept, AdvError, LinkLost, StackPairs, Encrypted, CccdWrite,
                  ControlPoint, PassKeyInput, KeyEvent, SleepIdle, SaverFails, profileVars
    <3> QED
      BY <2>1, <3>1
  <2> QED
    BY <1>1, <2>2, <2>3, <2>4, <2>5, <2>6 DEF Next, Environment
<1>2. BleInv /\ [Next]_vars => [Kept]_vars
  BY <1>1
<1>3. Spec => [][Kept]_vars
  BY <1>2, BleIsSound, PTL DEF Spec
<1> QED
  BY <1>3 DEF BondKeepsOwner

=============================================================================
