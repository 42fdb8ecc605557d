------------------------------- MODULE Dongle -------------------------------
(***************************************************************************)
(* The dongle (rmk/src/dongle/mod.rs): a BLE central that relays one       *)
(* bonded keyboard to a USB host.  DongleCentral finds a keyboard in a     *)
(* pairing window or waits for the bonded one to ask, connects, secures    *)
(* the link and relays over it; the profile manager saves the bond behind  *)
(* it; ScanHandler turns advertisements into signals.  The router that the *)
(* link opens and closes is DongleRouter.                                  *)
(*                                                                         *)
(* A key is a number that both sides of one pairing share, 0 for none.     *)
(***************************************************************************)
EXTENDS DongleRouter

CONSTANTS
    Keyboards,  \* the keyboards around
    MaxKeys,    \* bound: pairings that complete
    Scenarios   \* what a behaviour may contain, see Scenario

ASSUME DongleSizes == MaxKeys \in Nat \ {0}

\* The keyboard the dongle is bonded to at first (a set of at most one) and where the
\* keyboards are; then the bounds: keyboards switched to another mode, bonds cleared on a
\* keyboard, connects and pairings that fail, links lost, power cycles of the dongle, key
\* events, requests of the host, sessions ended and notifications that meet a full pipe.
Scenario == [bonded : SUBSET Keyboards, modes : [Keyboards -> {"off", "host", "dongle"}],
             vial : BOOLEAN, moves : Nat, clears : Nat, fails : Nat, drops : Nat,
             boots : Nat, keys : Nat, requests : Nat, sessions : Nat, slow : Nat]

ASSUME DongleScenarios ==
    \A c \in Scenarios :
        c \in Scenario /\ (c.bonded = {} \/ \E k \in Keyboards : c.bonded = {k})

None   == "none"
NoBond == [kb |-> None, key |-> 0]

VARIABLES
    pc,        \* where DongleCentral is
    first,     \* it is in the window it opens at power-on, or in the connection found there
    target,    \* the keyboard it connects to
    peer,      \* Peer::Bonded or Peer::New
    best,      \* the candidates the pairing window has gathered: none or one
    watch,     \* ScanHandler::bonded_addr
    seeking,   \* seeking_keyboard: the keyboard signalled, if any
    seen,      \* bonded_seen is signalled
    asked,     \* bonded_asked is signalled
    bond,      \* the bond in the profile manager and in the stack
    saved,     \* the bond in flash
    mode,      \* per keyboard: off, advertising to hosts, or on its dongle slot
    key,       \* per keyboard: the key of its dongle slot
    paired,    \* pairings so far, which is the key of the last one
    linked,    \* the keyboard is at the other end of the link
    held       \* the USB host sees keys of the keyboard down

scan    == <<watch, seeking, seen, asked>>
central == <<pc, first, target, peer, best>>
bonds   == <<bond, saved, key, paired>>
vars    == <<central, scan, bonds, mode, linked, held, router, left>>

Init ==
    /\ left \in Scenarios
    /\ RouterInit
    /\ pc = "boot" /\ first = FALSE /\ target = None /\ peer = "new" /\ best = {}
    /\ watch = None /\ seeking = {} /\ seen = FALSE /\ asked = FALSE
    /\ mode = left.modes
    /\ paired = Cardinality(left.bonded)
    /\ key = [k \in Keyboards |-> IF k \in left.bonded THEN 1 ELSE 0]
    /\ bond \in {NoBond} \union {[kb |-> k, key |-> 1] : k \in left.bonded}
    /\ (bond = NoBond) = (left.bonded = {})
    /\ saved = bond
    /\ linked = FALSE /\ held = FALSE

-----------------------------------------------------------------------------
(* Keyboards and their users *)

Seeks(k)   == mode[k] = "dongle" /\ key[k] = 0
Directs(k) == mode[k] = "dongle" /\ key[k] # 0

\* The user switches a keyboard to a host profile, to its dongle slot, or off.
Moves(k, m) ==
    /\ mode[k] # m
    /\ Spend("moves")
    /\ mode' = [mode EXCEPT ![k] = m]
    /\ linked' = (linked /\ k # target)
    /\ UNCHANGED <<central, scan, bonds, held, router>>

\* SwitchToDongle held for five seconds, or a keyboard that lost its bond before it was
\* saved: it seeks again.
Clears(k) ==
    /\ key[k] # 0
    /\ Spend("clears")
    /\ key' = [key EXCEPT ![k] = 0]
    /\ mode' = [mode EXCEPT ![k] = "dongle"]
    /\ linked' = (linked /\ k # target)
    /\ UNCHANGED <<central, scan, bond, saved, paired, held, router>>

\* The link is lost although the keyboard is there.
LinkLost == linked /\ Spend("drops") /\ linked' = FALSE
            /\ UNCHANGED <<central, scan, bonds, mode, held, router>>

-----------------------------------------------------------------------------
(* ScanHandler *)

Accepted(k) == pc = "window" \/ (pc = "search" /\ k = bond.kb)

\* Mutant: a bonded keyboard that only advertises is passed over.
Heard_SeekingIsNoAsking(k) ==
    /\ Accepted(k)
    /\ mode[k] # "off"
    /\ seeking' = IF Seeks(k) THEN {k} ELSE seeking
    /\ seen' = (seen \/ (k = watch /\ ~Seeks(k)))
    /\ asked' = (asked \/ (k = watch /\ Directs(k)))
    /\ <<seeking', seen', asked'>> # <<seeking, seen, asked>>
    /\ UNCHANGED <<central, watch, bonds, mode, linked, held, router, left>>

\* on_reports: a keyboard advertises while the dongle scans.
Heard(k) ==
    /\ Accepted(k)
    /\ mode[k] # "off"
    /\ seeking' = IF Seeks(k) THEN {k} ELSE seeking
    /\ seen' = (seen \/ (k = watch /\ ~Seeks(k)))
    /\ asked' = (asked \/ (k = watch /\ (Seeks(k) \/ Directs(k))))
    /\ <<seeking', seen', asked'>> # <<seeking, seen, asked>>
    /\ UNCHANGED <<central, watch, bonds, mode, linked, held, router, left>>

-----------------------------------------------------------------------------
(* DongleCentral: finding a keyboard *)

\* run_pairing_window up to its scan.
OpenWindow ==
    /\ pc' = "window" /\ best' = {}
    /\ seeking' = {} /\ seen' = FALSE

\* The start of run: the bond was loaded from flash, and a dongle that has one opens a
\* window.
Boots ==
    /\ pc = "boot"
    /\ watch' = bond.kb
    /\ first' = (bond # NoBond)
    /\ IF bond # NoBond THEN OpenWindow ELSE pc' = "read" /\ UNCHANGED <<best, seeking, seen>>
    /\ UNCHANGED <<target, peer, asked, bonds, mode, linked, held, router, left>>

\* The head of the loop.
Reads ==
    /\ pc = "read"
    /\ watch' = bond.kb
    /\ first' = FALSE
    /\ \/ /\ bond # NoBond
          /\ asked' = FALSE
          /\ pc' = "search"
          /\ UNCHANGED <<best, seeking, seen>>
       \/ bond = NoBond /\ OpenWindow /\ UNCHANGED asked
    /\ UNCHANGED <<target, peer, bonds, mode, linked, held, router, left>>

\* The stronger of the two, whichever that is.
Gathers ==
    /\ pc = "window" /\ seeking # {}
    /\ best' \in IF best = {} THEN {seeking} ELSE {best, seeking}
    /\ seeking' = {}
    /\ UNCHANGED <<pc, first, target, peer, watch, seen, asked, bonds, mode, linked, held, router, left>>

\* Two seconds after the first candidate.
Picks ==
    /\ pc = "window" /\ best # {} /\ seeking = {}
    /\ pc' = "connect" /\ peer' = "new" /\ target' = CHOOSE k \in best : TRUE
    /\ best' = {}
    /\ UNCHANGED <<first, scan, bonds, mode, linked, held, router, left>>

\* The bonded keyboard was seen, or the window is over; a candidate found in its last two
\* seconds is lost.
WindowCloses ==
    /\ pc = "window" /\ seeking = {}
    /\ ((seen \/ best = {}) /\ UNCHANGED left) \/ Spend("fails")
    /\ pc' = "read" /\ best' = {}
    /\ UNCHANGED <<first, target, peer, scan, bonds, mode, linked, held, router>>

Asked ==
    /\ pc = "search" /\ asked
    /\ asked' = FALSE
    /\ pc' = "connect" /\ peer' = "bonded" /\ target' = bond.kb
    /\ UNCHANGED <<first, best, watch, seeking, seen, bonds, mode, linked, held, router, left>>

Connects ==
    /\ pc = "connect" /\ mode[target] = "dongle"
    /\ linked' = TRUE
    /\ pc' = "secure"
    /\ UNCHANGED <<first, target, peer, best, scan, bonds, mode, held, router, left>>

\* Fifteen seconds, an error, or a keyboard on a host profile, which hangs up.
ConnectFails ==
    /\ pc = "connect"
    /\ (mode[target] # "dongle" /\ UNCHANGED left) \/ Spend("fails")
    /\ pc' = "read"
    /\ UNCHANGED <<first, target, peer, best, scan, bonds, mode, linked, held, router>>

-----------------------------------------------------------------------------
(* DongleCentral: securing the link *)

Secured == linked /\ pc = "secure"

\* The stack has a key for the keyboard, which it uses.
StackHas  == bond.kb = target
KeysMatch == StackHas /\ bond.key = key[target]

Hangs == pc' = "read" /\ linked' = FALSE

Encrypted ==
    /\ Secured /\ KeysMatch
    /\ pc' = "setup"
    /\ UNCHANGED <<first, target, peer, best, scan, bonds, mode, linked, held, router, left>>

\* set_bond replaces whatever was in the slot.
PairedBond == [kb |-> target, key |-> paired + 1]

\* PairingComplete with a bond: with a keyboard the stack has no key for, or one that
\* cleared its side.
Pairs ==
    /\ Secured /\ key[target] = 0 /\ paired < MaxKeys
    /\ paired' = paired + 1
    /\ key' = [key EXCEPT ![target] = paired + 1]
    /\ bond' = PairedBond
    /\ pc' = "setup"
    /\ UNCHANGED <<first, target, peer, best, scan, saved, mode, linked, held, router, left>>

\* Mutant: a session that fails drops the bond, whoever it was with.
Dropped_AnyPeer == NoBond

Dropped == IF peer = "bonded" THEN NoBond ELSE bond

\* PairingFailed, or the keyboard refuses the key at the link layer.
Refused ==
    /\ Secured /\ StackHas /\ ~KeysMatch
    /\ bond' = Dropped
    /\ Hangs
    /\ UNCHANGED <<first, target, peer, best, scan, saved, key, paired, mode, held, router, left>>

PairingFails ==
    /\ Secured /\ ~StackHas
    /\ Spend("fails")
    /\ bond' = Dropped
    /\ Hangs
    /\ UNCHANGED <<first, target, peer, best, scan, saved, key, paired, mode, held, router>>

\* The link went away, or thirty seconds passed.
SecureEnds ==
    /\ pc = "secure"
    /\ (~linked /\ UNCHANGED left) \/ Spend("fails")
    /\ Hangs
    /\ UNCHANGED <<first, target, peer, best, scan, bonds, mode, held, router>>

-----------------------------------------------------------------------------
(* DongleCentral: the relay *)

\* discover, subscribe, listen_all, link_up.
SetUp ==
    /\ pc = "setup" /\ linked
    /\ LinkUp
    /\ pc' = "relay"
    /\ UNCHANGED <<first, target, peer, best, scan, bonds, mode, linked, held, left>>

\* run_connection after its select: the link is closed, then everything is released.
RelayEnds ==
    /\ pc \in {"setup", "relay"}
    /\ (~linked /\ UNCHANGED left) \/ (pc = "setup" /\ Spend("fails"))
    /\ LinkDown
    /\ pc' = "release"
    /\ UNCHANGED <<first, target, peer, best, scan, bonds, mode, linked, held>>

Released == FALSE

\* release_held_keys, and the connection is dropped.
Releases ==
    /\ pc = "release"
    /\ held' = Released
    /\ Hangs
    /\ UNCHANGED <<first, target, peer, best, scan, bonds, mode, router, left>>

\* A key of the keyboard goes down or up: its report is relayed.
KeyChanges ==
    /\ pc = "relay" /\ linked
    /\ Spend("keys")
    /\ held' = ~held
    /\ UNCHANGED <<central, scan, bonds, mode, linked, router>>

-----------------------------------------------------------------------------
(* The rest of the dongle *)

\* ProfileManager::run stores the bond.
Saves ==
    /\ saved # bond
    /\ saved' = bond
    /\ UNCHANGED <<central, scan, bond, key, paired, mode, linked, held, router, left>>

\* The dongle is plugged out and in.  The host forgets it, and the bond is what was saved.
PowerCycle ==
    /\ pc # "boot"
    /\ Spend("boots")
    /\ bond' = saved
    /\ pc' = "boot" /\ first' = FALSE /\ target' = None /\ peer' = "new" /\ best' = {}
    /\ watch' = None /\ seeking' = {} /\ seen' = FALSE /\ asked' = FALSE
    /\ linked' = FALSE /\ held' = FALSE
    /\ up' = FALSE /\ dropped' = FALSE /\ toKb' = <<>> /\ toHost' = <<>>
    /\ rx' = Opening /\ hpc' = "read" /\ cur' = Delimiter /\ head' = 0 /\ part' = 0
    /\ kbuf' = <<>> /\ notes' = <<>> /\ hbuf' = <<>>
    /\ fate' = Lost({"sent", "whole", "refused", "broken"})
    /\ UNCHANGED <<saved, key, paired, mode, rose, glued, bogus>>

DongleTask ==
    \/ Boots \/ Reads \/ Gathers \/ Picks \/ WindowCloses \/ Asked
    \/ Encrypted \/ Pairs \/ Refused \/ SetUp \/ Releases
    \/ Connects \/ (pc = "connect" /\ mode[target] # "dongle" /\ ConnectFails)
    \/ (~linked /\ (SecureEnds \/ RelayEnds))

Relays == RouterNext /\ UNCHANGED <<central, scan, bonds, mode, linked, held>>

Next ==
    \/ Boots \/ Reads \/ Gathers \/ Picks \/ WindowCloses \/ Asked \/ Connects \/ ConnectFails
    \/ Encrypted \/ Pairs \/ Refused \/ PairingFails \/ SecureEnds
    \/ SetUp \/ RelayEnds \/ Releases \/ KeyChanges \/ Saves \/ PowerCycle \/ LinkLost
    \/ \E k \in Keyboards : Heard(k) \/ Clears(k) \/ \E m \in {"off", "host", "dongle"} : Moves(k, m)
    \/ Relays

Spec == Init /\ [][Next]_vars

\* The executor runs every task that can run; a keyboard that advertises is heard.
FairSpec ==
    /\ Spec
    /\ WF_vars(DongleTask) /\ WF_vars(Saves)
    /\ WF_vars(RouterTask /\ UNCHANGED <<central, scan, bonds, mode, linked, held>>)
    /\ WF_vars(KeyboardTakes /\ UNCHANGED <<central, scan, bonds, mode, linked, held>>)
    /\ WF_vars(Notify /\ UNCHANGED <<central, scan, bonds, mode, linked, held>>)
    /\ WF_vars(HostTakes /\ UNCHANGED <<central, scan, bonds, mode, linked, held>>)
    /\ SF_vars(Picks) /\ \A k \in Keyboards : SF_vars(Heard(k))

-----------------------------------------------------------------------------
(* Properties *)

\* The types of the state.
TypeOK ==
    /\ RouterTypeOK
    /\ pc \in {"boot", "read", "window", "search", "connect", "secure", "setup", "relay", "release"}
    /\ target \in Keyboards \union {None} /\ peer \in {"bonded", "new"}
    /\ best \subseteq Keyboards /\ seeking \subseteq Keyboards
    /\ Cardinality(best) <= 1 /\ Cardinality(seeking) <= 1
    /\ bond.key \in 0 .. paired /\ saved.key \in 0 .. paired
    /\ key \in [Keyboards -> 0 .. paired]

\* A keyboard that is relayed holds the key the dongle holds, so that both find each
\* other again after the link: a new pairing replaces the old bond in every case
\* (secure_connection, dongle/mod.rs).
RelayedIsBonded == (pc = "relay" /\ linked) => KeysMatch

\* A bond that still works is only given up for a keyboard that pairs in the window at
\* power-on; a failed pairing does not cost it (secure_connection and run, dongle/mod.rs).
WorkingBondKept ==
    [][(bond # NoBond /\ key[bond.kb] = bond.key /\ bond' # bond)
            => (pc' = "boot" \/ (first /\ bond' # NoBond))]_vars

\* Once a link is over the USB host holds no key of its keyboard, whatever was down when
\* it dropped (run_connection, dongle/mod.rs).
HostReleased == pc \notin {"relay", "release"} => ~held

\* The keyboard and the dongle hold each other's bond, or the keyboard holds none and the
\* dongle has no other.
Mutual(k) ==
    IF key[k] = 0 THEN bond.kb \in {None, k} ELSE bond = [kb |-> k, key |-> key[k]]

Alone(k) == mode[k] = "dongle" /\ \A j \in Keyboards \ {k} : mode[j] = "off"

\* A keyboard alone on its dongle slot ends up relayed when nothing fails any more, also
\* after it cleared its bond, unless it holds a key that the dongle lost (run,
\* dongle/mod.rs).
Reconnects ==
    \A k \in Keyboards :
        [](left.moves = 0 /\ left.clears = 0 /\ left.fails = 0 /\ left.drops = 0
             /\ left.boots = 0 /\ paired < MaxKeys /\ Alone(k) /\ Mutual(k)
           => <>(pc = "relay" /\ linked))

\* A relayed keyboard is the bonded one, leaves nothing held behind, and no other keyboard
\* takes the place of one whose bond works (secure_connection, run_connection).
RelayIsSound == [](TypeOK /\ RelayedIsBonded /\ HostReleased) /\ WorkingBondKept

=============================================================================
