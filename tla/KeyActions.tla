----------------------------- MODULE KeyActions -----------------------------
(***************************************************************************)
(* What a resolved action does: layers, registered keys, one-shot modifiers   *)
(* and layers, and the keyboard report (keyboard.rs, keyboard/oneshot.rs,      *)
(* keymap.rs).                                                               *)
(*                                                                          *)
(* The operators map the state s of the keyboard task to its next state.  An  *)
(* event is [src, pressed]; a source is <<"key", k>>, <<"combo", i>> or        *)
(* <<"macro">>.  A keycode that is in Modifiers is a modifier keycode; the    *)
(* keycodes are basic keyboard keys (no consumer, system or mouse alias).     *)
(*                                                                          *)
(* Fields of s used here:                                                    *)
(*   board    the one of Boards it runs on                                   *)
(*   layers, dflt, cache   the active layers, the default layer and the layer *)
(*                         each physical key was pressed on                   *)
(*   reg      registered keys [src, key, mods], key "none" for a modifier     *)
(*   osm, osmT, osl, oslT  one-shot state [st, v] and ticks to its expiry     *)
(*   idle     ticks since the last key press, capped                          *)
(*   comboOn  whether combos are looked at                                    *)
(*   host     the last report sent: [keys, mods]                              *)
(*   fires    for each physical key the presses reported for the current      *)
(*            physical press, capped (history)                               *)
(***************************************************************************)
EXTENDS Morse, FiniteSets, FiniteSetsExt, Sequences, SequencesExt

CONSTANTS
    Modifiers,          \* modifier keycodes (strings)
    KeySlots,           \* keycode slots of the report: 6
    RegCapacity,        \* capacity of `registered`: 16
    \* The keyboards looked at: a sequence of configurations (KeymapData, BehaviorConfig).
    \*   keymap     sequence of layers, each a function from the physical keys (strings)
    \*   hand       the hand of each key: "left", "right", "bilateral" or "unknown"
    \*   tri        <<>> or the three layers of the tri-layer rule
    \*   combos     sequence of [acts, out, layer]: the set of key actions of the chord, the
    \*              output, and the layer it is bound to or -1
    \*   comboTimeout, comboIdle, priorIdle, oneShot     times in ticks
    \*   activateOnKeypress, quickRelease                one-shot modifiers options
    Boards

ASSUME BoardsAssumption ==
    \A b \in DOMAIN Boards : /\ Len(Boards[b].keymap) >= 1
                             /\ \A l \in DOMAIN Boards[b].keymap :
                                    DOMAIN Boards[b].keymap[l] = DOMAIN Boards[b].hand
ASSUME SlotsAssumption == KeySlots >= 1 /\ RegCapacity >= KeySlots

Board(s) == s.board
Keys(s) == DOMAIN Board(s).hand
Layers(s) == 0..(Len(Board(s).keymap) - 1)
Never == -1                       \* Option::None of a deadline
Physical(src) == src[1] = "key"
Press(src) == [src |-> src, pressed |-> TRUE]
Unpress(src) == [src |-> src, pressed |-> FALSE]

-----------------------------------------------------------------------------
(* Keymap and layers *)

ActionAt(s, k, l) == Board(s).keymap[l + 1][k]

GetActivatedLayer(s) == Max(s.layers \cup {s.dflt})

\* update_tri_layer
TriUpdated(tri, L) ==
    IF tri = <<>> THEN L
    ELSE IF {tri[1], tri[2]} \subseteq L THEN L \cup {tri[3]}
    ELSE L \ {tri[3]}

ActivateLayer(s, l) ==
    IF l \in Layers(s) THEN [s EXCEPT !.layers = TriUpdated(Board(s).tri, @ \cup {l})] ELSE s

DeactivateLayer(s, l) ==
    IF l \in Layers(s) THEN [s EXCEPT !.layers = TriUpdated(Board(s).tri, @ \ {l})] ELSE s

SetDefaultLayer(s, l) == IF l \in Layers(s) THEN [s EXCEPT !.dflt = l] ELSE s

UpdateFnLayerState(s) ==
    IF Len(Board(s).keymap) <= 3 THEN s
    ELSE [s EXCEPT !.layers = IF {1, 2} \subseteq @ THEN @ \cup {3} ELSE @ \ {3}]

\* Layers a press looks at, from the top down to the default layer, and the one
\* it takes: the first that is not transparent.
Opaque(s, k) == {l \in s.layers \cup {s.dflt} :
                     l >= s.dflt /\ ActionAt(s, k, l).t # "trans"}

\* A release takes the layer its press was found on.
ReleaseLayer(s, k) == s.cache[k]

GetActionWithLayerCache(s, ev) ==
    LET k == ev.src[2]
        o == Opaque(s, k)
        l == IF ev.pressed THEN (IF o = {} THEN s.dflt ELSE Max(o)) ELSE s.dflt
        ka == IF ~ev.pressed THEN ActionAt(s, k, ReleaseLayer(s, k))
              ELSE IF o = {} THEN [t |-> "no"] ELSE ActionAt(s, k, l)
    IN [s |-> [s EXCEPT !.cache[k] = l], ka |-> ka]

-----------------------------------------------------------------------------
(* Registered keys and the report *)

RegisteredKey(src, c, mods) ==
    IF c \in Modifiers THEN [src |-> src, key |-> "none", mods |-> mods \cup {c}]
                       ELSE [src |-> src, key |-> c, mods |-> mods]

Matches(r, e) ==
    IF r.src = <<"macro">> THEN r.key = e.key /\ (r.key # "none" \/ r.mods = e.mods)
                           ELSE r.src = e.src

Coded(R) == {r \in R : r.key # "none"}

NoRoom(R, e) == \/ e.key # "none" /\ Cardinality(Coded(R)) >= KeySlots
                \/ Cardinality(R) >= RegCapacity

\* Modifiers that ride on a key last until the next press.
Bare(R) == (R \ Coded(R)) \cup {[r EXCEPT !.mods = {}] : r \in Coded(R)}

Placed(R, e) == IF NoRoom(R, e) THEN R ELSE Bare(R) \cup {e}

Unmatched(R, e) == {r \in R : ~Matches(r, e)}

RegisterKey(s, c, mods, ev) ==
    LET e == RegisteredKey(ev.src, c, mods)
    IN IF c = "none" /\ mods = {} THEN s
       ELSE [s EXCEPT !.reg = Placed(Unmatched(@, e), e)]

UnregisterKey(s, c, mods, ev) ==
    [s EXCEPT !.reg = Unmatched(@, RegisteredKey(ev.src, c, mods))]

HeldModifiers(s) == UNION {r.mods : r \in s.reg \ Coded(s.reg)}

ResolveExplicitModifiers(s, pressed) ==
    HeldModifiers(s) \cup
        (IF s.osm.st = "held" \/ (pressed /\ s.osm.st # "off") THEN s.osm.v ELSE {})

ResolveModifiers(s, pressed) ==
    ResolveExplicitModifiers(s, pressed) \cup UNION {r.mods : r \in Coded(s.reg)}

SendKeyboardReport(s, pressed) ==
    [s EXCEPT !.host = [keys |-> {r.key : r \in Coded(s.reg)},
                        mods |-> ResolveModifiers(s, pressed)]]

-----------------------------------------------------------------------------
(* One-shot modifiers and layers *)

Off == [st |-> "off"]
OneShot(st, v) == [st |-> st, v |-> v]

\* update_osm: a press uses up a Single and turns an Initial into Held.
UpdateOsm(s, ev) ==
    CASE ev.pressed /\ s.osm.st = "initial" -> [s EXCEPT !.osm = OneShot("held", s.osm.v)]
      [] ev.pressed /\ s.osm.st = "single" -> [s EXCEPT !.osm = Off, !.osmT = Never]
      [] OTHER -> s

OsmConsumed(s, ev) == ev.pressed /\ s.osm.st = "single"

\* A one-shot layer lasts to the release of the key that uses it.
OslUsedUp(s, ev) == ~ev.pressed /\ s.osl.st = "single"

UpdateOsl(s, ev) ==
    IF ev.pressed /\ s.osl.st = "initial" THEN [s EXCEPT !.osl = OneShot("held", s.osl.v)]
    ELSE IF OslUsedUp(s, ev)
    THEN DeactivateLayer([s EXCEPT !.osl = Off, !.oslT = Never], s.osl.v)
    ELSE s

OsmPressed(s, m) ==
    CASE s.osm.st = "off" -> OneShot("initial", m)
      [] s.osm.st = "single" /\ m = s.osm.v -> Off
      [] s.osm.st = "single" /\ m \subseteq s.osm.v /\ m # s.osm.v
            -> OneShot("single", s.osm.v \ m)
      [] OTHER -> OneShot(s.osm.st, s.osm.v \cup m)

\* Release of a one-shot modifier that was used as a plain one.
OsmReleased(s, m, ev) ==
    LET rest == s.osm.v \ m
    IN SendKeyboardReport([UpdateOsl(s, ev) EXCEPT
                              !.osm = IF rest = {} THEN Off ELSE OneShot("held", rest)], FALSE)

ProcessActionOsm(s, m, ev) ==
    LET wasActive == s.osm.st = "single" /\ m \subseteq s.osm.v
        pressed == UpdateOsl([s EXCEPT !.osmT = Never, !.osm = OsmPressed(s, m)], ev)
        armed == [s EXCEPT !.osm = OneShot("single", s.osm.v), !.osmT = Board(s).oneShot]
    IN CASE ev.pressed -> IF wasActive \/ Board(s).activateOnKeypress
                          THEN SendKeyboardReport(pressed, TRUE) ELSE pressed
         [] ~ev.pressed /\ s.osm.st \in {"initial", "single"} -> armed
         [] ~ev.pressed /\ s.osm.st = "held" ->
                IF m \subseteq s.osm.v THEN OsmReleased(s, m, ev) ELSE s
         [] OTHER -> s

ProcessActionOsl(s, l, ev) ==
    LET old == IF s.osl.st = "off" THEN s ELSE DeactivateLayer(s, s.osl.v)
        st == IF s.osl.st = "off" THEN "initial" ELSE s.osl.st
    IN CASE ev.pressed -> ActivateLayer([old EXCEPT !.oslT = Never, !.osl = OneShot(st, l)], l)
         [] ~ev.pressed /\ s.osl.st \in {"initial", "single"} ->
                [s EXCEPT !.osl = OneShot("single", s.osl.v), !.oslT = Board(s).oneShot]
         [] ~ev.pressed /\ s.osl.st = "held" ->
                DeactivateLayer([s EXCEPT !.osl = Off], s.osl.v)
         [] OTHER -> s

OslExpired(s) ==
    LET off == IF s.osl.st = "single" THEN DeactivateLayer(s, s.osl.v) ELSE s
    IN [off EXCEPT !.oslT = Never, !.osl = Off]

\* fire_oneshot_timeout
FireOneshotTimeout(s) ==
    LET osm == IF s.osmT # 0 THEN s
               ELSE LET o == [s EXCEPT !.osmT = Never, !.osm = Off]
                    IN IF Board(s).activateOnKeypress THEN SendKeyboardReport(o, FALSE) ELSE o
    IN IF s.oslT # 0 THEN osm ELSE OslExpired(osm)

-----------------------------------------------------------------------------
(* Actions *)

ProcessHidKeycode(s, c, mods, ev) ==
    SendKeyboardReport(IF ev.pressed THEN RegisterKey(s, c, mods, ev)
                                     ELSE UnregisterKey(s, c, mods, ev), ev.pressed)

\* A used-up one-shot modifier is taken back at once with quick release.
UsedOneShots(s, ev) ==
    UpdateOsl(IF Board(s).quickRelease /\ OsmConsumed(s, ev)
              THEN SendKeyboardReport(UpdateOsm(s, ev), TRUE) ELSE UpdateOsm(s, ev), ev)

ProcessActionKey(s, c, mods, ev) ==
    LET timed == IF ev.pressed /\ c \notin Modifiers THEN [s EXCEPT !.idle = 0] ELSE s
    IN UsedOneShots(ProcessHidKeycode(timed, c, mods, ev), ev)

ProcessActionLayerSwitch(s, l, ev) ==
    IF ev.pressed THEN ActivateLayer(s, l) ELSE DeactivateLayer(s, l)

Registered(s, mods, ev) ==
    IF ev.pressed THEN RegisterKey(s, "none", mods, ev)
                  ELSE UnregisterKey(s, "none", mods, ev)

Toggled(s, l) == IF l \in s.layers THEN DeactivateLayer(s, l) ELSE ActivateLayer(s, l)

OnlyLayer(s, l) ==
    ActivateLayer([s EXCEPT !.layers = TriUpdated(Board(s).tri, @ \cap {s.dflt})], l)

\* History: a press of a physical key has reached an action.
Counted(s, ev) ==
    IF ev.pressed /\ Physical(ev.src) /\ s.fires[ev.src[2]] < 2
    THEN [s EXCEPT !.fires[ev.src[2]] = @ + 1] ELSE s

ProcessAction(s, a, ev) ==
    CASE a.k = "no" -> s
      [] a.k = "key" -> ProcessActionKey(s, a.c, a.m, ev)
      [] a.k = "mod" -> UpdateOsl(SendKeyboardReport(Registered(s, a.m, ev), ev.pressed), ev)
      [] a.k = "layerOn" -> ProcessActionLayerSwitch(s, a.l, ev)
      [] a.k = "layerOff" -> IF ev.pressed THEN DeactivateLayer(s, a.l) ELSE s
      [] a.k = "layerToggle" -> IF ev.pressed THEN s ELSE Toggled(s, a.l)
      [] a.k = "layerToggleOnly" -> IF ev.pressed THEN OnlyLayer(s, a.l) ELSE s
      [] a.k = "defaultLayer" -> SetDefaultLayer(s, a.l)
      [] a.k = "layerOnMod" ->
            SendKeyboardReport(ProcessActionLayerSwitch(Registered(s, a.m, ev), a.l, ev),
                               ev.pressed)
      [] a.k = "osl" -> UpdateOsm(ProcessActionOsl(s, a.l, ev), ev)
      [] a.k = "osm" -> UpdateOsl(ProcessActionOsm(s, a.m, ev), ev)
      [] a.k = "triLower" -> UpdateFnLayerState(ProcessActionLayerSwitch(s, 1, ev))
      [] a.k = "triUpper" -> UpdateFnLayerState(ProcessActionLayerSwitch(s, 2, ev))
      [] a.k = "comboOn" -> [s EXCEPT !.comboOn = TRUE]
      [] a.k = "comboOff" -> [s EXCEPT !.comboOn = FALSE]
      [] a.k = "comboToggle" -> IF ev.pressed THEN [s EXCEPT !.comboOn = ~@] ELSE s

\* process_key_action_normal
ProcessNormal(s, a, ev) == ProcessAction(IF a = NoAction THEN s ELSE Counted(s, ev), a, ev)

\* process_key_action_tap
ProcessTap(s, a, ev) ==
    IF ev.pressed THEN ProcessNormal(ProcessNormal(s, a, ev), a, Unpress(ev.src)) ELSE s
=============================================================================
