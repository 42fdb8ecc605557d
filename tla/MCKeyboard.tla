----------------------------- MODULE MCKeyboard -----------------------------
(* Keyboard on small boards.                                                *)
EXTENDS Keyboard

Trans == [t |-> "trans"]
Key(c) == [k |-> "key", c |-> c, m |-> {}]
Shift == [k |-> "mod", m |-> {"shift"}]
LayerOn(l) == [k |-> "layerOn", l |-> l]
OneShotModifier == [k |-> "osm", m |-> {"shift"}]
OneShotLayer == [k |-> "osl", l |-> 1]
Single(x) == [t |-> "single", a |-> x]
Profile(mode) ==
    [mode |-> mode, uni |-> FALSE, flow |-> FALSE, hold |-> 2, gap |-> 1, quick |-> 0]
TapHold(x, y, prof) == [t |-> "taphold", tap |-> x, hold |-> y, prof |-> prof]
MorseKey(tab, prof) == [t |-> "morse", table |-> tab, prof |-> prof]
Chord(acts, out, layer) ==
    [acts |-> {Single(Key(x)) : x \in acts}, out |-> Single(Key(out)), layer |-> layer]

\* A board of these layers, without combos, tri-layer rule and idle times.
Plainly(keymap) ==
    [keymap |-> keymap, hand |-> [k \in DOMAIN keymap[1] |-> "left"], tri |-> <<>>,
     combos |-> <<>>, comboTimeout |-> 1, comboIdle |-> 0, priorIdle |-> 0, oneShot |-> 2,
     activateOnKeypress |-> FALSE, quickRelease |-> FALSE]

\* The first layer, and above it layers that are transparent but for some keys.
Over(base, layers) ==
    <<base>> \o [i \in DOMAIN layers |-> layers[i] @@ [k \in DOMAIN base |-> Trans]]

-----------------------------------------------------------------------------

\* A layer-tap and a mod-tap in permissive mode beside plain keys.
Permissive == Plainly(Over(
    [a |-> Single(Key("A")), b |-> Single(Key("B")),
     t |-> TapHold(Key("T"), LayerOn(1), Profile("permissive")),
     m |-> TapHold(Key("M"), Shift, Profile("permissive"))],
    <<[a |-> Single(Key("1")), t |-> Single(Key("E"))]>>))

\* The three modes side by side: unilateral tap, flow tap and quick tap.
Mixed == [Plainly(Over(
    [a |-> Single(Key("A")),
     b |-> TapHold(Key("B"), Shift, [Profile("normal") EXCEPT !.uni = TRUE]),
     t |-> TapHold(Key("T"), LayerOn(1), [Profile("permissive") EXCEPT !.flow = TRUE]),
     m |-> TapHold(Key("M"), Shift, [Profile("holdOnOther") EXCEPT !.quick = 1])],
    <<[a |-> Single(Key("1"))]>>))
    EXCEPT !.priorIdle = 1, !.hand["m"] = "right"]

\* Tap dances: t has tap, hold and hold after tap (early fire), m a double tap.
Dance == [Plainly(Over(
    [a |-> Single(Key("A")),
     t |-> MorseKey(2 :> Key("T") @@ 3 :> LayerOn(1) @@ 5 :> Key("T"),
                    [Profile("permissive") EXCEPT !.flow = TRUE]),
     m |-> MorseKey(2 :> Key("M") @@ 3 :> Shift @@ 4 :> Key("N"), Profile("permissive"))],
    <<[a |-> Single(Key("1"))]>>)) EXCEPT !.priorIdle = 1]

\* One-shot keys.
OneShots == Plainly(Over(
    [a |-> Single(Key("A")), c |-> Single(OneShotModifier), l |-> Single(OneShotLayer)],
    <<[a |-> Single(Key("1"))]>>))

\* Layer keys under the tri-layer rule, a key with modifiers and a modifier keycode.
TriLayers == [Plainly(Over(
    [a |-> Single([k |-> "key", c |-> "A", m |-> {"shift"}]), b |-> Single(Key("B")),
     l |-> Single(LayerOn(1)), u |-> Single([k |-> "layerOnMod", l |-> 2, m |-> {"ctrl"}])],
    <<[a |-> Single(Key("1"))],
      [l |-> Single(Key("L"))],
      [a |-> Single(Key("shift")), b |-> [t |-> "tap", a |-> Key("B")]]>>))
    EXCEPT !.tri = <<1, 2, 3>>]

EngineBoards == <<Permissive, Mixed, Dance, OneShots, TriLayers>>

\* Three letters, a layer key, and overlapping chords AB, BC and ABC, one on layer 1.
Chords == [Plainly(Over(
    [a |-> Single(Key("A")), b |-> Single(Key("B")), c |-> Single(Key("C")),
     l |-> Single(LayerOn(1))],
    <<[a |-> Single(Key("1"))]>>))
    EXCEPT !.comboIdle = 1,
           !.combos = <<Chord({"A", "B"}, "X", -1), Chord({"B", "C"}, "Y", -1),
                        Chord({"A", "B", "C"}, "Z", -1), Chord({"1", "B"}, "W", 1)>>]

\* A chord key, a morse key that fires early and a one-shot modifier.
Waiting == [Plainly(Over(
    [a |-> Single(Key("A")), c |-> Single(OneShotModifier),
     t |-> MorseKey(2 :> Key("T") @@ 3 :> Shift @@ 5 :> Key("T"), Profile("permissive"))],
    <<>>)) EXCEPT !.combos = <<Chord({"A", "B"}, "X", -1)>>]

WaitingBoards == <<Chords, Waiting>>

-----------------------------------------------------------------------------
(* Boards of the runs that show a disagreement *)

\* A layer-tap and two letters.
LayerTap == <<Plainly(Over(
    [a |-> Single(Key("A")), b |-> Single(Key("B")),
     t |-> TapHold(Key("T"), LayerOn(1), Profile("permissive"))],
    <<[a |-> Single(Key("1"))]>>))>>

\* A plain key that is a tap-hold key on layer 1.
Overlaid == <<Plainly(Over(
    [a |-> Single(Key("A")), b |-> Single(Key("B")),
     t |-> TapHold(Key("T"), LayerOn(1), Profile("permissive"))],
    <<[a |-> TapHold(Key("1"), Shift, Profile("permissive"))]>>))>>

\* A chord beside a tap-hold key.
ChordTapHold == <<[Plainly(Over(
    [a |-> Single(Key("A")), b |-> Single(Key("B")),
     m |-> TapHold(Key("M"), Shift, Profile("permissive"))], <<>>))
    EXCEPT !.combos = <<Chord({"A", "B"}, "X", -1)>>]>>

\* One-shot keys whose modifier is reported on press.
StickyOneShots == <<[OneShots EXCEPT !.activateOnKeypress = TRUE]>>
=============================================================================
