----------------------------- MODULE MCSmallParts -----------------------------
EXTENDS SmallParts

Key(id, cat, dir) == [id |-> id, cat |-> cat, dir |-> dir]

\* Two keys for the same direction and one against it, a second axis, the wheel, two
\* accelerations and a button.
MCMouseBoard ==
    {Key(1, "move", "right"), Key(2, "move", "right"), Key(3, "move", "left"), Key(4, "move", "up"),
     Key(5, "wheel", "up"), Key(6, "wheel", "right"), Key(7, "accel", 2), Key(8, "accel", 0), Key(9, "button", 1)}

Curve(delta, speed, ticks, max) ==
    [initial |-> 2, interval |-> 1, delta |-> delta, speed |-> speed, ticks |-> ticks, max |-> max]

MCMouseConfigs ==
    {[c \in Categories |-> Curve(2, 3, 3, 9)], [c \in Categories |-> Curve(5, 1, 2, 4)],
     [c \in Categories |-> IF c = "move" THEN Curve(3, 4, 4, 20) ELSE Curve(1, 2, 1, 2)]}

Tuned(device, layer, timeout, deactivate, reset) ==
    [device |-> device, layer |-> layer, timeout |-> timeout, deactivate |-> deactivate, reset |-> reset]

\* Two devices that share a layer, with and without key options, and two layers.
MCEntryConfigs ==
    {<<Tuned(1, 1, 1, FALSE, FALSE), Tuned(0, 1, 2, FALSE, FALSE)>>,
     <<Tuned(1, 1, 2, TRUE, TRUE), Tuned(2, 1, 1, FALSE, TRUE)>>,
     <<Tuned(1, 1, 1, TRUE, FALSE), Tuned(2, 2, 2, FALSE, FALSE)>>}

Phase(kind, resolution, reverse) == [kind |-> kind, resolution |-> resolution, reverse |-> reverse]

MCPhases == {Phase("default", 1, FALSE), Phase("resolution", 2, FALSE), Phase("resolution", 4, TRUE)}

\* The device has as many items as the host expects or fewer.
MCReadJobs ==
    {[total |-> n[1], device |-> n[2], spacing |-> n[3], cap |-> 3] :
        n \in {<<4, 4, 1>>, <<4, 4, 2>>, <<5, 5, 2>>, <<5, 3, 1>>, <<5, 3, 2>>, <<4, 0, 1>>}}

MCWriteJobs ==
    {[sizes |-> s, fixed |-> 1, budget |-> 7, fails |-> f] :
        s \in {<<1, 1, 1, 1, 1, 1>>, <<2, 3, 1, 1, 4, 2>>, <<5, 1, 4, 1, 2>>, <<1, 6, 1>>, <<>>}, f \in BOOLEAN}

\* Forks, caps word and macros on four keys.
K(c) == Coded(c, {})
Mod(m) == Coded(NoCode, {m})
Fork(trigger, negative, positive, any) ==
    [trigger |-> trigger, negative |-> negative, positive |-> positive, any |-> any, none |-> {},
     kept |-> {}, bindable |-> FALSE, layers |-> {1, 2}]
Op(op, a) == [op |-> op, a |-> a]
Char(c, mods) == [op |-> "char", code |-> c, mods |-> mods]

\* Shift-comma and shift-dot, as in the tests.
ForkTests == [keys |-> <<Mod("shift"), Mod("ctrl"), K("dot"), K("comma")>>, macros |-> <<>>,
       forks |-> <<Fork(K("dot"), K("dot"), Coded("semi", {"shift"}), {"shift"}),
                   Fork(K("comma"), Transparent, K("semi"), {"shift"})>>]
\* A chain of forks, on one layer and on an LED.
BoundForks == [keys |-> <<Mod("shift"), Mod("ctrl"), K("a"), K("b")>>, macros |-> <<>>,
       forks |-> <<[Fork(K("a"), K("a"), K("b"), {"ctrl"}) EXCEPT !.bindable = TRUE, !.layers = {1}],
                   [Fork(K("b"), K("b"), K("c"), {"shift"}) EXCEPT !.none = {"led"}],
                   [Fork(K("b"), Transparent, Coded("d", {"ctrl"}), {"led", "shift"}) EXCEPT !.kept = {"shift"}]>>]
\* Caps word with a fork that swallows a key.
WordFork == [keys |-> <<Mod("shift"), CapsWordToggle, K("a"), K("b")>>, macros |-> <<>>,
       forks |-> <<Fork(K("b"), Transparent, No, {"shift"})>>]
\* Two macros: one holds a key while its own key is down, one types a text and
\* triggers the other.
TextBoard == [keys |-> <<Mod("shift"), TriggerMacro(1), TriggerMacro(2)>>, forks |-> <<>>,
       macros |-> <<<<Op("press", K("a")), Pause, Op("release", K("a"))>>,
                    <<Char("a", {"shift"}), Char("b", {}), Op("tap", TriggerMacro(1))>>>>]
\* A key that a macro presses too, and the macro behind a fork.
MacroFork == [keys |-> <<Mod("shift"), K("a")>>,
       forks |-> <<Fork(K("a"), Transparent, TriggerMacro(1), {"shift"})>>,
       macros |-> <<<<Op("press", K("a")), Pause, Op("release", K("a"))>>>>]
\* A macro that holds a modifier a key holds too, with caps word.
ShiftMacro == [keys |-> <<Mod("shift"), K("a"), TriggerMacro(1), CapsWordToggle>>, forks |-> <<>>,
       macros |-> <<<<Op("press", Mod("shift")), Op("tap", K("a")), Pause, Op("release", Mod("shift"))>>>>]

MCForkBoards == {ForkTests, BoundForks, WordFork, TextBoard, MacroFork, ShiftMacro}

MCMacroEdits == {<<>>}

\* The theorems about forks, macros and reads cover these boards and devices.
ASSUME MCBoardsQualify == KeepersFireKeys /\ MacrosBalance /\ ReportsHaveRoom /\ TotalsAreTrue

\* The defaults leave a chunk empty; a host empties or fills any run of chunks.
MCChunkDefaults == [c \in 0..2 |-> IF c = 2 THEN 0 ELSE 1]
MCChunkEdits == {[c \in lo..hi |-> v] : lo \in 0..2, hi \in 0..2, v \in {0, 2}}
=============================================================================
