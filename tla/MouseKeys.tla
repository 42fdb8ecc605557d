------------------------------ MODULE MouseKeys ------------------------------
(***************************************************************************)
(* Mouse keys of the keyboard task (keyboard/mouse.rs): direction counters,   *)
(* two repeat deadlines, the acceleration curve and the reports.              *)
(*                                                                           *)
(* MouseBoard is the set of physical keys, records with the meaning of their  *)
(* keycode, so two keys may share a direction.  mouse.dir[c] is the           *)
(* DirectionState of the category c; its timer counts the ticks to the        *)
(* deadline, Never for none.  A deadline that is due is served before the     *)
(* next tick.  mouse.report is the state's report, mouse.sent the last one    *)
(* that was sent.                                                             *)
(***************************************************************************)
EXTENDS Integers, FiniteSetsExt

CONSTANTS MouseBoard,       \* keys: [id, cat, dir], cat "move", "wheel", "accel" or "button"
          MouseConfigs,     \* MouseKeyConfig: settings per category
          MaxMouseEvents    \* key events of a behaviour

VARIABLE mouse

Categories == {"move", "wheel"}
Curves == [initial : Nat, interval : Nat, delta : Nat, speed : Nat, ticks : Nat, max : Nat]

ASSUME MouseSizes ==
    /\ IsFiniteSet(MouseBoard)
    /\ \A k \in MouseBoard : /\ k.cat \in Categories \union {"accel", "button"}
                             /\ k.cat \in Categories => k.dir \in {"up", "down", "left", "right"}
    /\ MouseConfigs # {} /\ MouseConfigs \subseteq [Categories -> Curves]

Never == -1

\* MouseState::new
MouseStarts ==
    LET none == [x |-> 0, y |-> 0, wheel |-> 0, pan |-> 0, buttons |-> {}]
    IN {[cfg |-> cfg, down |-> {}, accel |-> {}, report |-> none, sent |-> none, events |-> 0,
         dir |-> [c \in Categories |-> [x |-> 0, y |-> 0, repeat |-> 0, timer |-> Never]]] :
            cfg \in MouseConfigs}

Signum(n) == IF n > 0 THEN 1 ELSE IF n < 0 THEN -1 ELSE 0

HasActiveDirection(d) == d.x # 0 \/ d.y # 0

GetDelay(cfg, d) == IF d.repeat = 0 THEN cfg.initial ELSE cfg.interval

Counted(d, way, by) ==
    [d EXCEPT !.x = @ + (CASE way = "right" -> by [] way = "left" -> -by [] OTHER -> 0),
              !.y = @ + (CASE way = "down" -> by [] way = "up" -> -by [] OTHER -> 0)]

\* DirectionState::update: the repeats start with the first direction and end with the last.
Update(d, way, by, delay) ==
    LET e == Counted(d, way, by)
    IN CASE ~HasActiveDirection(d) /\ HasActiveDirection(e) -> [e EXCEPT !.repeat = 1, !.timer = delay]
         [] HasActiveDirection(d) /\ ~HasActiveDirection(e) -> [e EXCEPT !.repeat = 0, !.timer = Never]
         [] OTHER -> e

-----------------------------------------------------------------------------
(* The speed and the report *)

DivCeil(a, b) == (a + b - 1) \div b

\* calculate_unit, first step: from delta at the first report to delta * speed after ticks.
Base(cfg, repeat) ==
    CASE repeat = 0 -> cfg.delta
      [] repeat > 0 /\ repeat >= cfg.ticks -> cfg.delta * cfg.speed
      [] OTHER -> cfg.delta + (Max({cfg.delta * cfg.speed - cfg.delta, 0})
                                 * (2 * repeat * cfg.ticks - repeat * repeat)) \div (cfg.ticks * cfg.ticks)

\* Second step: the highest acceleration key that is down wins.
Multiplied(base, accel) ==
    CASE 2 \in accel -> 2 * base
      [] 2 \notin accel /\ 1 \in accel -> DivCeil(base, 2)
      [] accel = {0} -> DivCeil(base, 4)
      [] OTHER -> base

Clamped(n, max) == IF n = 0 \/ max = 0 THEN 1 ELSE IF n > max THEN max ELSE n

CalculateUnit(cfg, accel, repeat) == Clamped(Multiplied(Base(cfg, repeat), accel), cfg.max)

Unit(m, c) == CalculateUnit(m.cfg[c], m.accel, m.dir[c].repeat)

AxisValue(m, c, n) == IF HasActiveDirection(m.dir[c]) THEN Signum(n) * Unit(m, c) ELSE 0

\* recalculate_report; the HID wheel is positive when it is turned up.
Recalculated(m) ==
    LET mv == m.dir["move"]
        wh == m.dir["wheel"]
    IN [m EXCEPT !.report = [@ EXCEPT !.x = AxisValue(m, "move", mv.x), !.y = AxisValue(m, "move", mv.y),
                                      !.wheel = -AxisValue(m, "wheel", wh.y), !.pan = AxisValue(m, "wheel", wh.x)]]

\* apply_diagonal_compensation: 181/256, rounded, never down to 0.
Shortened(v) == Signum(v) * Max({1, (Signum(v) * v * 181 + 128) \div 256})

Compensated(r, a, b) ==
    IF r[a] # 0 /\ r[b] # 0 THEN [r EXCEPT ![a] = Shortened(@), ![b] = Shortened(@)] ELSE r

GetReport(m) == Compensated(Compensated(m.report, "x", "y"), "wheel", "pan")

Masked(r, fired) ==
    [r EXCEPT !.x = IF "move" \in fired THEN @ ELSE 0, !.y = IF "move" \in fired THEN @ ELSE 0,
              !.wheel = IF "wheel" \in fired THEN @ ELSE 0, !.pan = IF "wheel" \in fired THEN @ ELSE 0]

-----------------------------------------------------------------------------
(* Key events and deadlines *)

SentReport(m) == [m EXCEPT !.sent = GetReport(m)]

\* MouseState::process, then process_action_mouse sends the report if it is asked to.
Processed(m, k, pressed) ==
    CASE k.cat \in Categories ->
           LET d == m.dir[k.cat]
               n == Recalculated([m EXCEPT !.dir[k.cat] =
                        Update(d, k.dir, IF pressed THEN 1 ELSE -1, GetDelay(m.cfg[k.cat], d))])
           IN IF n.report # m.report THEN SentReport(n) ELSE n
      [] k.cat = "accel" -> [m EXCEPT !.accel = IF pressed THEN @ \union {k.dir} ELSE @ \ {k.dir}]
      [] k.cat = "button" ->
           SentReport([m EXCEPT !.report.buttons = IF pressed THEN @ \union {k.dir} ELSE @ \ {k.dir}])

MouseKey(k) ==
    /\ mouse.events < MaxMouseEvents
    /\ LET pressed == k \notin mouse.down
           m == [mouse EXCEPT !.down = IF pressed THEN @ \union {k} ELSE @ \ {k}, !.events = @ + 1]
       IN mouse' = Processed(m, k, pressed)

Due(m) == {c \in Categories : m.dir[c].timer = 0}

\* Mutant: a repeat does not arm the next one.
OnRepeatTick_NoTimer(cfg, d) ==
    [d EXCEPT !.repeat = IF @ < cfg.ticks THEN @ + 1 ELSE @, !.timer = Never]

OnRepeatTick(cfg, d) ==
    [d EXCEPT !.repeat = IF @ < cfg.ticks THEN @ + 1 ELSE @, !.timer = GetDelay(cfg, d)]

Ticked(m, fired) ==
    [m EXCEPT !.dir = [c \in Categories |-> IF c \in fired THEN OnRepeatTick(m.cfg[c], @[c]) ELSE @[c]]]

\* fire_repeats and fire_mouse_repeat
FireRepeats ==
    \E fired \in {{c \in Due(mouse) : HasActiveDirection(mouse.dir[c])}} :
        /\ fired # {}
        /\ \E m \in {Ticked(mouse, fired)} : \E n \in {Recalculated(m)} :
              mouse' = [n EXCEPT !.sent = Masked(GetReport(n), fired)]

MouseTick ==
    /\ Due(mouse) = {}
    /\ \E c \in Categories : mouse.dir[c].timer # Never
    /\ mouse' = [mouse EXCEPT !.dir = [c \in Categories |->
                                   [@[c] EXCEPT !.timer = Max({mouse.dir[c].timer - 1, Never})]]]

MouseNext == FireRepeats \/ MouseTick \/ \E k \in MouseBoard : MouseKey(k)


-----------------------------------------------------------------------------

\* Keys of one category and direction that are down.
Down(c, way) == Cardinality({k \in mouse.down : k.cat = c /\ k.dir = way})

Along(c, plus, minus) == Signum(Down(c, plus) - Down(c, minus))

\* No drift: the last report moves the pointer or the wheel only the way the keys that are
\* down add up to, whatever presses, releases and repeats of the two categories came between
\* (DirectionState::update, recalculate_report, fire_repeats).
PointerFollowsKeys ==
    /\ Signum(mouse.sent.x) \in {0, Along("move", "right", "left")}
    /\ Signum(mouse.sent.y) \in {0, Along("move", "down", "up")}
    /\ Signum(mouse.sent.wheel) \in {0, Along("wheel", "up", "down")}
    /\ Signum(mouse.sent.pan) \in {0, Along("wheel", "right", "left")}

\* calculate_unit stays between 1 and the maximum, and another repeat never slows it down.
SpeedGrows ==
    \A c \in Categories :
        LET u(n) == CalculateUnit(mouse.cfg[c], mouse.accel, mouse.dir[c].repeat + n)
        IN /\ u(0) \in 1..Max({1, mouse.cfg[c].max})
           /\ u(0) <= u(1)

\* A direction that stays held goes on repeating until it is at full speed.
ReachesFullSpeed ==
    \A c \in Categories :
        HasActiveDirection(mouse.dir[c])
            ~> (~HasActiveDirection(mouse.dir[c]) \/ mouse.dir[c].repeat >= mouse.cfg[c].ticks)

\* The pointer moves as the held keys say, never slower than before, and reaches its full
\* speed (recalculate_report, calculate_unit, on_repeat_tick).
MouseFollowsKeys == [](PointerFollowsKeys /\ SpeedGrows) /\ ReachesFullSpeed

=============================================================================
