-------------------------------- MODULE Macros --------------------------------
(***************************************************************************)
(* The keyboard report of plain keys, caps word, and the macro queue, as      *)
(* operators on a record that Forks.tla keeps in its variable: the keys a     *)
(* macro presses belong to nobody, a macro with a pause plays one half at the *)
(* press and the other at the release of its key, and a host that edits a     *)
(* macro ends what plays.  (rmk/src/keyboard.rs, rmk/src/keyboard/macros.rs)  *)
(***************************************************************************)
EXTENDS Integers, FiniteSetsExt, SequencesExt

CONSTANTS
    Shift,          \* the modifier caps word adds
    WordKeys,       \* keycodes that go on with a word, and
    ShiftedKeys,    \* those of them that are shifted
    KeycodeSlots,   \* keycodes in a report
    MacroRoom       \* halves in the macro queue

\* An action is a keycode with its modifiers, where a modifier key has no code, or one of these.
NoCode == "none"
Coded(code, mods) == [t |-> "key", code |-> code, mods |-> mods]
TriggerMacro(slot) == [t |-> "macro", slot |-> slot]
CapsWordToggle == [t |-> "capsword"]
No == [t |-> "no"]
Transparent == [t |-> "transparent"]

\* The source of the events that macros make; keys are numbers.
FromMacro == 0

-----------------------------------------------------------------------------
(* The report: s.reg, registered keys; s.active, the forks that are on *)

Mods(R) == UNION {r.mods : r \in R}
Keycodes(s) == {r \in s.reg : r.code # NoCode}
HeldModifiers(s) == Mods(s.reg \ Keycodes(s))

ActiveForks(s) == {i \in DOMAIN s.active : s.active[i].on}
Suppressed(s) == (UNION {s.active[i].suppress : i \in ActiveForks(s)}) \ s.keep

CapsShifts(s) == s.caps.on /\ ~s.caps.late /\ s.caps.shift

\* Without one-shots the explicit modifiers are the held ones.
ResolveModifiers(s, pressed) ==
    (HeldModifiers(s) \ Suppressed(s)) \union Mods(Keycodes(s))
        \union (IF pressed /\ CapsShifts(s) THEN {Shift} ELSE {})

\* text: the last report showed the modifiers of a text macro.  typed: the last keycode that
\* went down, with the modifiers of its report and those that keys accounted for.
Shown(s, mods, text) ==
    LET codes == {r.code : r \in Keycodes(s)}
        new == codes \ s.host.codes
    IN [s EXCEPT !.host = [mods |-> mods, codes |-> codes], !.text = text, !.cut = FALSE,
                 !.typed = IF new = {} THEN @
                           ELSE [code |-> CHOOSE c \in new : TRUE, mods |-> IF text THEN {} ELSE mods,
                                 held |-> ResolveModifiers(s, FALSE)]]

Sent(s, pressed) == Shown(s, ResolveModifiers(s, pressed), FALSE)

\* Does the event refer to entry r?  A macro's keys belong to nobody.
Matches(r, e) ==
    IF r.src = FromMacro THEN r.code = e.code /\ (r.code # NoCode \/ r.mods = e.mods)
                         ELSE r.src = e.src

Event(src, a) == [src |-> src, code |-> a.code, mods |-> a.mods]
Unmatched(s, e) == {r \in s.reg : ~Matches(r, e)}

\* Modifiers of a keycode apply until the next press.
Unmodified(R) == {IF r.code = NoCode THEN r ELSE [r EXCEPT !.mods = {}] : r \in R}

\* fresh: the modifiers pressed since a fork last fired.
RegisterKey(s, e) ==
    LET n == [s EXCEPT !.reg = Unmatched(s, e)]
        held == IF e.code = NoCode THEN e.mods ELSE {}
    IN IF e.code # NoCode /\ Cardinality(Keycodes(n)) >= KeycodeSlots THEN n
       ELSE [n EXCEPT !.reg = Unmodified(@) \union {e}, !.keep = @ \union held, !.fresh = @ \union held]

UnregisterKey(s, e) ==
    LET n == [s EXCEPT !.reg = Unmatched(s, e)] IN [n EXCEPT !.fresh = @ \intersect HeldModifiers(n)]

-----------------------------------------------------------------------------
(* Caps word *)

CapsOff == [on |-> FALSE, late |-> FALSE, shift |-> FALSE]

\* CapsWordState::check
Checked(c, code) ==
    IF c.on /\ ~c.late /\ code \in WordKeys THEN [c EXCEPT !.shift = code \in ShiftedKeys] ELSE CapsOff

\* CapsWordState::toggle
Toggled(c) == IF c.on /\ ~c.late THEN CapsOff ELSE [on |-> TRUE, late |-> FALSE, shift |-> FALSE]

-----------------------------------------------------------------------------
(* The macro queue: s.macros, the ops of every slot; s.queue, the halves to play *)

\* Besides these two an op presses, releases or taps an action: [op |-> ..., a |-> action],
\* or types a character: [op |-> "char", code |-> ..., mods |-> ...].
Pause == [op |-> "pause"]
Delay == [op |-> "delay"]

\* A half that ran out stays at the front until the next op is looked for.
Unplayed(queue) ==
    LET i == SelectInSeq(queue, LAMBDA half : half # <<>>)
    IN IF i = 0 THEN <<>> ELSE SubSeq(queue, i, Len(queue))

\* Macros::peek_op
IsChar(queue) == Unplayed(queue) # <<>> /\ Head(Head(Unplayed(queue))).op = "char"

\* The half of a macro that a press or a release plays.  The second one begins with a wait.
Half(ops, pressed) ==
    LET at == SelectInSeq(ops, LAMBDA o : o = Pause)
    IN  CASE pressed /\ at = 0 -> ops
          [] pressed /\ at # 0 -> SubSeq(ops, 1, at - 1)
          [] ~pressed /\ at # 0 /\ at < Len(ops) -> <<Delay>> \o SubSeq(ops, at + 1, Len(ops))
          [] OTHER -> <<>>

\* Macros::queue.  lost: a half was dropped, here because the queue is full.
Queue(s, slot, pressed) ==
    LET half == Half(s.macros[slot], pressed)
    IN  IF half = <<>> THEN s
        ELSE IF Len(s.queue) >= MacroRoom THEN [s EXCEPT !.lost = TRUE]
        ELSE [s EXCEPT !.queue = Append(@, half)]

\* Macros::next_op takes the first op.
Popped(queue) == <<Tail(Head(queue))>> \o Tail(queue)

\* process_key_action_normal
NormalKey(s, src, a, pressed) ==
    CASE a.t = "key" /\ pressed ->
            Sent(RegisterKey([s EXCEPT !.caps = Checked(@, a.code)], Event(src, a)), TRUE)
      [] a.t = "key" /\ ~pressed -> Sent(UnregisterKey(s, Event(src, a)), FALSE)
      [] a.t = "macro" -> Queue(s, a.slot, pressed)
      [] a.t = "capsword" /\ pressed -> [s EXCEPT !.caps = Toggled(@)]
      [] OTHER -> s

\* fire_macro.  The first half of a character, which is shown with its own modifiers; the
\* keyboard task waits in it for 10ms.
Played(s) ==
    LET o == Head(Head(Unplayed(s.queue)))
        n == [s EXCEPT !.queue = Popped(Unplayed(@))]
    IN  CASE o.op = "tap" -> NormalKey(NormalKey(n, FromMacro, o.a, TRUE), FromMacro, o.a, FALSE)
          [] o.op = "press" -> NormalKey(n, FromMacro, o.a, TRUE)
          [] o.op = "release" -> NormalKey(n, FromMacro, o.a, FALSE)
          [] o.op = "char" ->
            Shown(RegisterKey([n EXCEPT !.char = <<o>>], Event(FromMacro, Coded(o.code, {}))), o.mods, TRUE)
          [] OTHER -> n

\* The rest of a character.  The held modifiers come back when no other one follows.
CharEnds(s) ==
    LET o == Head(s.char)
        n == Shown(UnregisterKey([s EXCEPT !.char = <<>>], Event(FromMacro, Coded(o.code, {}))), o.mods, TRUE)
    IN IF IsChar(n.queue) THEN n ELSE Sent([n EXCEPT !.queue = Unplayed(@)], FALSE)

\* Macros::set_slot, write, clear: a change ends the macros that play.  A key that is down may
\* now find another second half: lost.  cut: in the middle of a text, whose modifiers stay at
\* the host until the next report.
Edited(s, slot, ops) ==
    [s EXCEPT !.macros[slot] = ops, !.queue = <<>>, !.lost = @ \/ s.queue # <<>> \/ s.down # {},
              !.cut = @ \/ (s.text /\ s.char = <<>> /\ s.queue # <<>>)]
=============================================================================
