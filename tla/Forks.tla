-------------------------------- MODULE Forks --------------------------------
(***************************************************************************)
(* Forks, which replace a key by another depending on modifiers, LEDs and     *)
(* mouse buttons, with caps word and macros on plain keys: what was replaced  *)
(* at the press is released, the modifiers a fork suppresses come back, and   *)
(* a macro neither takes a key away nor leaves one down.                      *)
(* (rmk/src/keyboard.rs: try_start_forks, try_finish_forks, register_key,     *)
(* resolve_modifiers, fire_macro)                                             *)
(***************************************************************************)
EXTENDS Macros

CONSTANTS
    ForkBoards,     \* [keys: their actions, forks, macros: the ops of each slot]
    StateBits,      \* LEDs and mouse buttons that forks match besides modifiers
    MacroEdits      \* what a host may write into a macro slot

\* The macros a board may come to hold, the ops that play on it and the actions that fire.
MacrosOf(b) == Range(b.macros) \union MacroEdits
OpsOf(b) == {Delay} \union (UNION {Range(m) : m \in MacrosOf(b)})
ActionsOf(b) ==
    Range(b.keys) \union (UNION {{f.positive, f.negative} : f \in Range(b.forks)})
        \union {o.a : o \in {o \in OpsOf(b) : o.op \in {"press", "release", "tap"}}}

\* The configuration: keys are not numbered like the macros' own events, and what triggers a
\* macro names a slot of it.
ASSUME ForkBoardsAreWhole ==
    \A b \in ForkBoards :
        /\ FromMacro \notin DOMAIN b.keys
        /\ b.forks \in Seq(Range(b.forks))
        /\ \A m \in MacrosOf(b) : m \in Seq(OpsOf(b))
        /\ \A a \in ActionsOf(b) : a.t = "macro" => a.slot \in DOMAIN b.macros

\* There is a board, and a modifier key is no key of a word.
ASSUME ForkSizes == ForkBoards # {} /\ KeycodeSlots \in Nat \ {0} /\ NoCode \notin WordKeys

VARIABLE fk

Inactive == [on |-> FALSE]

ForkStarts ==
    {[board |-> b, layer |-> 1, bits |-> {}, down |-> {}, reg |-> {}, keep |-> {}, fresh |-> {},
      active |-> [i \in DOMAIN b.forks |-> Inactive], caps |-> CapsOff,
      macros |-> b.macros, queue |-> <<>>, char |-> <<>>, text |-> FALSE, cut |-> FALSE, lost |-> FALSE,
      host |-> [mods |-> {}, codes |-> {}], typed |-> [code |-> NoCode, mods |-> {}, held |-> {}]] :
        b \in ForkBoards}

-----------------------------------------------------------------------------
(* Forks *)

\* A chain of forks: the replacement so far, the fork it began with, the forks that are
\* used up, the suppressed and kept modifiers, the state bits decisions see.
Chain(s, a) == [a |-> a, first |-> 0, used |-> {}, suppress |-> {}, keep |-> s.keep,
                bits |-> HeldModifiers(s) \union s.bits, done |-> FALSE]

Decision(f, bits) == f.any \intersect bits # {} /\ f.none \intersect bits = {}

Applies(s, c, i) ==
    LET f == s.board.forks[i]
    IN /\ i \notin c.used /\ ~s.active[i].on
       /\ f.trigger = c.a /\ s.layer \in f.layers
       /\ Decision(f, c.bits) \/ f.negative # Transparent

\* One turn of the loop: the first fork that applies replaces the action.
Bind(s, c) ==
    LET I == {i \in DOMAIN s.board.forks : Applies(s, c, i)}
    IN  IF c.done \/ I = {} THEN [c EXCEPT !.done = TRUE]
        ELSE LET i == Min(I)
                 f == s.board.forks[i]
                 matched == f.any \ StateBits
             IN [a |-> IF Decision(f, c.bits) THEN f.positive ELSE f.negative,
                 first |-> IF c.first = 0 THEN i ELSE c.first,
                 used |-> c.used \union {i},
                 suppress |-> c.suppress \union (matched \ f.kept),
                 keep |-> (c.keep \ matched) \union f.kept,
                 bits |-> c.bits \ (matched \ f.kept),
                 done |-> ~f.bindable]

\* A fork is used once, so that the loop turns at most as often as there are forks.
Bound(s, a) ==
    LET turn[n \in 0 .. Len(s.board.forks)] == IF n = 0 THEN Chain(s, a) ELSE Bind(s, turn[n - 1])
    IN turn[Len(s.board.forks)]

\* The fork a chain began with stays active until its key goes up.
Started(s, k, c) ==
    IF c.first = 0 THEN s
    ELSE [s EXCEPT !.active[c.first] = [on |-> TRUE, src |-> k, a |-> c.a, suppress |-> c.suppress],
                   !.keep = c.keep, !.fresh = {}]

Readded(a) == IF a.t = "key" /\ a.code # NoCode THEN a.mods ELSE {}

\* try_start_forks at a press: modifiers that get suppressed are released in a report of their own.
PressReplaced(s, k, a) ==
    LET c == Bound(s, a)
        n == Started(s, k, c)
        dropped == (HeldModifiers(n) \intersect c.suppress) \ (n.keep \union Readded(c.a))
    IN NormalKey(IF dropped = {} THEN n ELSE Sent(n, TRUE), k, c.a, TRUE)

\* try_start_forks at a release.
Replacement(s, k, a) ==
    LET I == {i \in ActiveForks(s) : s.active[i].src = k}
    IN IF I = {} THEN a ELSE s.active[Min(I)].a

\* Mutant: the suppression ends without a report.
Finished_Silent(s, k) ==
    [s EXCEPT !.active = [i \in DOMAIN @ |-> IF @[i].on /\ @[i].src = k THEN Inactive ELSE @[i]]]

\* try_finish_forks
Finished(s, k) ==
    LET n == [s EXCEPT !.active = [i \in DOMAIN @ |-> IF @[i].on /\ @[i].src = k THEN Inactive ELSE @[i]]]
    IN IF ResolveModifiers(n, FALSE) = ResolveModifiers(s, FALSE) THEN n ELSE Sent(n, FALSE)

ReleaseReplaced(s, k, a) == Finished(NormalKey(s, k, Replacement(s, k, a), FALSE), k)

-----------------------------------------------------------------------------

\* The keyboard task has nothing under way: it is not inside a character of a macro.
Idle == fk.char = <<>>

ForkKey(k) ==
    LET a == fk.board.keys[k]
    IN /\ Idle
       /\ fk' = IF k \in fk.down THEN ReleaseReplaced([fk EXCEPT !.down = @ \ {k}], k, a)
                                 ELSE PressReplaced([fk EXCEPT !.down = @ \union {k}], k, a)

\* Another layer with the same keys turns on or off, and an LED or a mouse button, where a
\* fork depends on it.
LayerFlips ==
    /\ Idle
    /\ \E f \in Range(fk.board.forks) : f.layers # {1, 2}
    /\ fk' = [fk EXCEPT !.layer = 3 - @]
BitFlips == \E f \in Range(fk.board.forks) : \E b \in (f.any \union f.none) \intersect StateBits :
    fk' = [fk EXCEPT !.bits = IF b \in @ THEN @ \ {b} ELSE @ \union {b}]

\* Caps word ends five seconds after the last key.
CapsTimesOut == /\ fk.caps.on /\ ~fk.caps.late
                /\ fk' = [fk EXCEPT !.caps.late = TRUE]

\* The next op of a macro is due, and the 10ms a character is shown.
MacroPlays ==
    /\ Idle /\ fk.queue # <<>>
    /\ fk' = IF Unplayed(fk.queue) = <<>> THEN [fk EXCEPT !.queue = <<>>] ELSE Played(fk)
CharacterEnds == fk.char # <<>> /\ fk' = CharEnds(fk)

\* A host edits a macro, whatever the keyboard task is at.
MacroEdited == \E slot \in DOMAIN fk.macros, ops \in MacroEdits :
    ~fk.lost /\ fk' = Edited(fk, slot, ops)

ForksNext == \/ \E k \in DOMAIN fk.board.keys : ForkKey(k)
             \/ LayerFlips \/ BitFlips \/ CapsTimesOut
             \/ MacroPlays \/ CharacterEnds \/ MacroEdited

-----------------------------------------------------------------------------

MacroKeys == {r \in fk.reg : r.src = FromMacro}

\* What a fork put in place of a key goes up with the key, and its suppression ends, although
\* the modifiers, the layer or the LED it was chosen by changed in between
\* (try_start_forks finds the replacement by the source of the event).
ForksEndWithKey ==
    /\ \A i \in ActiveForks(fk) : fk.active[i].src \in fk.down
    /\ \A r \in fk.reg \ MacroKeys : r.src \in fk.down
    /\ fk.down = {} /\ MacroKeys = {} /\ ~fk.text => fk.host = [mods |-> {}, codes |-> {}]

\* The host shows the registered keys and the modifiers in force, but for the shift of caps
\* word, which goes with a press only, and for the modifiers of a text macro: a suppression
\* that ends is reported (try_finish_forks).
ReportIsCurrent ==
    /\ fk.host.codes = {r.code : r \in Keycodes(fk)}
    /\ ~fk.text => /\ ResolveModifiers(fk, FALSE) \subseteq fk.host.mods
                   /\ fk.host.mods \ ResolveModifiers(fk, FALSE) \subseteq {Shift}

\* A modifier pressed since the last fork fired is not suppressed (fork_keep_mask in register_key).
FreshModifierCounts == fk.fresh \intersect Suppressed(fk) = {}

\* Caps word shifts letters only: any other keycode was typed with a shift that a key held
\* (the shift of the letter before, which CapsWordState keeps, does not leak into it).
CapsWordShiftsLetters ==
    Shift \in fk.typed.mods \ fk.typed.held => fk.typed.code \in ShiftedKeys

\* Forks and caps word leave nothing behind at the host, and take nothing away from it
\* (try_start_forks, try_finish_forks, resolve_modifiers, CapsWordState::check).
ForksAreSound == ForksEndWithKey /\ ReportIsCurrent /\ FreshModifierCounts /\ CapsWordShiftsLetters

\* The modifiers of a text come back with the end of the text: fire_macro looks whether the
\* next op is a character.  A host edit that ends the macro between two characters is the
\* exception the code makes: nothing brings them back before the next report.
TextGivesModifiersBack == fk.text => fk.char # <<>> \/ IsChar(fk.queue) \/ fk.cut

\* A macro that releases what it presses leaves nothing down when the keys that trigger
\* macros are up and the queue has run out, unless a full queue or an edit took a half of it
\* (Macros::queue, RegisteredKey::matches).
MacrosEnd ==
    LET triggers == {k \in fk.down : Replacement(fk, k, fk.board.keys[k]).t = "macro"}
    IN fk.queue = <<>> /\ Idle /\ triggers = {} /\ ~fk.lost => MacroKeys = {}

\* No macro takes away a key that somebody holds (RegisteredKey::matches).
HeldKeysStay ==
    \A k \in fk.down : Replacement(fk, k, fk.board.keys[k]).t = "key" => \E r \in fk.reg : r.src = k

\* Macros and keys do not get in each other's way (fire_macro, Macros::queue, register_key).
MacrosAreSound == TextGivesModifiersBack /\ MacrosEnd /\ HeldKeysStay

\* What is pressed in place of a key, or by a macro, comes up again, and the host sees it
\* (process_key_action_inner, fire_macro).
ReplacedKeysAreSound == ForksAreSound /\ MacrosAreSound

-----------------------------------------------------------------------------
(* What a configuration has to give for the last three properties *)

\* A fork that keeps modifiers puts keycodes in the place of keys, and so does every fork it
\* leads to: no report shows a kept modifier that comes back for a macro or nothing at all.
OutputsAreKeys(f) == f.positive.t = "key" /\ (f.negative = Transparent \/ f.negative.t = "key")
KeepersFireKeys ==
    \A b \in ForkBoards : \A f \in Range(b.forks) :
        f.kept # {} => OutputsAreKeys(f) /\ (f.bindable => \A g \in Range(b.forks) : OutputsAreKeys(g))

\* The same entry of the report: a keycode, or a modifier key.
Same(a, b) == a.code = b.code /\ (a.code # NoCode \/ a.mods = b.mods)

\* The ops h release action a after place p.
Releases(h, p, a) ==
    \E q \in p + 1 .. Len(h) : h[q].op = "release" /\ h[q].a.t = "key" /\ Same(a, h[q].a)

\* A macro releases what it presses, later.
MacrosBalance ==
    \A b \in ForkBoards : \A m \in MacrosOf(b) : \A p \in 1 .. Len(m) :
        m[p].op = "press" => m[p].a.t # "macro" /\ (m[p].a.t = "key" => Releases(m, p, m[p].a))

\* The keys that fire a keycode, themselves or by a fork, and the keycodes of macros.
HasCode(a) == a.t = "key" /\ a.code # NoCode
CodeKeys(b) ==
    {k \in DOMAIN b.keys : HasCode(b.keys[k]) \/ \E f \in Range(b.forks) : f.trigger = b.keys[k]}
MacroCodes(b) ==
    {o.a.code : o \in {o \in OpsOf(b) : o.op \in {"press", "tap"} /\ HasCode(o.a)}}
        \union {o.code : o \in {o \in OpsOf(b) : o.op = "char"}}

\* No more keycodes are down at once than a report has room for.
ReportsHaveRoom ==
    \A b \in ForkBoards :
        /\ IsFiniteSet(CodeKeys(b)) /\ IsFiniteSet(MacroCodes(b))
        /\ Cardinality(CodeKeys(b)) + Cardinality(MacroCodes(b)) <= KeycodeSlots

=============================================================================
