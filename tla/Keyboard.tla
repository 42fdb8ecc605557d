------------------------------ MODULE Keyboard ------------------------------
(***************************************************************************)
(* The keyboard task: combos (keyboard/combo.rs, keyboard.rs process_combo)   *)
(* in front of the held-key engine, key events and deadlines (keyboard.rs      *)
(* run, process_inner, fire_expired).                                         *)
(*                                                                          *)
(* The task handles one event or one expired deadline at a time, so each is    *)
(* one action.  Time passes in ticks; a deadline that is due is served before  *)
(* the next tick, but an event that arrives at the same tick may be taken      *)
(* first, as with_deadline polls the subscriber first.                        *)
(*                                                                          *)
(* s.combos[i] is [down, trig].                                             *)
(***************************************************************************)
EXTENDS HeldKeys

VARIABLES
    kb,             \* state of the keyboard task
    down,           \* the keys that are physically down
    order           \* history: the keys in the order of their last press

vars == <<kb, down, order>>

-----------------------------------------------------------------------------
(* Combo *)

\* The combos of the board; f is the configuration of one, c its state.
Combos(s) == Board(s).combos
ComboIds(s) == DOMAIN Combos(s)
Size(f) == Cardinality(f.acts)
AllPressed(c, f) == Size(f) > 0 /\ c.down = f.acts
IsPending(c, f) == AllPressed(c, f) /\ ~c.trig
NewCombo == [down |-> {}, trig |-> FALSE]

\* Combo::update answers whether the press belongs to the combo.
Takes(c, f, ka, layer) ==
    /\ ~c.trig
    /\ f.layer \in {-1, layer}
    /\ ka \in f.acts

Updated(c, f, ka, layer) ==
    IF c.trig \/ f.layer \notin {-1, layer} THEN c
    ELSE IF ka \in f.acts THEN [c EXCEPT !.down = @ \cup {ka}]
    ELSE IF AllPressed(c, f) THEN c ELSE NewCombo

\* Combo::update_released
UpdateReleased(c, ka) ==
    IF c.down \ {ka} = {} THEN NewCombo ELSE [c EXCEPT !.down = @ \ {ka}]

FullyReleased(c, ka) == c.trig /\ c.down \ {ka} = {}

\* Mutant: a chord that is held is not registered again.
Reasserts_Never(c, f, ka) == FALSE

Reasserts(c, f, ka) == c.trig /\ ka \in f.acts

ResetCombos(s, I) ==
    [s EXCEPT !.combos = [i \in ComboIds(s) |-> IF i \in I THEN NewCombo ELSE @[i]]]

Untriggered(s) == {i \in ComboIds(s) : ~s.combos[i].trig}

\* fire_combo: trigger, drop the waiting chord keys, reset the shadowed combos.
FireCombo(s, i, m) ==
    LET f == Combos(s)[i]
        hit == [s EXCEPT !.combos[i].trig = @ \/ AllPressed(s.combos[i], f),
                         !.buf = SelectSeq(@, LAMBDA e : e.st.k # "combo" \/ e.ka \notin f.acts)]
        shadowed == {j \in ComboIds(s) : /\ IsPending(hit.combos[j], Combos(s)[j])
                                         /\ Combos(s)[j].acts \cap f.acts # {}}
    IN ProcessKeyAction(ResetCombos(hit, shadowed), f.out, Press(<<"combo", i>>), m)

\* trigger_delayed_combo: the longest pending combo, the last of those.
TriggerDelayedCombo(s, ka, ev) ==
    LET pending == {i \in ComboIds(s) : /\ IsPending(s.combos[i], Combos(s)[i])
                                        /\ ev.pressed \/ ka \in Combos(s)[i].acts}
        longest == {i \in pending : \A j \in pending : Size(Combos(s)[j]) <= Size(Combos(s)[i])}
    IN IF pending = {} THEN s ELSE FireCombo(s, Max(longest), Now)

\* dispatch_combos: every waiting key as the key it is, earliest press first.
DispatchOne(s) ==
    LET W == {j \in DOMAIN s.buf : s.buf[j].st.k = "combo"}
        i == CHOOSE j \in W : \A n \in W : \/ s.buf[j].pt < s.buf[n].pt
                                           \/ s.buf[j].pt = s.buf[n].pt /\ j <= n
        e == s.buf[i]
    IN IF W = {} THEN s
       ELSE ProcessKeyAction([s EXCEPT !.buf = RemoveAt(@, i)], e.ka, Press(e.src),
                             [pt |-> e.pt, age |-> e.age])

\* Mutant: the combos that became complete wait for another event.
DispatchCombos_None(s, ka, ev) == s

ResetUntriggered(s) == ResetCombos(s, Untriggered(s))

DispatchWaiting(s) == FoldLeft(LAMBDA acc, e : DispatchOne(acc), s, s.buf)

DispatchCombos(s, ka, ev) == ResetUntriggered(DispatchWaiting(TriggerDelayedCombo(s, ka, ev)))

\* process_combo on a press; go: the key is still to be processed as a key.
ComboPress(s, ka, ev) ==
    LET F == Combos(s)
        layer == GetActivatedLayer(s)
        mine == {i \in DOMAIN F : Reasserts(s.combos[i], F[i], ka)}
        skip == s.idle < Board(s).comboIdle
        takers == {i \in DOMAIN F : Takes(s.combos[i], F[i], ka, layer)}
        upd == [s EXCEPT !.combos = [i \in DOMAIN F |-> Updated(@[i], F[i], ka, layer)]]
        size == Max({Size(F[i]) : i \in takers})
        held == Push(upd, HeldKey(ev.src, ka, WaitingCombo, Now, Board(s).comboTimeout))
        complete == {i \in DOMAIN F : IsPending(held.combos[i], F[i]) /\ Size(F[i]) = size}
    IN IF mine # {}
       THEN [go |-> FALSE,
             s |-> [s EXCEPT !.combos = [i \in DOMAIN F |->
                        IF i \in mine THEN [@[i] EXCEPT !.down = @ \cup {ka}] ELSE @[i]]]]
       ELSE IF ~skip /\ takers # {}
       THEN [go |-> FALSE,
             s |-> IF complete = {} THEN held ELSE FireCombo(held, Min(complete), Now)]
       ELSE [go |-> TRUE, s |-> DispatchCombos(IF skip THEN s ELSE upd, ka, ev)]

\* process_combo on a release, once a delayed combo has been triggered
ChordRelease(t, ka, ev) ==
    LET F == Combos(t)
        with == {i \in DOMAIN F : ka \in F[i].acts}
        over == {i \in with : FullyReleased(t.combos[i], ka)}
        upd == [t EXCEPT !.combos = [i \in DOMAIN F |->
                    IF i \in with THEN UpdateReleased(@[i], ka) ELSE @[i]]]
        Unwind(acc, i) == ProcessKeyAction(acc, F[i].out, Unpress(<<"combo", i>>), Now)
    IN IF \E i \in with : t.combos[i].trig
       THEN [go |-> FALSE, s |-> FoldLeft(Unwind, upd, SetToSortSeq(over, <))]
       ELSE [go |-> TRUE, s |-> DispatchCombos(upd, ka, ev)]

ComboRelease(s, ka, ev) == ChordRelease(TriggerDelayedCombo(s, ka, ev), ka, ev)

-----------------------------------------------------------------------------
(* Events and deadlines *)

\* process_inner: the action of the key, then the combos, then the key
AfterCombos(c, ka, ev) == Ranked(IF c.go THEN ProcessKeyAction(c.s, ka, ev, Now) ELSE c.s)

NotCombo(s) == [go |-> TRUE, s |-> s]

ProcessPress(s, ev) ==
    LET r == GetActionWithLayerCache(s, ev)
    IN AfterCombos(IF r.s.comboOn THEN ComboPress(r.s, r.ka, ev) ELSE NotCombo(r.s), r.ka, ev)

ProcessRelease(s, ev) ==
    LET r == GetActionWithLayerCache(s, ev)
    IN AfterCombos(IF r.s.comboOn THEN ComboRelease(r.s, r.ka, ev) ELSE NotCombo(r.s), r.ka, ev)

PressKey(k) ==
    /\ k \notin down /\ ~kb.panic
    /\ down' = down \cup {k}
    /\ order' = Append(SelectSeq(order, LAMBDA j : j # k), k)
    /\ kb' = ProcessPress([kb EXCEPT !.fires[k] = 0], Press(<<"key", k>>))

ReleaseKey(k) ==
    /\ k \in down /\ ~kb.panic
    /\ down' = down \ {k}
    /\ UNCHANGED order
    /\ kb' = ProcessRelease(kb, Unpress(<<"key", k>>))

\* Mutant: an early-fired key has no deadline.
TimedStates_NoEarly == {"pressed", "released"}

\* next_buffered_key looks at the keys that have a timeout, first minimum.
TimedStates == {"pressed", "released", "early"}

Timed(e) == e.st.k = "combo" \/ (IsMorse(e.ka) /\ e.st.k \in TimedStates)

NextBufferedKey(s) ==
    LET W == {j \in DOMAIN s.buf : Timed(s.buf[j])}
    IN {j \in W : \A n \in W : \/ s.buf[j].tt < s.buf[n].tt
                               \/ s.buf[j].tt = s.buf[n].tt /\ j <= n}

ComboKeyDue == ~kb.panic /\ \E j \in NextBufferedKey(kb) : kb.buf[j].tt = 0 /\ kb.buf[j].st.k = "combo"
MorseKeyDue == ~kb.panic /\ \E j \in NextBufferedKey(kb) : kb.buf[j].tt = 0 /\ kb.buf[j].st.k # "combo"
OneShotDue == ~kb.panic /\ NextBufferedKey(kb) = {} /\ 0 \in {kb.osmT, kb.oslT}
Due == ComboKeyDue \/ MorseKeyDue \/ OneShotDue

\* A chord key that no combo took becomes a plain press.
GiveUpChord(t, e) ==
    LET i == SelectInSeq(t.buf, LAMBDA x : x.src = e.src /\ x.st.k = "combo")
        mine == {n \in Untriggered(t) : e.ka \in Combos(t)[n].acts}
    IN IF i = 0 THEN t
       ELSE ProcessKeyAction(ResetCombos([t EXCEPT !.buf = RemoveAt(@, i)], mine),
                             e.ka, Press(e.src), [pt |-> t.buf[i].pt, age |-> t.buf[i].age])

\* fire_buffered_key_timeout of a chord key: its longest pending combo, or the key.
ComboKeyTimeout ==
    /\ ComboKeyDue
    /\ \E j \in NextBufferedKey(kb) :
        LET e == kb.buf[j]
        IN kb' = Ranked(GiveUpChord(TriggerDelayedCombo(kb, e.ka, Unpress(e.src)), e))
    /\ UNCHANGED <<down, order>>

MorseKeyTimeout ==
    /\ MorseKeyDue
    /\ \E j \in NextBufferedKey(kb) : kb' = Ranked(HandleMorseTimeout(kb, kb.buf[j]))
    /\ UNCHANGED <<down, order>>

OneShotTimeout ==
    /\ OneShotDue
    /\ kb' = FireOneshotTimeout(kb)
    /\ UNCHANGED <<down, order>>

Later(n) == IF n > 0 THEN n - 1 ELSE n

IdleCap == Max({Board(kb).priorIdle, Board(kb).comboIdle})

\* Something measures the time that passes.
ClockRuns ==
    /\ ~kb.panic
    /\ \/ \E i \in DOMAIN kb.buf : kb.buf[i].tt > 0 \/ kb.buf[i].age < MaxAge
       \/ kb.osmT > 0 \/ kb.oslT > 0 \/ kb.idle < IdleCap

Tick ==
    /\ ClockRuns /\ ~Due
    /\ kb' = [kb EXCEPT
                !.buf = [i \in DOMAIN kb.buf |-> [kb.buf[i] EXCEPT !.tt = Later(@),
                                                    !.age = IF @ < MaxAge THEN @ + 1 ELSE @]],
                !.osmT = Later(@), !.oslT = Later(@),
                !.idle = IF @ < IdleCap THEN @ + 1 ELSE @]
    /\ UNCHANGED <<down, order>>

Init ==
    /\ \E b \in ToSet(Boards) :
        LET keys == DOMAIN b.hand
        IN kb = [board |-> b,
                 layers |-> {}, dflt |-> 0, cache |-> [k \in keys |-> 0], reg |-> {},
                 osm |-> Off, osmT |-> Never, osl |-> Off, oslT |-> Never, idle |-> 0,
                 comboOn |-> TRUE, host |-> [keys |-> {}, mods |-> {}],
                 fires |-> [k \in keys |-> 0], buf |-> <<>>, panic |-> FALSE,
                 combos |-> [i \in DOMAIN b.combos |-> NewCombo]]
    /\ down = {}
    /\ order = <<>>

Next ==
    \/ \E k \in Keys(kb) : PressKey(k)
    \/ \E k \in Keys(kb) : ReleaseKey(k)
    \/ ComboKeyTimeout
    \/ MorseKeyTimeout
    \/ OneShotTimeout
    \/ Tick

Spec == Init /\ [][Next]_vars

\* The executor polls the keyboard task, so a deadline that stays due is served, and
\* time goes on; nobody has to press or release a key.  Each conjunct is the weak
\* fairness of its action, whose guard says exactly when a step that changes the
\* state is enabled.
Fairness == /\ []<>(~ComboKeyDue) \/ []<><<ComboKeyTimeout>>_vars
            /\ []<>(~MorseKeyDue) \/ []<><<MorseKeyTimeout>>_vars
            /\ []<>(~OneShotDue) \/ []<><<OneShotTimeout>>_vars
            /\ []<>(Due \/ ~ClockRuns) \/ []<><<Tick>>_vars

LiveSpec == Spec /\ Fairness
-----------------------------------------------------------------------------
(* Properties *)

States == {"combo", "pressed", "holding", "released", "early", "flow", "done"}
Sources == {<<"key", k>> : k \in Keys(kb)} \cup {<<"combo", i>> : i \in ComboIds(kb)}

\* Type invariant.  The buffer and the registered keys stay within the capacity of
\* their heapless::Vec, a combo bit mask holds keys of its chord only, and a
\* one-shot without value has no deadline.
TypeOK ==
    /\ kb.board \in ToSet(Boards)
    /\ kb.layers \subseteq Layers(kb) /\ kb.dflt \in Layers(kb)
    /\ kb.cache \in [Keys(kb) -> Layers(kb)]
    /\ Cardinality(kb.reg) <= RegCapacity /\ Cardinality(Coded(kb.reg)) <= KeySlots
    /\ \A r \in kb.reg : r.src \in Sources
    /\ kb.osm.st \in {"off", "initial", "single", "held"}
    /\ kb.osl.st \in {"off", "initial", "single", "held"}
    /\ (kb.osm = Off => kb.osmT = Never) /\ (kb.osl = Off => kb.oslT = Never)
    /\ Len(kb.buf) <= HoldBuffer
    /\ \A i \in DOMAIN kb.buf : /\ kb.buf[i].src \in Sources
                                /\ kb.buf[i].st.k \in States
                                /\ kb.buf[i].tt \in Nat
    /\ \A i \in ComboIds(kb) : kb.combos[i].down \subseteq Combos(kb)[i].acts
    /\ down \subseteq Keys(kb)
    /\ ToSet(order) \subseteq Keys(kb)

\* A chord key is down: some key that has one of the chord's actions on some layer.
ChordDown(i) ==
    \E k \in down : \E l \in Layers(kb) : ActionAt(kb, k, l) \in Combos(kb)[i].acts

\* No key is stuck on the host: what is registered in the report (register_key,
\* unregister_key) was put there by a key that is still physically down, or by a
\* combo of whose chord some key is still down, whichever way the events, the
\* timeouts and the decisions on tap-hold keys interleave.
RegisteredIsHeld ==
    \A r \in kb.reg : IF Physical(r.src) THEN r.src[2] \in down ELSE ChordDown(r.src[2])

TriLayer == Board(kb).tri

ActionsOf(ka) ==
    CASE ka.t \in {"single", "tap"} -> {ka.a}
      [] ka.t = "taphold" -> {ka.tap, ka.hold}
      [] ka.t = "morse" -> {ka.table[p] : p \in DOMAIN ka.table}
      [] OTHER -> {}

TurnsOn(k, l) == \E n \in Layers(kb) : \E x \in ActionsOf(ActionAt(kb, k, n)) :
                     x.k \in {"layerOn", "layerOnMod"} /\ x.l = l

\* No layer is stuck: an active layer (activate_layer, deactivate_layer) has a layer
\* key that is down, or is the layer of the one-shot, or the third layer of the
\* tri-layer rule, although the layer itself changes what the layer key's position
\* means before its release comes in (get_action_with_layer_cache).
LayerIsHeld ==
    \A l \in kb.layers : \/ \E k \in down : TurnsOn(k, l)
                         \/ kb.osl # Off /\ kb.osl.v = l
                         \/ TriLayer # <<>> /\ l = TriLayer[3]

\* The third layer of the tri-layer rule is on exactly while both others are, however
\* the layer keys overlap (update_tri_layer runs after every change of a layer).
TriLayerRule ==
    TriLayer # <<>> =>
        (TriLayer[3] \in kb.layers <=> {TriLayer[1], TriLayer[2]} \subseteq kb.layers)

\* The held buffer has one entry per source (the assumption find_source_mut and
\* remove_if rely on: "The held buffer assumes one entry per position").
OneEntryPerKey == \A i, j \in DOMAIN kb.buf : kb.buf[i].src = kb.buf[j].src => i = j

\* A physical press reaches an action at most once: fire_held_keys, the flush of the
\* non-morse keys, the timeouts and the early fire never report the same press twice.
Once == \A k \in Keys(kb) : kb.fires[k] <= 1

Quiet == kb.buf = <<>> /\ kb.osm = Off /\ kb.osl = Off

\* Once every key is up and nothing waits for a timeout, the last report is empty,
\* nothing is registered, no layer is on and every combo is back to its reset state.
AllUp ==
    down = {} /\ Quiet =>
        /\ kb.host = [keys |-> {}, mods |-> {}]
        /\ kb.reg = {} /\ kb.layers = {}
        /\ \A i \in ComboIds(kb) : kb.combos[i] = NewCombo

Plain(k) == \A l \in Layers(kb) : ~IsMorse(ActionAt(kb, k, l))

Unreported(k) == \E n \in DOMAIN kb.buf : /\ kb.buf[n].src = <<"key", k>>
                                          /\ kb.buf[n].st.k \in {"pressed", "combo"}

\* Plain keys are reported in the order they were pressed, whatever buffers they
\* pass: none is reported while an earlier press still waits in the held buffer.
NoOvertaking ==
    \A i, j \in DOMAIN order :
        i < j /\ Plain(order[i]) /\ Plain(order[j]) /\ Unreported(order[i])
            => kb.fires[order[j]] = 0

\* Combos alone keep that order: on a board without tap-hold and morse keys every chord
\* key that turns out to be a plain press is dispatched before the press that decides
\* so (dispatch_combos), through re-presses, overlapping chords and timeouts.
ChordsKeepOrder == (\A k \in Keys(kb) : Plain(k)) => NoOvertaking

\* The assertion of fire_held_keys that no morse key is among the buffered normal
\* keys, "Morse like actions are not expected here", never fails.
NoPanic == ~kb.panic

\* When all keys are up the engine comes to rest: every buffered tap is decided by its
\* deadline, every chord key is dispatched, a one-shot is used or expires, and the
\* early-fired entries leave the buffer, unless a key is pressed again.
ComesToRest == (down = {}) ~> (Quiet \/ down # {})

Waits(k) == \E i \in DOMAIN kb.buf : /\ kb.buf[i].src = <<"key", k>>
                                     /\ \/ kb.buf[i].st.k = "combo"
                                        \/ kb.buf[i].st.k = "pressed" /\ IsMorse(kb.buf[i].ka)

\* A key that is held down does not stay undecided, whatever the other keys do: its
\* deadline is reached although run serves one deadline at a time and events first.
HoldIsDecided == \A k \in UNION {DOMAIN b.hand : b \in ToSet(Boards)} : Waits(k) ~> ~Waits(k)

\* Nothing sticks: keys, layers, the tri-layer and, once all is up, the whole report.
NothingSticks == RegisteredIsHeld /\ LayerIsHeld /\ TriLayerRule /\ AllUp

\* A press has one entry in the buffer and fires once at most (process_key_action,
\* fire_held_keys).
FiresOnce == TypeOK /\ OneEntryPerKey /\ Once

\* Every wait of the engine ends, with all keys up and with some held (next_deadline).
WaitsEnd == ComesToRest /\ HoldIsDecided

=============================================================================
