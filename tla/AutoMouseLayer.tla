---------------------------- MODULE AutoMouseLayer ----------------------------
(***************************************************************************)
(* The auto mouse layer task (keyboard/auto_mouse_layer.rs) beside the        *)
(* keyboard task, which switches the same layers by keys.                     *)
(*                                                                           *)
(* auto.on is the layer state both share, auto.entry the task's EntryState of *)
(* every configured entry with the ticks to its deadline.  Events reach the   *)
(* task later than what caused them: told is a LayerChangeEvent and typed a   *)
(* key press that it has yet to handle.  The motion events are above the      *)
(* threshold, the others change nothing.  Kept for the properties:            *)
(*   owner   who turned a layer on: "auto", a "key" or nobody                 *)
(*   age     ticks since the last motion that an entry has counted            *)
(*   raced   layers a key turned on before the task saw them go off           *)
(*   cut     layers that a layer key turned off                              *)
(***************************************************************************)
EXTENDS Integers, Sequences, FiniteSetsExt

CONSTANTS EntryConfigs,     \* sequences of [device, layer, timeout, deactivate, reset]; device 0 is None
          Devices,          \* pointing devices
          MaxMotions, MaxLayerKeys, MaxTyped

ASSUME AutoMouseEntries ==
    /\ EntryConfigs # {}
    /\ EntryConfigs \subseteq Seq([device : Nat, layer : Nat, timeout : Nat,
                                   deactivate : BOOLEAN, reset : BOOLEAN])

VARIABLE auto

Unset == -1
AutoLayers(c) == {c[i].layer : i \in DOMAIN c}

\* AutoMouseLayerRunner::new
AutoStarts ==
    {[cfg |-> c, on |-> {}, held |-> {}, told |-> FALSE, typed |-> "none",
                entry |-> [i \in DOMAIN c |-> [self |-> FALSE, left |-> Unset]],
                owner |-> [l \in AutoLayers(c) |-> "none"], raced |-> {}, cut |-> {},
                age |-> [i \in DOMAIN c |-> c[i].timeout],
                motions |-> 0, keys |-> 0, strokes |-> 0] : c \in EntryConfigs}

\* activate_layer_if_inactive, deactivate_layer_if_active and the layer keys: a change is
\* published as a LayerChangeEvent.
TurnedOn(a, l, who) ==
    IF l \in a.on THEN a
    ELSE [a EXCEPT !.on = @ \union {l}, !.told = TRUE, !.owner[l] = who, !.cut = @ \ {l},
                   !.raced = IF who = "key" /\ a.told /\ \E i \in DOMAIN a.entry : a.entry[i].self /\ a.cfg[i].layer = l
                             THEN @ \union {l} ELSE @ \ {l}]

TurnedOff(a, l) ==
    IF l \notin a.on THEN a
    ELSE [a EXCEPT !.on = @ \ {l}, !.told = TRUE, !.owner[l] = "none", !.cut = @ \union {l}]

MatchEntry(c, device) ==
    LET exact == {i \in DOMAIN c : c[i].device = device}
        any == {i \in DOMAIN c : c[i].device = 0}
    IN IF exact # {} THEN {Min(exact)} ELSE IF any # {} THEN {Min(any)} ELSE {}

LayerStillHeld(c, e, l) == \E i \in DOMAIN e : e[i].self /\ c[i].layer = l

LayerSharedWithOther(c, e, i) == \E j \in DOMAIN e \ {i} : e[j].self /\ c[j].layer = c[i].layer

\* pointing_step; whether it warns of an overlap is left out.
PointingStep(a, i, activated) ==
    IF activated \/ LayerSharedWithOther(a.cfg, a.entry, i) \/ a.entry[i].self
    THEN [a EXCEPT !.entry[i] = [self |-> TRUE, left |-> a.cfg[i].timeout], !.age[i] = 0]
    ELSE a

\* on_pointing_event
Motion(device) ==
    /\ auto.motions < MaxMotions
    /\ LET a == [auto EXCEPT !.motions = @ + 1]
       IN \/ /\ MatchEntry(a.cfg, device) = {}
             /\ auto' = a
          \/ \E i \in MatchEntry(a.cfg, device) :
                LET l == a.cfg[i].layer
                    b == TurnedOn(a, l, "auto")
                IN auto' = PointingStep(b, i, l \notin a.on)

Ended(e, I) == [i \in DOMAIN e |-> IF i \in I THEN [self |-> FALSE, left |-> Unset] ELSE e[i]]

Aged(a, I) == [i \in DOMAIN a.age |-> IF i \in I THEN a.cfg[i].timeout ELSE a.age[i]]

\* Mutant: a layer change is not acted on.
LayerChange_Ignored == auto.told /\ auto' = [auto EXCEPT !.told = FALSE]

\* on_layer_change_event
LayerChange ==
    /\ auto.told
    /\ LET gone == {i \in DOMAIN auto.entry : auto.entry[i].self /\ auto.cfg[i].layer \notin auto.on}
       IN auto' = [auto EXCEPT !.told = FALSE, !.entry = Ended(@, gone), !.age = Aged(auto, gone)]

\* The layers of the entries I that no other entry still holds.
Released(a, e, I) == {l \in {a.cfg[i].layer : i \in I} : ~LayerStillHeld(a.cfg, e, l)}

Ends(a, I) ==
    LET e == Ended(a.entry, I)
        L == Released(a, e, I)
        b == [a EXCEPT !.entry = e]
    IN [b EXCEPT !.on = @ \ L, !.told = @ \/ L \intersect a.on # {},
                 !.owner = [l \in DOMAIN @ |-> IF l \in L THEN "none" ELSE @[l]]]

Expired(a) == {i \in DOMAIN a.entry : a.entry[i].self /\ a.entry[i].left = 0}

\* on_deadline
Deadline == /\ Expired(auto) # {}
            /\ auto' = Ends(auto, Expired(auto))

Deactivates(c, action) == c.deactivate /\ action = "plain"

\* keypress_step for the entries that hold a layer: they end or their deadline is put off.
KeypressStep(a, action) ==
    LET I == {i \in DOMAIN a.entry : a.entry[i].self}
        ends == {i \in I : Deactivates(a.cfg[i], action)}
        b == [a EXCEPT !.entry = [i \in DOMAIN @ |->
                 IF i \in I \ ends /\ a.cfg[i].reset THEN [@[i] EXCEPT !.left = a.cfg[i].timeout] ELSE @[i]],
                       !.age = Aged(a, ends)]
    IN IF ends = {} THEN b ELSE Ends(b, ends)

\* on_action_event
ActionEvent == /\ auto.typed # "none"
               /\ auto' = KeypressStep([auto EXCEPT !.typed = "none"], auto.typed)

\* The keyboard task: MO(l) is pressed and released, TG(l) is pressed, a key that is no
\* layer key is pressed.
MomentaryKey(l) ==
    /\ auto.keys < MaxLayerKeys
    /\ LET a == [auto EXCEPT !.keys = @ + 1]
       IN auto' = IF l \in a.held THEN TurnedOff([a EXCEPT !.held = @ \ {l}], l)
                                  ELSE TurnedOn([a EXCEPT !.held = @ \union {l}], l, "key")

ToggleKey(l) ==
    /\ auto.keys < MaxLayerKeys
    /\ LET a == [auto EXCEPT !.keys = @ + 1]
       IN auto' = IF l \in a.on THEN TurnedOff(a, l) ELSE TurnedOn(a, l, "key")

\* "plain" is a key that deactivates, "mouse" a mouse key, one of extra_mouse_keys or one
\* that cannot be classified.
TypeKey(action) ==
    /\ auto.strokes < MaxTyped /\ auto.typed = "none"
    /\ auto' = [auto EXCEPT !.typed = action, !.strokes = @ + 1]

AutoTick ==
    /\ Expired(auto) = {}
    /\ \E i \in DOMAIN auto.entry : auto.entry[i].left > 0
    /\ auto' = [auto EXCEPT !.entry = [i \in DOMAIN @ |->
                             [@[i] EXCEPT !.left = Max({auto.entry[i].left - 1, Unset})]],
                            !.age = [i \in DOMAIN @ |-> Min({@[i] + 1, auto.cfg[i].timeout})]]

AutoNext ==
    \/ \E d \in Devices : Motion(d)
    \/ LayerChange \/ Deadline \/ ActionEvent \/ AutoTick
    \/ \E l \in AutoLayers(auto.cfg) : MomentaryKey(l) \/ ToggleKey(l)
    \/ \E x \in {"plain", "mouse"} : TypeKey(x)


-----------------------------------------------------------------------------

\* Entries that share a layer cooperate: while a device has moved within its timeout the
\* layer it turned on, or joined, stays on; a sibling's timeout or key press does not take
\* it away, only a layer key does.
StaysWhileMoving ==
    \A i \in DOMAIN auto.cfg :
        auto.age[i] < auto.cfg[i].timeout => auto.cfg[i].layer \in auto.on \union auto.cut

\* No deadline of the task switches off a layer that a key has switched on; excused is a
\* layer that keys switched off and on before the task saw the first change.
TimeoutSparesKeys ==
    [][Deadline => \A l \in auto.on \ auto'.on : auto.owner[l] = "auto" \/ l \in auto.raced]_auto

\* A layer that the task turned on goes off again, or passes to the keys, once the devices
\* are still.
LayerComesDown ==
    LET kept == {l \in auto.on : auto.owner[l] = "auto"}
    IN kept # {} ~> kept = {}

\* The layer is on while its devices move and comes down after, and only by its own
\* deadline if the keys did not take it over (pointing_step, timeout_step).
LayerFollowsMotion == []StaysWhileMoving /\ TimeoutSparesKeys /\ LayerComesDown

=============================================================================
