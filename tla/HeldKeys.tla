------------------------------ MODULE HeldKeys ------------------------------
(***************************************************************************)
(* The held buffer and the tap-hold/morse engine (keyboard.rs                 *)
(* process_key_action, make_decisions_for_keys, fire_held_keys;               *)
(* keyboard/morse.rs; keyboard/held_buffer.rs).  No fork is configured.       *)
(*                                                                          *)
(* A moment is [pt, age]: pt orders press times, age is the ticks since.      *)
(* Inside one handler every moment taken from the clock is Now; Ranked         *)
(* renumbers pt afterwards.  An entry of s.buf is                             *)
(*   [src, ka, st, pt, age, tt]   tt: ticks left to timeout_time, 0 when due  *)
(* with st one of WaitingCombo, Pressed(p), Holding(p), Released(p),           *)
(* EarlyFired(p), FlowTapped(a), Processed(a).  s.panic records an assertion   *)
(* of the code that fails.                                                    *)
(***************************************************************************)
EXTENDS KeyActions, TLC

CONSTANTS
    HoldBuffer,    \* capacity of the held buffer: 16
    MaxAge         \* cap of the ages

WaitingCombo == [k |-> "combo"]
Pressed(p) == [k |-> "pressed", p |-> p]
Holding(p) == [k |-> "holding", p |-> p]
Released(p) == [k |-> "released", p |-> p]
EarlyFired(p) == [k |-> "early", p |-> p]
FlowTapped(a) == [k |-> "flow", a |-> a]
Processed(a) == [k |-> "done", a |-> a]

Now == [pt |-> HoldBuffer + 1, age |-> 0]

\* timeout_time = moment + ticks, seen from now.
Left(m, ticks) == IF ticks > m.age THEN ticks - m.age ELSE 0

HeldKey(src, ka, st, m, tt) ==
    [src |-> src, ka |-> ka, st |-> st, pt |-> m.pt, age |-> m.age, tt |-> tt]

-----------------------------------------------------------------------------
(* The buffer *)

\* A full buffer drops the key.
Push(s, e) == IF Len(s.buf) < HoldBuffer THEN [s EXCEPT !.buf = Append(@, e)] ELSE s

IndexOf(s, src) == SelectInSeq(s.buf, LAMBDA e : e.src = src)
InBuffer(s, src) == IndexOf(s, src) # 0
Entry(s, src) == s.buf[IndexOf(s, src)]
Without(s, src) == IF InBuffer(s, src) THEN [s EXCEPT !.buf = RemoveAt(@, IndexOf(s, src))] ELSE s
WithEntry(s, src, e) == IF InBuffer(s, src) THEN [s EXCEPT !.buf[IndexOf(s, src)] = e] ELSE s
WithState(s, src, st) == IF InBuffer(s, src) THEN [s EXCEPT !.buf[IndexOf(s, src)].st = st] ELSE s

Sorted(s) == [s EXCEPT !.buf = SortSeq(@, LAMBDA a, b : a.pt < b.pt)]

Ranked(s) ==
    LET pts == {s.buf[i].pt : i \in DOMAIN s.buf}
    IN [s EXCEPT !.buf = [i \in DOMAIN s.buf |->
            [s.buf[i] EXCEPT !.pt = Cardinality({p \in pts : p <= s.buf[i].pt})]]]

Undecided(e) == e.st.k \in {"pressed", "released"}

HasUnresolvedMorseKey(s) ==
    \E i \in DOMAIN s.buf : /\ IsMorse(s.buf[i].ka)
                            /\ s.buf[i].st.k \in {"pressed", "holding", "released"}

\* The action of a buffered key under the layers that are active now.
Relooked(s, e) == IF Physical(e.src) THEN GetActionWithLayerCache(s, Press(e.src))
                                     ELSE [s |-> s, ka |-> e.ka]

-----------------------------------------------------------------------------
(* make_decisions_for_keys *)

SameSide(s, src1, src2) ==
    /\ Physical(src1) /\ Physical(src2)
    /\ Board(s).hand[src1[2]] = Board(s).hand[src2[2]]
    /\ Board(s).hand[src1[2]] \in {"left", "right"}

\* A key press while the held key h is undecided.
DecidePress(s, acc, h, ev) ==
    CASE acc.cur = "flowTap" /\ h.st.k = "pressed" /\ h.ka.prof.flow ->
            [acc EXCEPT !.ds = Append(@, <<h.src, "tap">>)]
      [] ~(acc.cur = "flowTap" /\ h.st.k = "pressed" /\ h.ka.prof.flow)
         /\ h.ka.prof.mode = "permissive" -> [acc EXCEPT !.cur = "buffer"]
      [] ~(acc.cur = "flowTap" /\ h.st.k = "pressed" /\ h.ka.prof.flow)
         /\ h.ka.prof.mode = "holdOnOther" ->
            [ds |-> Append(acc.ds, <<h.src, "hold">>), cur |-> "clean"]
      [] OTHER -> IF h.ka.prof.uni /\ h.st.k = "pressed" /\ SameSide(s, h.src, ev.src)
                  THEN [ds |-> Append(acc.ds, <<h.src, "tap">>), cur |-> "clean"]
                  ELSE acc

\* The loop has not met the releasing key yet: h was pressed before it.
PressedBefore(acc) == acc.cur # "release"

DecideRelease(s, acc, h, ev) ==
    IF ~PressedBefore(acc) THEN acc
    ELSE IF h.ka.prof.uni /\ SameSide(s, h.src, ev.src)
    THEN [acc EXCEPT !.ds = Append(@, <<h.src, "tap">>)]
    ELSE IF h.ka.prof.mode = "permissive"
    THEN [ds |-> Append(acc.ds, <<h.src, "hold">>), cur |-> "clean"]
    ELSE acc

Decide(s, acc, h, ev) ==
    IF ~ev.pressed /\ h.src = ev.src
    THEN [ds |-> Append(acc.ds, <<h.src, "release">>), cur |-> "release"]
    ELSE IF ~IsMorse(h.ka) /\ h.st.k = "pressed"
    THEN [acc EXCEPT !.ds = Append(@, <<h.src, "normal">>)]
    ELSE IF h.src = ev.src \/ ~IsMorse(h.ka) THEN acc
    ELSE IF ev.pressed THEN DecidePress(s, acc, h, ev) ELSE DecideRelease(s, acc, h, ev)

MakeDecisions(s, ka, ev) ==
    LET start == [ds |-> <<>>,
                  cur |-> IF ev.pressed /\ IsMorse(ka) /\ ka.prof.flow /\ s.idle < Board(s).priorIdle
                          THEN "flowTap" ELSE "ignore"]
        check == ev.pressed \/ (InBuffer(s, ev.src) /\ Undecided(Entry(s, ev.src)))
        sorted == Sorted(s)
    IN IF ~check THEN [s |-> s, ds |-> <<>>, cur |-> start.cur]
       ELSE LET d == FoldLeft(LAMBDA acc, h : Decide(s, acc, h, ev), start,
                              SelectSeq(sorted.buf, Undecided))
            IN [s |-> sorted, ds |-> d.ds, cur |-> d.cur]

-----------------------------------------------------------------------------
(* Morse press, release and timeout *)

\* A press of a key that is no morse key.
FirePlain(s, ka, src) ==
    CASE ka.t = "single" -> ProcessNormal(s, ka.a, Press(src))
      [] ka.t = "tap" -> ProcessTap(s, ka.a, Press(src))
      [] OTHER -> s

\* fire_held_non_morse_keys
FireNonMorse(s, e) ==
    LET r == Relooked(s, e) IN FirePlain(r.s, r.ka, e.src)

Flushable(e) == ~IsMorse(e.ka)

FireHeldNonMorseKeys(s) ==
    LET buf == Sorted(s).buf
    IN FoldLeft(FireNonMorse,
                [s EXCEPT !.buf = SelectSeq(buf, LAMBDA e : ~Flushable(e))],
                SelectSeq(buf, Flushable))

FlushIfResolved(s) == IF HasUnresolvedMorseKey(s) THEN s ELSE FireHeldNonMorseKeys(s)

QuickTap(e, ka, m) ==
    /\ e.st.p # Empty /\ IsAllTaps(e.st.p)
    /\ ka.prof.quick > 0 /\ e.age - m.age <= ka.prof.quick
    /\ ActionFromPattern(ka, TAP) # NoAction

MorsePress(s, ka, src, m) ==
    LET tt == Left(m, ka.prof.hold)
        e == Entry(s, src)
        again(st) == WithEntry(s, src, [e EXCEPT !.st = st, !.pt = m.pt, !.age = m.age, !.tt = tt])
        tap == ActionFromPattern(ka, TAP)
    IN IF ~InBuffer(s, src) THEN Push(s, HeldKey(src, ka, Pressed(Empty), m, tt))
       ELSE IF e.st.k \notin {"released", "early"} THEN s
       ELSE IF QuickTap(e, ka, m) THEN ProcessNormal(again(Processed(tap)), tap, Press(src))
       ELSE again(Pressed(IF ka.t = "taphold" THEN Empty ELSE e.st.p))

\* The pattern a release completes; one that leads nowhere starts over.
CompletedPattern(e) ==
    LET p == IF e.tt = 0 THEN FollowedByHold(e.st.p) ELSE FollowedByTap(e.st.p)
    IN IF e.ka.t = "morse" /\ ~HasPatternOrContinuation(e.ka, p)
       THEN (IF e.tt = 0 THEN HOLD ELSE TAP) ELSE p

\* The tap went out: nothing fires this pattern again.
Marked(s, src, p) == WithState(s, src, EarlyFired(p))

\* Release in state Pressed: fire and stay for a quick tap, fire and leave, or wait
\* for the pattern to go on (the tap fired early when its hold means the same).
MorseReleasePressed(s, e) ==
    LET p == CompletedPattern(e)
        final == TryPredictFinalAction(e.ka, p)
        early == CheckEarlyFire(e.ka, p)
        stay(t, st, ticks) ==
            WithEntry(t, e.src, [e EXCEPT !.st = st, !.pt = Now.pt, !.age = 0, !.tt = ticks])
        quick == /\ e.tt > 0 /\ IsAllTaps(p) /\ e.ka.prof.quick > 0
                 /\ final # {} /\ NoAction \notin final
    IN IF quick
       THEN FlushIfResolved(stay(ProcessTap(s, CHOOSE a \in final : TRUE, Press(e.src)),
                                 EarlyFired(p), Max({e.ka.prof.gap, e.ka.prof.quick})))
       ELSE IF final # {}
       THEN Without(ProcessTap(Without(s, e.src), CHOOSE a \in final : TRUE, Press(e.src)), e.src)
       ELSE IF early = {} THEN stay(s, Released(p), e.ka.prof.gap)
       ELSE FlushIfResolved(
                Marked(ProcessTap(stay(s, Released(p), e.ka.prof.gap),
                                  CHOOSE a \in early : TRUE, Press(e.src)),
                       e.src, p))

MorseRelease(s, ka, src) ==
    LET e == Entry(s, src)
        stay(t, st, ticks) ==
            WithEntry(t, src, [e EXCEPT !.st = st, !.pt = Now.pt, !.age = 0, !.tt = ticks])
    IN IF ~InBuffer(s, src) THEN s
       ELSE CASE e.st.k = "pressed" -> MorseReleasePressed(s, e)
              [] e.st.k = "holding" -> stay(s, Released(e.st.p), e.ka.prof.gap)
              [] e.st.k = "done" -> ProcessNormal(Without(s, src), e.st.a, Unpress(src))
              [] e.st.k = "flow" ->
                    LET up == ProcessNormal(s, e.st.a, Unpress(src))
                    IN IF ActionFromPattern(ka, FollowedByHold(TAP)) # NoAction
                       THEN stay(up, EarlyFired(TAP), ka.prof.gap)
                       ELSE Without(up, src)
              [] OTHER -> s

ProcessMorse(s, ka, ev, m) ==
    IF ev.pressed THEN MorsePress(s, ka, ev.src, m) ELSE MorseRelease(s, ka, ev.src)

\* The hold went out: the key waits for its release only.
Held(s, src, a) == WithState(s, src, Processed(a))

HandleMorseTimeout(s, e) ==
    LET p == FollowedByHold(e.st.p)
        final == TryPredictFinalAction(e.ka, p)
        done == CASE e.st.k = "pressed" /\ final # {} ->
                        LET a == CHOOSE x \in final : TRUE
                        IN Held(ProcessNormal(s, a, Press(e.src)), e.src, a)
                  [] e.st.k = "pressed" /\ final = {} -> WithState(s, e.src, Holding(p))
                  [] e.st.k = "released" ->
                        Without(ProcessTap(s, ActionFromPattern(e.ka, e.st.p), Press(e.src)), e.src)
                  [] e.st.k = "early" -> Without(s, e.src)
    IN FlushIfResolved(done)

\* process_key_action_inner
ProcessInner(s, ka, ev, m) ==
    CASE ka.t = "single" -> ProcessNormal(s, ka.a, ev)
      [] ka.t = "tap" -> ProcessTap(s, ka.a, ev)
      [] IsMorse(ka) -> ProcessMorse(s, ka, ev, m)
      [] OTHER -> s

-----------------------------------------------------------------------------
(* fire_held_keys: x is [s, upd, cur] *)

\* The pattern of a held key that is ended now by a tap or by a hold.
Ended(st, how) == IF st.k = "holding" THEN st.p
                  ELSE IF how = "tap" THEN FollowedByTap(st.p) ELSE FollowedByHold(st.p)

\* Mutant: the popped key is not put back.
PushedBack_Gone(s, e, a) == s

\* A key that was fired stays in the buffer until its release is reported.
PushedBack(s, e, a) == Push(s, [e EXCEPT !.st = Processed(a)])

FireAs(x, s, e, ka, how) ==
    LET a == ActionFromPattern(ka, IF e.st.k = "released" THEN e.st.p ELSE Ended(e.st, how))
    IN CASE e.st.k \in {"pressed", "holding"} ->
                [x EXCEPT !.s = PushedBack(ProcessNormal(s, a, Press(e.src)), e, a),
                          !.upd = @ \/ how = "hold"]
         [] e.st.k = "released" -> [x EXCEPT !.s = ProcessTap(s, a, Press(e.src))]
         [] OTHER -> [x EXCEPT !.s = s]

FireTap(x, e) == LET s == Without(x.s, e.src)
                 IN IF IsMorse(e.ka) THEN FireAs(x, s, e, e.ka, "tap") ELSE [x EXCEPT !.s = s]

FireHold(x, e) == LET r == Relooked(Without(x.s, e.src), e)
                  IN IF IsMorse(r.ka) THEN FireAs(x, r.s, e, r.ka, "hold") ELSE [x EXCEPT !.s = r.s]

\* r is the released key's action as it is looked up now.
FireReleased(x, e, r) ==
    LET upd == x.upd \/ r.ka # e.ka
        p == Ended(e.st, "tap")
        final == TryPredictFinalAction(r.ka, p)
        deferred == e.st.k = "pressed" /\ IsAllTaps(p) /\ r.ka.prof.quick > 0
        a == CHOOSE y \in final : TRUE
    IN IF ~IsMorse(r.ka)
       THEN [s |-> FirePlain(r.s, r.ka, e.src), upd |-> upd, cur |-> "clean"]
       ELSE IF e.st.k \in {"pressed", "holding"} /\ final # {} /\ ~deferred
       THEN [s |-> PushedBack(ProcessNormal(r.s, a, Press(e.src)), e, a),
             upd |-> upd, cur |-> "clean"]
       ELSE [x EXCEPT !.s = Push(r.s, e), !.upd = upd]

FireRelease(x, e) == FireReleased(x, e, Relooked(Without(x.s, e.src), e))

FireNormal(x, e) ==
    LET gone == Without(x.s, e.src)
        r == IF x.upd THEN Relooked(gone, e) ELSE [s |-> gone, ka |-> e.ka]
    IN IF x.cur # "clean" THEN x
       ELSE IF IsMorse(r.ka) THEN [x EXCEPT !.s = [r.s EXCEPT !.panic = TRUE]]
       ELSE [x EXCEPT !.s = FirePlain(r.s, r.ka, e.src)]

Fire(x, d) ==
    IF ~InBuffer(x.s, d[1]) THEN x
    ELSE LET e == Entry(x.s, d[1])
         IN CASE d[2] = "tap" -> FireTap(x, e)
              [] d[2] = "hold" -> FireHold(x, e)
              [] d[2] = "release" -> FireRelease(x, e)
              [] d[2] = "normal" -> FireNormal(x, e)

-----------------------------------------------------------------------------
(* process_key_action *)

\* Early-fired keys of other positions leave: their tap was sent.
WithoutEarlyFired(s, src) ==
    [s EXCEPT !.buf = SelectSeq(@, LAMBDA e : e.st.k # "early" \/ e.src = src)]

\* Mutant: the entry the key resolved to stays.
FlowTap_KeepStale(s, ka, src) ==
    LET a == ActionFromPattern(ka, TAP)
    IN Push(ProcessNormal(s, a, Press(src)), HeldKey(src, ka, FlowTapped(a), Now, ka.prof.hold))

\* The tap is reported at once; a stale entry of the same key makes room for the new one.
FlowTap(s, ka, src) ==
    LET a == ActionFromPattern(ka, TAP)
    IN Push(Without(ProcessNormal(s, a, Press(src)), src),
            HeldKey(src, ka, FlowTapped(a), Now, ka.prof.hold))

\* The decision on the key of the event itself; a morse key that is to be buffered
\* continues the entry it may already have.
Conclude(cur, s, ka, ev, m) ==
    CASE cur = "buffer" /\ ~IsMorse(ka) -> Push(s, HeldKey(ev.src, ka, Pressed(Empty), m, 0))
      [] cur = "flowTap" /\ IsMorse(ka) /\ ka.prof.flow -> FlowTap(s, ka, ev.src)
      [] OTHER -> ProcessInner(s, ka, ev, m)

\* x: what the held keys have become; the key is looked up again when that may matter.
AfterHeldKeys(x, ka, ev, m) ==
    LET r == IF x.cur # "buffer" /\ x.upd /\ Physical(ev.src)
             THEN GetActionWithLayerCache(x.s, ev) ELSE [s |-> x.s, ka |-> ka]
    IN Conclude(x.cur, r.s, r.ka, ev, m)

FireHeldKeys(d, src) ==
    FoldLeft(Fire, [s |-> WithoutEarlyFired(d.s, src), upd |-> FALSE, cur |-> d.cur], d.ds)

ProcessKeyAction(s, ka, ev, m) ==
    AfterHeldKeys(FireHeldKeys(MakeDecisions(s, ka, ev), ev.src), ka, ev, m)
=============================================================================
