------------------------------- MODULE Encoder -------------------------------
(***************************************************************************)
(* A rotary encoder (input_device/rotary_encoder.rs): its two pins sampled,   *)
(* the phase that makes steps of the edges, the debounce interval and the     *)
(* press and release events.                                                  *)
(*                                                                           *)
(* enc.knob is the true position within a turn of four quarter steps.  The     *)
(* pins go round 0, 1, 3, 2 (bit 0: A is low, bit 1: B is low) as it turns     *)
(* counterclockwise.  ahead is the way the knob went since the last sample; a  *)
(* sample is missed by at most one edge.  due, for the property, is the part   *)
(* of the turn that samples have seen and no step has accounted for.           *)
(***************************************************************************)
EXTENDS Integers, Sequences

CONSTANTS Phases,           \* [kind, resolution, reverse]: "default" or "resolution"
          EncoderDebounce   \* debounce interval in milliseconds

\* The code compares the pulses, an i8, with the resolution cast to i8.
ASSUME EncoderPhases ==
    /\ Phases # {} /\ EncoderDebounce \in Nat
    /\ Phases \subseteq [kind : {"default", "resolution"}, resolution : 1..127, reverse : BOOLEAN]

VARIABLE enc

NoState == -1
Gray == <<0, 1, 3, 2>>
Pins(knob) == Gray[knob + 1]

\* with_phase
EncoderStarts ==
    {[phase |-> p, knob |-> start, state |-> NoState, pulses |-> 0, last |-> 0,
               quiet |-> 0, ahead |-> 0, due |-> 0] :
        p \in Phases, start \in 0..3}

Lut == <<0, -1, 1, 0, 1, 0, 0, -1, -1, 0, 0, 1, 0, 1, -1, 0>>

\* s of update: the new pins in bits 2 and 3, the old state in bits 0 and 1.
Transition(old, new) == 4 * new + old

\* DefaultPhase::direction; 1 is counterclockwise.
DefaultDirection(s) ==
    CASE s \in {1, 7, 8, 14} -> -1
      [] s \in {2, 4, 11, 13} -> 1
      [] OTHER -> 0

\* ResolutionPhase::direction adds a pulse and takes a step when they reach the resolution.
Pulses(e, s) == e.pulses + (IF e.phase.reverse THEN -1 ELSE 1) * Lut[s + 1]

ResolutionDirection(e, s) ==
    CASE Pulses(e, s) >= e.phase.resolution -> 1
      [] Pulses(e, s) <= -e.phase.resolution -> -1
      [] OTHER -> 0

Direction(e, s) == IF e.phase.kind = "default" THEN DefaultDirection(s) ELSE ResolutionDirection(e, s)

\* The remainder keeps its sign; one pulse at a time it is 0.
Kept(e, s) ==
    IF e.phase.kind = "default" THEN 0
    ELSE IF Direction(e, s) = 0 THEN Pulses(e, s)
    ELSE Pulses(e, s) - Direction(e, s) * e.phase.resolution

Sampled(e) == [e EXCEPT !.state = Pins(e.knob), !.ahead = 0]

\* Quarter steps that a step in direction d stands for, in the sense of the knob.
PerStep(e, d) ==
    IF e.phase.kind = "default" THEN d
    ELSE IF e.phase.reverse THEN -d * e.phase.resolution ELSE d * e.phase.resolution

\* Mutant: the first edge counts as a move.
Baseline_AsMove(e) ==
    LET s == Transition(0, Pins(e.knob))
    IN [Sampled(e) EXCEPT !.pulses = Kept(e, s), !.due = -PerStep(e, Direction(e, s))]

\* The first sample only sets the state.
Baseline(e) == Sampled(e)

FirstSample == enc.state = NoState /\ enc' = Baseline(enc)

\* An edge is an edge of the knob; two at once cannot be told from none.
Stepped(e, s) ==
    LET d == Direction(e, s)
        f == [Sampled(e) EXCEPT !.pulses = Kept(e, s),
                                !.due = @ + (IF e.ahead \in -1..1 THEN e.ahead ELSE 0) - PerStep(e, d)]
    IN IF d # 0 /\ e.quiet = 0 THEN [f EXCEPT !.last = d, !.quiet = EncoderDebounce] ELSE f

\* read_keyboard_event: a sample that makes a step is a press event, unless it comes within
\* the debounce interval of the last one. A pin that cannot be read ends update() before it
\* stores the state: such a call is no sample.
Sample == /\ enc.state # NoState /\ enc.last = 0
          /\ enc' = Stepped(enc, Transition(enc.state, Pins(enc.knob)))

\* The release event comes a millisecond after the press, without a sample in between.
Release == enc.last # 0 /\ enc' = [enc EXCEPT !.last = 0]

EncoderTick == enc.quiet > 0 /\ enc' = [enc EXCEPT !.quiet = @ - 1]

Turn == \E by \in {-1, 1} : /\ enc.ahead + by \in -2..2
                            /\ enc' = [enc EXCEPT !.knob = (@ + by) % 4, !.ahead = @ + by]

EncoderNext == FirstSample \/ Sample \/ Release \/ EncoderTick \/ Turn

-----------------------------------------------------------------------------

\* Steps account for the turn: after any turning back and forth the steps reported or
\* suppressed (ResolutionPhase, DefaultPhase, debounce_check) stand for all the edges that
\* samples saw but for the pulses kept, and the first sample counts for none.
StepsAccountForTurn ==
    enc.due = (IF enc.phase.reverse THEN -1 ELSE 1) * enc.pulses
=============================================================================
