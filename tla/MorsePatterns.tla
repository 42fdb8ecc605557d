---------------------------- MODULE MorsePatterns ----------------------------
(***************************************************************************)
(* The bit patterns of Morse against the sequences of steps they stand for.   *)
(* The state is two such sequences, built step by step as the keyboard builds *)
(* its patterns; a step is "tap" or "hold".                                   *)
(***************************************************************************)
EXTENDS Morse, Sequences, SequencesExt

VARIABLES steps, other

Steps == {"tap", "hold"}

FollowedBy(p, x) == IF x = "tap" THEN FollowedByTap(p) ELSE FollowedByHold(p)

Encoded(s) ==
    LET code[i \in 0 .. Len(s)] == IF i = 0 THEN Empty ELSE FollowedBy(code[i - 1], s[i])
    IN code[Len(s)]

PatternsInit == steps = <<>> /\ other = <<>>

Extend == /\ Len(steps) < Width - 1
          /\ \E x \in Steps : steps' = Append(steps, x)
          /\ UNCHANGED other

ExtendOther == /\ Len(other) < Width - 1
               /\ \E x \in Steps : other' = Append(other, x)
               /\ UNCHANGED steps

PatternsNext == Extend \/ ExtendOther

-----------------------------------------------------------------------------

\* Up to Width - 1 steps the shifts lose nothing: length, fullness, last step and
\* "all taps" of the bit pattern (pattern_length, is_full, last_is_hold, is_all_taps)
\* are those of the sequence, and different sequences have different patterns.
EncodingIsFaithful ==
    LET p == Encoded(steps)
    IN /\ Length(p) = Len(steps)
       /\ IsFull(p) <=> Len(steps) = Width - 1
       /\ LastIsHold(p) <=> steps # <<>> /\ Last(steps) = "hold"
       /\ IsAllTaps(p) <=> steps # <<>> /\ "hold" \notin ToSet(steps)
       /\ p = Encoded(other) <=> steps = other

\* MorsePattern::starts_with is the prefix relation of the sequences.
StartsWithIsPrefix == StartsWith(Encoded(steps), Encoded(other)) <=> IsPrefix(other, steps)

Bare == [t |-> "morse", table |-> [p \in {Encoded(steps), Encoded(other)} |-> p]]

\* A prediction is final: try_predict_final_action answers for a configured pattern
\* exactly when no other configured pattern goes on from it.
PredictionIsFinal ==
    TryPredictFinalAction(Bare, Encoded(steps)) # {} <=> ~IsStrictPrefix(steps, other)

\* The bit patterns and the predictions made from them are those of the sequences of
\* steps (MorsePattern, try_predict_final_action).
PatternsAgree == EncodingIsFaithful /\ StartsWithIsPrefix /\ PredictionIsFinal

=============================================================================
