------------------------------ MODULE SmallParts ------------------------------
(***************************************************************************)
(* Parts of the firmware and of the host library that share no state with     *)
(* one another, side by side: a behaviour exercises one of them and leaves    *)
(* the others where they started.                                            *)
(***************************************************************************)
EXTENDS MorsePatterns, Debounce, Encoder, MouseKeys, AutoMouseLayer, Pages, Forks, MacroSaves

VARIABLE part

patterns == <<steps, other>>
parts == <<part, patterns, deb, enc, mouse, auto, read, write, fk, bank>>

Parts == {"patterns", "debounce", "encoder", "mouse", "auto", "read", "write",
          "forks", "bank"}

\* The part under test starts in any of its initial states, the others in one of theirs.
Starts(p, S) == IF part = p THEN S ELSE {CHOOSE s \in S : TRUE}

Init ==
    /\ part \in Parts
    /\ PatternsInit
    /\ deb \in Starts("debounce", DebounceStarts)
    /\ enc \in Starts("encoder", EncoderStarts)
    /\ mouse \in Starts("mouse", MouseStarts)
    /\ auto \in Starts("auto", AutoStarts)
    /\ read \in Starts("read", ReadStarts)
    /\ write \in Starts("write", WriteStarts)
    /\ fk \in Starts("forks", ForkStarts)
    /\ bank \in Starts("bank", BankStarts)

Next ==
    /\ UNCHANGED part
    /\ \/ part = "patterns" /\ PatternsNext
          /\ UNCHANGED <<deb, enc, mouse, auto, read, write, fk, bank>>
       \/ part = "debounce" /\ DebounceNext
          /\ UNCHANGED <<patterns, enc, mouse, auto, read, write, fk, bank>>
       \/ part = "encoder" /\ EncoderNext
          /\ UNCHANGED <<patterns, deb, mouse, auto, read, write, fk, bank>>
       \/ part = "mouse" /\ MouseNext
          /\ UNCHANGED <<patterns, deb, enc, auto, read, write, fk, bank>>
       \/ part = "auto" /\ AutoNext
          /\ UNCHANGED <<patterns, deb, enc, mouse, read, write, fk, bank>>
       \/ part = "read" /\ ReadNext
          /\ UNCHANGED <<patterns, deb, enc, mouse, auto, write, fk, bank>>
       \/ part = "write" /\ WriteNext
          /\ UNCHANGED <<patterns, deb, enc, mouse, auto, read, fk, bank>>
       \/ part = "forks" /\ ForksNext
          /\ UNCHANGED <<patterns, deb, enc, mouse, auto, read, write, bank>>
       \/ part = "bank" /\ BankNext
          /\ UNCHANGED <<patterns, deb, enc, mouse, auto, read, write, fk>>

\* The part under test is scheduled; the keys, the contact and the devices owe nothing.
Fairness ==
    /\ WF_deb(part = "debounce" /\ Scan)
    /\ WF_deb(part = "debounce" /\ WaitEnds)
    /\ WF_deb(part = "debounce" /\ Millisecond)
    /\ WF_mouse(part = "mouse" /\ FireRepeats)
    /\ WF_mouse(part = "mouse" /\ MouseTick)
    /\ WF_auto(part = "auto" /\ LayerChange)
    /\ WF_auto(part = "auto" /\ Deadline)
    /\ WF_auto(part = "auto" /\ AutoTick)

Spec == Init /\ [][Next]_parts /\ Fairness
=============================================================================
