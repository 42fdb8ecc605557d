------------------------------- MODULE Debounce -------------------------------
(***************************************************************************)
(* One key of the matrix: its contact, the scan (matrix.rs) and either        *)
(* debouncer (debounce/default_debouncer.rs, debounce/fast_debouncer.rs).     *)
(*                                                                           *)
(* The clock counts milliseconds modulo ClockWrap, the code's cast to u16.    *)
(* A scan takes no time, but other tasks may keep it from running in up to    *)
(* MaxSkips milliseconds.  With async_matrix the scan stops until some        *)
(* contact closes.  In deb:                                                   *)
(*   since    start of debouncing, 0 for None (NonZeroU16)                    *)
(*   differs  how long every scan has seen the contact differ, -1 if it does  *)
(*            not; gap, the time since the last report: both for properties   *)
(*   stale    since was left over from before the scan stopped                *)
(***************************************************************************)
EXTENDS Integers, FiniteSetsExt

CONSTANTS Threshold, ClockWrap, MaxSkips

ASSUME DebounceSizes ==
    Threshold \in Nat /\ MaxSkips \in Nat /\ ClockWrap \in Nat /\ ClockWrap > 1

VARIABLE deb

DebounceStarts ==
    {[fast |-> fast, async |-> async, contact |-> FALSE, clock |-> 0, pressed |-> FALSE,
               since |-> 0, waiting |-> FALSE, rescan |-> FALSE, scanned |-> FALSE, skips |-> 0,
               differs |-> -1, gap |-> Threshold + 1, atZero |-> FALSE, stale |-> FALSE] :
        fast \in BOOLEAN, async \in BOOLEAN}

Differs(d) == d.contact # d.pressed

Elapsed(d) == (d.clock - d.since) % ClockWrap

\* What a debouncer answers: its new start and whether the change counts.
Quiet(since) == [since |-> since, reported |-> FALSE]
Change(since) == [since |-> since, reported |-> TRUE]

\* Mutant: a change that bounces back leaves its time stamp.
DefaultDetect_NoReset(d) ==
    IF ~Differs(d) \/ d.clock = 0 THEN Quiet(d.since)
    ELSE IF d.since = 0 THEN Quiet(d.clock)
    ELSE IF Elapsed(d) >= Threshold THEN Change(0)
    ELSE Quiet(d.since)

DefaultDetect(d) ==
    IF ~Differs(d) THEN Quiet(0)
    ELSE IF d.clock = 0 THEN Quiet(d.since)
    ELSE IF d.since = 0 THEN Quiet(d.clock)
    ELSE IF Elapsed(d) >= Threshold THEN Change(0)
    ELSE Quiet(d.since)

FastDetect(d) ==
    CASE d.since # 0 /\ Elapsed(d) > Threshold -> Quiet(0)
      [] d.since = 0 /\ Differs(d) -> Change(Max({d.clock, 1}))
      [] OTHER -> Quiet(d.since)

Detect(d) == IF d.fast THEN FastDetect(d) ELSE DefaultDetect(d)

\* The scan reports a change and leaves in the middle of its pass.
Reported(d) == [d EXCEPT !.pressed = ~@, !.rescan = TRUE, !.differs = -1, !.gap = 0,
                         !.atZero = d.clock = 0]

\* The pass ends: with async_matrix the next one waits for a contact to close, unless a
\* change was reported in this one or the key is down.
PassEnds(d) ==
    [d EXCEPT !.waiting = d.async /\ ~d.rescan /\ ~d.pressed, !.rescan = FALSE]

Scan ==
    /\ ~deb.waiting
    /\ LET r == Detect(deb)
           d == [deb EXCEPT !.since = r.since, !.scanned = TRUE, !.stale = @ /\ r.since # 0,
                            !.differs = IF Differs(deb) THEN Max({@, 0}) ELSE -1]
       IN deb' = IF r.reported THEN Reported(d) ELSE PassEnds(d)

\* wait_for_key returns when an input pin is high.
WaitEnds == /\ deb.waiting /\ deb.contact
            /\ deb' = [deb EXCEPT !.waiting = FALSE]

Contact ==
    deb' = [deb EXCEPT !.contact = ~@,
                       !.stale = @ \/ (deb.waiting /\ deb.since # 0),
                       !.differs = IF deb.waiting THEN -1 ELSE @]

\* wait_for_key waits; a closed contact wakes it within the millisecond.
Sleeps(d) == d.waiting /\ ~d.contact

Millisecond ==
    /\ deb.scanned \/ Sleeps(deb) \/ deb.skips < MaxSkips
    /\ deb' = [deb EXCEPT !.clock = (@ + 1) % ClockWrap, !.scanned = FALSE,
                          !.skips = IF deb.scanned \/ Sleeps(deb) THEN @ ELSE @ + 1,
                          !.differs = IF @ = -1 THEN -1 ELSE Min({@ + 1, Threshold}),
                          !.gap = Min({@ + 1, Threshold + 1})]

DebounceNext == Scan \/ WaitEnds \/ Contact \/ Millisecond

-----------------------------------------------------------------------------

Reports == deb.pressed # deb'.pressed

\* The default debouncer reports a change only after every scan has seen it for the whole
\* threshold, across the wrap of the clock and the millisecond in which it reads 0; excused
\* is a start left over from before the scan stopped (DefaultDebouncer with async_matrix).
ChangeIsStable ==
    [][deb.fast \/ ~Reports \/ deb.stale \/ deb.differs = Threshold]_deb

\* The fast debouncer keeps two reports of a key more than the threshold apart; excused is
\* a report in the millisecond in which the clock reads 0, whose start is stored as 1.
ReportsAreApart == [][deb.fast /\ Reports => deb.gap > Threshold \/ deb.atZero]_deb

\* A contact that stays closed or open is reported, however the debouncer, the wrapping
\* clock and the sleeping scan meet.
FollowsContact == Differs(deb) ~> ~Differs(deb)

\* Changes are reported when the contact is stable, not too close, and in the end (both
\* debouncers).
DebouncedRight == ChangeIsStable /\ ReportsAreApart /\ FollowsContact

=============================================================================
