-------------------------------- MODULE Morse --------------------------------
(***************************************************************************)
(* Tap/hold patterns and what a tap-hold or morse key makes of them         *)
(* (rmk-types/src/morse.rs and the pure helpers of keyboard/morse.rs).      *)
(*                                                                          *)
(* A pattern is the code's u16: a leading 1 marks the start, every step      *)
(* shifts in a 0 (tap) or a 1 (hold).  Width is the number of bits (16).     *)
(*                                                                          *)
(* A KeyAction is a record.  A tap-hold key carries its two actions, a morse  *)
(* key its table from patterns to actions; both carry the profile the code   *)
(* resolves for them from the per-key and the default profile:               *)
(*   mode   "normal", "permissive" or "holdOnOther"                          *)
(*   uni    unilateral tap          flow   flow tap                          *)
(*   hold, gap   timeouts in ticks  quick  quick-tap window, 0 for none      *)
(***************************************************************************)
EXTENDS Integers

CONSTANT Width

ASSUME PatternBits == Width \in Nat \ {0}

NoAction == [k |-> "no"]

-----------------------------------------------------------------------------
(* MorsePattern *)

Empty == 1
TAP == 2
HOLD == 3

FollowedByTap(p) == (2 * p) % 2^Width
FollowedByHold(p) == FollowedByTap(p) + 1

IsFull(p) == p >= 2^(Width - 1)

\* leading_zeros is Width - 1 - Length(p); the invalid pattern 0 has Width of them.
Length(p) == IF p = 0 THEN -1 ELSE CHOOSE n \in 0..(Width - 1) : 2^n <= p /\ p < 2^(n + 1)

StartsWith(p, q) == /\ Length(q) <= Length(p)
                    /\ p \div 2^(Length(p) - Length(q)) = q

LastIsHold(p) == p # Empty /\ p % 2 = 1

IsAllTaps(p) == p > 1 /\ \E n \in 1..(Width - 1) : p = 2^n

-----------------------------------------------------------------------------
(* KeyAction *)

IsMorse(ka) == ka.t \in {"taphold", "morse"}

\* The table of a morse key: Morse::get, LinearMap lookups.
Configured(ka, p) == p \in DOMAIN ka.table

HasPatternOrContinuation(ka, p) == \E q \in DOMAIN ka.table : StartsWith(q, p)

CanFireEarly(ka, p) == /\ Configured(ka, p)
                       /\ ~Configured(ka, FollowedByTap(p))
                       /\ Configured(ka, FollowedByHold(p))
                       /\ ka.table[FollowedByHold(p)] = ka.table[p]

\* action_from_pattern: what a pattern means once it is known to be over.
ActionFromPattern(ka, p) ==
    CASE ka.t = "taphold" /\ p = TAP  -> ka.tap
      [] ka.t = "taphold" /\ p = HOLD -> ka.hold
      [] ka.t = "morse" /\ Configured(ka, p) -> ka.table[p]
      [] OTHER -> NoAction

\* Mutant: a pattern is final as soon as it is configured.
Unextended_Here(ka, p) == Configured(ka, p)

\* No configured pattern goes on from p: the pattern is over.
Unextended(ka, p) == /\ Configured(ka, p)
                     /\ \A q \in DOMAIN ka.table \ {p} : ~StartsWith(q, p)

\* try_predict_final_action, as the set of the action it returns.
TryPredictFinalAction(ka, p) ==
    CASE ka.t = "taphold" -> {IF LastIsHold(p) THEN ka.hold ELSE ka.tap}
      [] ka.t = "morse" /\ Unextended(ka, p) -> {ka.table[p]}
      [] OTHER -> {}

\* check_early_fire
CheckEarlyFire(ka, p) ==
    IF ka.t = "morse" /\ CanFireEarly(ka, p) THEN {ka.table[p]} ELSE {}
=============================================================================
