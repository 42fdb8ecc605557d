-------------------------- MODULE SmallPartsProofs --------------------------
(***************************************************************************)
(* TLAPS proofs about the parts of SmallParts: the encoder, the saved      *)
(* macros, the debouncers, the auto mouse layer, the mouse keys, the forks *)
(* and the macros they play, the morse patterns, and the pages a host      *)
(* reads and writes, each for any values of its constants.                 *)
(***************************************************************************)
EXTENDS SmallParts, FiniteSetTheorems, SequenceTheorems, WellFoundedInduction, TLAPS

-----------------------------------------------------------------------------
(* Two numbers.                                                            *)

LEMMA GreaterOfTwo ==
    ASSUME NEW a \in Int, NEW b \in Int
    PROVE  Max({a, b}) = IF a >= b THEN a ELSE b
<1> DEFINE m == IF a >= b THEN a ELSE b
<1>1. m \in {a, b} /\ \A y \in {a, b} : m >= y
  OBVIOUS
<1>2. \A x \in {a, b} : (\A y \in {a, b} : x >= y) => x = m
  OBVIOUS
<1> QED
  BY <1>1, <1>2 DEF Max

LEMMA LesserOfTwo ==
    ASSUME NEW a \in Int, NEW b \in Int
    PROVE  Min({a, b}) = IF a <= b THEN a ELSE b
<1> DEFINE m == IF a <= b THEN a ELSE b
<1>1. m \in {a, b} /\ \A y \in {a, b} : m <= y
  OBVIOUS
<1>2. \A x \in {a, b} : (\A y \in {a, b} : x <= y) => x = m
  OBVIOUS
<1> QED
  BY <1>1, <1>2 DEF Min

-----------------------------------------------------------------------------
(* The encoder.                                                            *)

Ways == {-1, 0, 1}

\* Where the knob was when it was sampled last.
Was(k, a) == IF k - a > 3 THEN k - a - 4 ELSE IF k - a < 0 THEN k - a + 4 ELSE k - a

EncoderTypes ==
    enc \in [phase : Phases, knob : 0 .. 3, state : -1 .. 3, pulses : Int, last : Ways,
             quiet : Nat, ahead : -2 .. 2, due : Int]

\* The pins that were sampled last are those of the place the knob left since; the pulses kept
\* are less than a step.
EncoderInv ==
    /\ EncoderTypes
    /\ IF enc.phase.kind = "default" THEN enc.pulses = 0
       ELSE - enc.phase.resolution < enc.pulses /\ enc.pulses < enc.phase.resolution
    /\ enc.state # NoState => enc.state = Pins(Was(enc.knob, enc.ahead))
    /\ enc.state = NoState => enc.pulses = 0 /\ enc.due = 0
    /\ StepsAccountForTurn

LEMMA PinValues ==
    /\ Pins(0) = 0 /\ Pins(1) = 1 /\ Pins(2) = 3 /\ Pins(3) = 2
    /\ \A k \in 0 .. 3 : Pins(k) \in 0 .. 3
<1>1. Pins(0) = 0 /\ Pins(1) = 1 /\ Pins(2) = 3 /\ Pins(3) = 2
  BY DEF Pins, Gray
<1>2. \A k \in 0 .. 3 : k = 0 \/ k = 1 \/ k = 2 \/ k = 3
  OBVIOUS
<1> QED
  BY <1>1, <1>2

LEMMA LutValues ==
    /\ Lut[1] = 0  /\ Lut[2] = -1  /\ Lut[3] = 1  /\ Lut[4] = 0
    /\ Lut[5] = 1  /\ Lut[6] = 0   /\ Lut[7] = 0  /\ Lut[8] = -1
    /\ Lut[9] = -1 /\ Lut[10] = 0  /\ Lut[11] = 0 /\ Lut[12] = 1
    /\ Lut[13] = 0 /\ Lut[14] = 1  /\ Lut[15] = -1 /\ Lut[16] = 0
BY DEF Lut

\* The edge since the last sample: its way, or none when there was none or there were two.
Edge(a) == IF a \in Ways THEN a ELSE 0

\* Both phases tell the way of an edge, by table and by cases.
LEMMA Edges ==
    ASSUME NEW k \in 0 .. 3, NEW a \in -2 .. 2
    PROVE  LET s == Transition(Pins(Was(k, a)), Pins(k))
           IN  Lut[s + 1] = Edge(a) /\ DefaultDirection(s) = Edge(a)
<1> DEFINE s == Transition(Pins(Was(k, a)), Pins(k))
<1>1. k = 0 \/ k = 1 \/ k = 2 \/ k = 3
  OBVIOUS
<1>2. a = -2 \/ a = -1 \/ a = 0 \/ a = 1 \/ a = 2
  OBVIOUS
<1>3. CASE k = 0
  <2>1. s = IF a = -2 THEN 3 ELSE IF a = -1 THEN 1 ELSE IF a = 0 THEN 0 ELSE IF a = 1 THEN 2 ELSE 3
    BY <1>2, <1>3, PinValues DEF Was, Transition
  <2> QED
    BY <1>2, <2>1, LutValues DEF Edge, Ways, DefaultDirection
<1>4. CASE k = 1
  <2>1. s = IF a = -2 THEN 6 ELSE IF a = -1 THEN 7 ELSE IF a = 0 THEN 5 ELSE IF a = 1 THEN 4 ELSE 6
    BY <1>2, <1>4, PinValues DEF Was, Transition
  <2> QED
    BY <1>2, <2>1, LutValues DEF Edge, Ways, DefaultDirection
<1>5. CASE k = 2
  <2>1. s = IF a = -2 THEN 12 ELSE IF a = -1 THEN 14 ELSE IF a = 0 THEN 15 ELSE IF a = 1 THEN 13 ELSE 12
    BY <1>2, <1>5, PinValues DEF Was, Transition
  <2> QED
    BY <1>2, <2>1, LutValues DEF Edge, Ways, DefaultDirection
<1>6. CASE k = 3
  <2>1. s = IF a = -2 THEN 9 ELSE IF a = -1 THEN 8 ELSE IF a = 0 THEN 10 ELSE IF a = 1 THEN 11 ELSE 9
    BY <1>2, <1>6, PinValues DEF Was, Transition
  <2> QED
    BY <1>2, <2>1, LutValues DEF Edge, Ways, DefaultDirection
<1> QED
  BY <1>1, <1>3, <1>4, <1>5, <1>6

\* A turn of the knob moves it away from where it was.
LEMMA Turned ==
    ASSUME NEW k \in 0 .. 3, NEW a \in -2 .. 2, NEW by \in {-1, 1}, a + by \in -2 .. 2
    PROVE  /\ (k + by) % 4 \in 0 .. 3 /\ Was((k + by) % 4, a + by) = Was(k, a)
<1>1. k = 0 \/ k = 1 \/ k = 2 \/ k = 3
  OBVIOUS
<1>2. (k + 1) % 4 = (IF k = 3 THEN 0 ELSE k + 1) /\ (k + (-1)) % 4 = (IF k = 0 THEN 3 ELSE k - 1)
  BY <1>1
<1>3. by = 1 \/ by = -1
  OBVIOUS
<1> QED
  BY <1>1, <1>2, <1>3 DEF Was

LEMMA SampleStep ==
    ASSUME EncoderInv, Sample
    PROVE  EncoderInv'
<1> DEFINE s == Transition(enc.state, Pins(enc.knob))
           w == Edge(enc.ahead)
           d == Direction(enc, s)
           r == enc.phase.resolution
           p == Kept(enc, s)
           f == [Sampled(enc) EXCEPT !.pulses = p, !.due = enc.due + w - PerStep(enc, d)]
<1>1. /\ EncoderTypes /\ enc.phase \in Phases /\ enc.knob \in 0 .. 3 /\ enc.ahead \in -2 .. 2
      /\ enc.pulses \in Int /\ enc.due \in Int /\ enc.quiet \in Nat /\ enc.last \in Ways
  BY DEF EncoderInv, EncoderTypes
<1>2. Lut[s + 1] = w /\ DefaultDirection(s) = w
  BY <1>1, Edges DEF EncoderInv, Sample
<1>3. w \in Ways
  BY DEF Edge, Ways
<1>4. r \in Nat /\ r >= 1 /\ enc.phase.kind \in {"default", "resolution"}
  BY <1>1, EncoderPhases
<1>5. d \in Ways
  BY <1>2, <1>3 DEF Direction, ResolutionDirection, Ways
<1>6. /\ p \in Int /\ PerStep(enc, d) \in Int
      /\ w - PerStep(enc, d) = IF enc.phase.reverse THEN enc.pulses - p ELSE p - enc.pulses
      /\ IF enc.phase.kind = "default" THEN p = 0 ELSE - r < p /\ p < r
  <2>1. CASE enc.phase.kind = "default"
    <3>1. d = w /\ p = 0 /\ PerStep(enc, d) = w /\ enc.pulses = 0
      <4>1. enc.pulses = 0
        BY <2>1 DEF EncoderInv
      <4>2. d = w
        BY <1>2, <2>1 DEF Direction
      <4>3. p = 0
        BY <2>1 DEF Kept
      <4>4. PerStep(enc, d) = d
        BY <2>1 DEF PerStep
      <4> QED
        BY <4>1, <4>2, <4>3, <4>4
    <3> HIDE DEF w, d, p
    <3> QED
      BY <1>3, <2>1, <3>1 DEF Ways
  <2>2. CASE enc.phase.kind # "default"
    <3> DEFINE t == IF enc.phase.reverse THEN - w ELSE w
               n == enc.pulses + t
    <3>1. - r < enc.pulses /\ enc.pulses < r
      BY <2>2 DEF EncoderInv
    <3>2. Pulses(enc, s) = n
      BY <1>1, <1>2, <1>3 DEF Pulses, Ways
    <3>6. t \in Ways /\ n \in Int /\ - r - 1 < n /\ n < r + 1
      BY <1>1, <1>3, <1>4, <3>1 DEF Ways
    <3>3. d = IF n >= r THEN 1 ELSE IF n <= - r THEN -1 ELSE 0
      <4>1. d = ResolutionDirection(enc, s)
        BY <2>2 DEF Direction
      <4>2. ResolutionDirection(enc, s) = CASE n >= r -> 1 [] n <= - r -> -1 [] OTHER -> 0
        BY <3>2 DEF ResolutionDirection
      <4>3. ~ (n >= r /\ n <= - r)
        BY <1>4, <3>6
      <4> HIDE DEF d, n, r
      <4> QED
        BY <4>1, <4>2, <4>3
    <3>4. p = IF d = 0 THEN n ELSE n - d * r
      BY <2>2, <3>2 DEF Kept
    <3>5. PerStep(enc, d) = IF enc.phase.reverse THEN - d * r ELSE d * r
      BY <2>2 DEF PerStep
    <3>7. p \in Int /\ PerStep(enc, d) \in Int /\ - r < p /\ p < r
      <4> HIDE DEF d, p, n, t, r
      <4>1. CASE d = 1
        BY <1>1, <1>4, <3>3, <3>4, <3>5, <3>6, <4>1 DEF n
      <4>2. CASE d = -1
        BY <1>1, <1>4, <3>3, <3>4, <3>5, <3>6, <4>2 DEF n
      <4>3. CASE d = 0
        BY <1>1, <1>4, <3>3, <3>4, <3>5, <3>6, <4>3 DEF n
      <4> QED
        BY <1>5, <4>1, <4>2, <4>3 DEF Ways
    <3>8. n - p = IF enc.phase.reverse THEN - PerStep(enc, d) ELSE PerStep(enc, d)
      <4> HIDE DEF d, p, n, t, r
      <4>1. CASE d = 1
        BY <1>4, <3>4, <3>5, <3>6, <4>1
      <4>2. CASE d = -1
        BY <1>4, <3>4, <3>5, <3>6, <4>2
      <4>3. CASE d = 0
        BY <1>4, <3>4, <3>5, <3>6, <4>3
      <4> QED
        BY <1>5, <4>1, <4>2, <4>3 DEF Ways
    <3>9. w - PerStep(enc, d) = IF enc.phase.reverse THEN enc.pulses - p ELSE p - enc.pulses
      <4> HIDE DEF d, p, n, w, r
      <4>1. CASE enc.phase.reverse
        BY <1>1, <1>3, <3>6, <3>7, <3>8, <4>1 DEF Ways, n
      <4>2. CASE ~ enc.phase.reverse
        BY <1>1, <1>3, <3>6, <3>7, <3>8, <4>2 DEF Ways, n
      <4> QED
        BY <4>1, <4>2
    <3> QED
      BY <2>2, <3>7, <3>9
  <2> QED
    BY <2>1, <2>2
<1>7. enc' = (IF d # 0 /\ enc.quiet = 0 THEN [f EXCEPT !.last = d, !.quiet = EncoderDebounce] ELSE f)
  BY <1>1 DEF Sample, Stepped, Edge, Ways, EncoderTypes, Sampled
<1>8. Pins(enc.knob) \in 0 .. 3 /\ Was(enc.knob, 0) = enc.knob /\ EncoderDebounce \in Nat
  BY <1>1, PinValues, EncoderPhases DEF Was
<1>9. enc.due + w - PerStep(enc, d) \in Int
  BY <1>1, <1>3, <1>6 DEF Ways
<1> DEFINE g == enc.due + w - PerStep(enc, d)
           Enc == [phase : Phases, knob : 0 .. 3, state : -1 .. 3, pulses : Int, last : Ways,
                   quiet : Nat, ahead : -2 .. 2, due : Int]
<1>10. f = [[enc EXCEPT !.state = Pins(enc.knob), !.ahead = 0] EXCEPT !.pulses = p, !.due = g]
  BY DEF Sampled
<1> HIDE DEF s, w, d, p, g
<1>11. /\ f \in Enc /\ f.phase = enc.phase /\ f.knob = enc.knob /\ f.state = Pins(enc.knob)
       /\ f.pulses = p /\ f.ahead = 0 /\ f.due = g
  <2>1. g \in Int /\ p \in Int /\ Pins(enc.knob) \in -1 .. 3 /\ 0 \in -2 .. 2
    BY <1>6, <1>8, <1>9 DEF g
  <2> QED
    BY <1>1, <1>10, <2>1 DEF EncoderTypes
<1> HIDE DEF f
<1>12. /\ enc' \in Enc /\ enc'.phase = enc.phase /\ enc'.knob = enc.knob
       /\ enc'.state = Pins(enc.knob) /\ enc'.pulses = p /\ enc'.ahead = 0 /\ enc'.due = g
  BY <1>5, <1>7, <1>8, <1>11
<1>13. g = (IF enc.phase.reverse THEN -1 ELSE 1) * p
  <2>1. enc.due = (IF enc.phase.reverse THEN -1 ELSE 1) * enc.pulses
    BY DEF EncoderInv, StepsAccountForTurn
  <2> QED
    BY <1>1, <1>3, <1>6, <2>1 DEF Ways, g
<1>14. enc'.state # NoState
  BY <1>8, <1>12 DEF NoState
<1>15. EncoderTypes' /\ StepsAccountForTurn'
  BY <1>12, <1>13 DEF EncoderTypes, StepsAccountForTurn
<1>16. IF enc'.phase.kind = "default" THEN enc'.pulses = 0
       ELSE - enc'.phase.resolution < enc'.pulses /\ enc'.pulses < enc'.phase.resolution
  BY <1>6, <1>12
<1>17. enc'.state = Pins(Was(enc'.knob, enc'.ahead))
  BY <1>8, <1>12
<1> QED
  BY <1>14, <1>15, <1>16, <1>17 DEF EncoderInv

LEMMA EncoderStep ==
    ASSUME EncoderInv, EncoderNext
    PROVE  EncoderInv'
<1>1. /\ EncoderTypes /\ enc.knob \in 0 .. 3 /\ enc.ahead \in -2 .. 2 /\ enc.quiet \in Nat
  BY DEF EncoderInv, EncoderTypes
<1>2. CASE FirstSample
  <2>1. enc.state = NoState /\ enc' = [enc EXCEPT !.state = Pins(enc.knob), !.ahead = 0]
    BY <1>2 DEF FirstSample, Baseline, Sampled
  <2>2. Pins(enc.knob) \in 0 .. 3 /\ Was(enc.knob, 0) = enc.knob
    BY <1>1, PinValues DEF Was
  <2>3. /\ enc'.phase = enc.phase /\ enc'.pulses = enc.pulses /\ enc'.due = enc.due
        /\ enc'.knob = enc.knob /\ enc'.state = Pins(enc.knob) /\ enc'.ahead = 0
    BY <2>1 DEF EncoderInv, EncoderTypes
  <2>4. EncoderTypes'
    <3>1. Pins(enc.knob) \in -1 .. 3 /\ 0 \in -2 .. 2
      BY <2>2
    <3> QED
      BY <1>1, <2>1, <3>1 DEF EncoderTypes
  <2>5. StepsAccountForTurn'
    BY <2>3 DEF EncoderInv, StepsAccountForTurn
  <2>6. enc'.state # NoState /\ enc'.state = Pins(Was(enc'.knob, enc'.ahead))
    BY <2>2, <2>3 DEF NoState
  <2> QED
    BY <2>3, <2>4, <2>5, <2>6 DEF EncoderInv
<1>3. CASE Release
  BY <1>3 DEF Release, EncoderInv, EncoderTypes, StepsAccountForTurn, Ways
<1>4. CASE EncoderTick
  <2>1. enc.quiet - 1 \in Nat /\ enc' = [enc EXCEPT !.quiet = enc.quiet - 1]
    BY <1>1, <1>4 DEF EncoderTick
  <2> QED
    BY <2>1 DEF EncoderInv, EncoderTypes, StepsAccountForTurn
<1>5. CASE Turn
  <2>1. PICK by \in {-1, 1} :
          /\ enc.ahead + by \in -2 .. 2
          /\ enc' = [enc EXCEPT !.knob = (enc.knob + by) % 4, !.ahead = enc.ahead + by]
    BY <1>5 DEF Turn
  <2>2. (enc.knob + by) % 4 \in 0 .. 3
        /\ Was((enc.knob + by) % 4, enc.ahead + by) = Was(enc.knob, enc.ahead)
    BY <1>1, <2>1, Turned
  <2>3. PICK k \in 0 .. 3 : k = (enc.knob + by) % 4
    BY <2>2
  <2>4. enc' = [enc EXCEPT !.knob = k, !.ahead = enc.ahead + by]
        /\ Was(k, enc.ahead + by) = Was(enc.knob, enc.ahead)
    BY <2>1, <2>2, <2>3
  <2> QED
    BY <2>1, <2>4 DEF EncoderInv, EncoderTypes, StepsAccountForTurn
<1> QED
  BY <1>2, <1>3, <1>4, <1>5, SampleStep DEF EncoderNext
-----------------------------------------------------------------------------
(* The saved macros.                                                       *)

Stored == Nat \union {NotStored}
Job    == [on : BOOLEAN, left : SUBSET Chunks, first : BOOLEAN]

BankType == [ram : [Chunks -> Nat], flash : [Chunks -> Stored], stored : BOOLEAN,
             job : [Editors -> Job], stale : SUBSET Chunks, edits : Nat]
BankTypes == bank \in BankType

\* Chunk 0 goes to flash first: while a first save has it to write it has all to write, and
\* without it flash is empty.
ZeroFirst ==
    /\ \A e \in Editors :
         /\ ~ bank.job[e].on => bank.job[e].left = {}
         /\ bank.job[e].on => bank.flash[0] # NotStored
                              \/ (bank.job[e].first /\ bank.job[e].left = Chunks)
    /\ \A c \in Chunks : bank.flash[c] # NotStored => bank.flash[0] # NotStored
    /\ bank.stored => bank.flash[0] # NotStored

\* Where a chunk comes from at the next boot; a first save does not write what it finds empty.
ChunkIsRight(c) ==
    IF bank.flash[c] # NotStored
    THEN \/ bank.flash[c] = bank.ram[c]
         \/ \E e \in Editors : ~ bank.job[e].first /\ c \in bank.job[e].left
    ELSE \/ \E e \in Editors : c \in bank.job[e].left
         \/ bank.flash[0] # NotStored /\ bank.ram[c] = 0
         \/ bank.flash[0] = NotStored /\ bank.ram[c] = ChunkDefaults[c]

BankInv ==
    /\ BankTypes
    /\ ZeroFirst
    /\ \A c \in Chunks \ bank.stale : ChunkIsRight(c)

LEMMA LeastChunk ==
    ASSUME NEW S, S \subseteq Nat, S # {}
    PROVE  Min(S) \in S /\ \A x \in S : Min(S) <= x
<1>1. \E x \in S : \A y \in S : x <= y
  <2> DEFINE R == OpToRel(<, Nat)
  <2>1. IsWellFoundedOn(R, Nat)
    BY NatLessThanWellFounded
  <2>2. \A x, y \in Nat : x < y => <<x, y>> \in R
    BY DEF OpToRel
  <2> HIDE DEF R
  <2>3. PICK x \in S : \A y \in S : ~ (<<y, x>> \in R)
    BY <2>1, WFMin
  <2>4. ASSUME NEW y \in S PROVE x <= y
    <3>1. x \in Nat /\ y \in Nat
      OBVIOUS
    <3>2. ~ (y < x)
      BY <2>2, <2>3, <3>1
    <3> QED
      BY <3>1, <3>2
  <2> QED
    BY <2>4
<1> QED
  BY <1>1 DEF Min

\* A boot with flash that has chunk 0 or nothing.
LEMMA BootedFacts ==
    ASSUME NEW flash \in [Chunks -> Stored], NEW n \in Nat, NEW b, b = Booted(flash, n),
           \A c \in Chunks : flash[c] # NotStored => flash[0] # NotStored
    PROVE  /\ b \in BankType /\ b.flash = flash /\ b.stale = {}
           /\ b.stored => flash[0] # NotStored
           /\ \A e \in Editors : ~ b.job[e].on /\ b.job[e].left = {}
           /\ \A c \in Chunks :
                 \/ flash[c] # NotStored /\ b.ram[c] = flash[c]
                 \/ flash[c] = NotStored /\ flash[0] # NotStored /\ b.ram[c] = 0
                 \/ flash[c] = NotStored /\ flash[0] = NotStored /\ b.ram[c] = ChunkDefaults[c]
<1> DEFINE some == \E c \in Chunks : flash[c] # NotStored
<1>1. /\ b.ram = BootedMacros(flash) /\ b.flash = flash /\ b.stored = some
      /\ b.job = [e \in Editors |-> NoJob] /\ b.stale = {} /\ b.edits = n
      /\ b = [ram |-> BootedMacros(flash), flash |-> flash, stored |-> some,
              job |-> [e \in Editors |-> NoJob], stale |-> {}, edits |-> n]
  BY DEF Booted
<1>2. \A c \in Chunks :
         BootedMacros(flash)[c] = IF ~ some THEN ChunkDefaults[c]
                                  ELSE IF flash[c] = NotStored THEN 0 ELSE flash[c]
  BY DEF BootedMacros
<1>3. BootedMacros(flash) \in [Chunks -> Nat]
  BY MacroChunks DEF BootedMacros, Stored
<1>4. [e \in Editors |-> NoJob] \in [Editors -> Job]
  BY DEF NoJob, Job
<1>5. b \in BankType
  <2>1. some \in BOOLEAN
    OBVIOUS
  <2> HIDE DEF some
  <2> QED
    BY <1>1, <1>3, <1>4, <2>1 DEF BankType
<1>6. \A e \in Editors : ~ b.job[e].on /\ b.job[e].left = {}
  BY <1>1 DEF NoJob
<1>7. some <=> flash[0] # NotStored
  BY MacroChunks
<1> HIDE DEF some
<1> QED
  BY <1>1, <1>2, <1>5, <1>6, <1>7

LEMMA BankFields ==
    ASSUME BankInv
    PROVE  /\ bank.ram \in [Chunks -> Nat] /\ bank.flash \in [Chunks -> Stored]
           /\ bank.stored \in BOOLEAN /\ bank.job \in [Editors -> Job]
           /\ bank.stale \in SUBSET Chunks /\ bank.edits \in Nat
           /\ 0 \in Chunks /\ Chunks \subseteq Nat
BY MacroChunks DEF BankInv, BankTypes, BankType

\* An edit changes the buffer and starts a save.
LEMMA EditIsSound ==
    ASSUME BankInv, NEW e \in Editors, NEW edit \in ChunkEdits, Edit(e, edit)
    PROVE  BankInv'
<1> DEFINE changed == {c \in DOMAIN edit : bank.ram[c] # edit[c]}
           left == IF ~ bank.stored THEN Chunks ELSE IF changed = {} THEN {} ELSE DOMAIN edit
           ram == [c \in Chunks |-> IF c \in DOMAIN edit THEN edit[c] ELSE bank.ram[c]]
           job == [on |-> TRUE, left |-> left, first |-> ~ bank.stored]
           stale == bank.stale \union {c \in left : ~ bank.stored /\ bank.flash[c] # NotStored}
<1>1. edit \in [DOMAIN edit -> Nat] /\ DOMAIN edit \subseteq Chunks
  BY MacroChunks
<1>2. left \subseteq Chunks /\ stale \subseteq Chunks /\ ram \in [Chunks -> Nat]
  BY <1>1, BankFields
<1>3. job \in Job
  <2>1. left \in SUBSET Chunks /\ (~ bank.stored) \in BOOLEAN
    BY <1>2
  <2> HIDE DEF left
  <2> QED
    BY <2>1 DEF Job
<1>4. /\ ~ bank.job[e].on
      /\ bank' = [bank EXCEPT !.ram = ram, !.job[e] = job, !.stale = stale, !.edits = bank.edits + 1]
  BY DEF Edit
<1>5. job.on /\ job.left = left /\ job.first = ~ bank.stored
  OBVIOUS
<1>6. ~ bank.stored => left = Chunks /\ \A c \in Chunks \ stale : bank.flash[c] = NotStored
  OBVIOUS
<1>7. bank.stored => \A c \in Chunks \ left : ram[c] = bank.ram[c]
  BY <1>1
<1>a. stale = bank.stale \/ ~ bank.stored
  OBVIOUS
<1>8. \A c \in Chunks \ stale : c \notin bank.stale
  OBVIOUS
<1> HIDE DEF left, ram, job, stale
<1>9. /\ bank'.ram = ram /\ bank'.flash = bank.flash /\ bank'.stored = bank.stored
      /\ bank'.stale = stale /\ bank'.edits = bank.edits + 1
      /\ bank'.job = [bank.job EXCEPT ![e] = job]
      /\ BankTypes'
  <2>1. bank.edits + 1 \in Nat
    BY BankFields
  <2> DEFINE n == bank.edits + 1
  <2>2. bank' = [bank EXCEPT !.ram = ram, !.job[e] = job, !.stale = stale, !.edits = n] /\ n \in Nat
    BY <1>4, <2>1
  <2> HIDE DEF n
  <2>3. /\ bank'.ram = ram /\ bank'.flash = bank.flash /\ bank'.stored = bank.stored
        /\ bank'.stale = stale /\ bank'.edits = n
        /\ bank'.job = [bank.job EXCEPT ![e] = job]
        /\ BankTypes'
    BY <1>2, <1>3, <2>2 DEF BankInv, BankTypes, BankType
  <2> QED
    BY <2>3 DEF n
<1>10. \A f \in Editors : bank'.job[f] = IF f = e THEN job ELSE bank.job[f]
  BY <1>9, BankFields
<1>11. ZeroFirst'
  <2>1. ASSUME NEW f \in Editors
        PROVE  /\ ~ bank'.job[f].on => bank'.job[f].left = {}
               /\ bank'.job[f].on => bank'.flash[0] # NotStored
                                     \/ (bank'.job[f].first /\ bank'.job[f].left = Chunks)
    <3>1. CASE f # e
      BY <1>9, <1>10, <3>1 DEF BankInv, ZeroFirst
    <3>2. CASE f = e /\ bank.stored
      BY <1>5, <1>9, <1>10, <3>2 DEF BankInv, ZeroFirst
    <3>3. CASE f = e /\ ~ bank.stored
      BY <1>5, <1>6, <1>10, <3>3
    <3> QED
      BY <3>1, <3>2, <3>3
  <2> QED
    BY <1>9, <2>1 DEF BankInv, ZeroFirst
<1>12. ASSUME NEW c \in Chunks \ stale PROVE ChunkIsRight(c)'
  <2>1. CASE ~ bank.stored
    <3>1. bank'.flash[c] = NotStored /\ c \in bank'.job[e].left
      BY <1>5, <1>6, <1>9, <1>10, <2>1
    <3> QED
      BY <3>1 DEF ChunkIsRight
  <2>2. CASE bank.stored /\ c \in left
    <3>1. c \in bank'.job[e].left /\ ~ bank'.job[e].first
      BY <1>5, <1>10, <2>2
    <3> QED
      BY <3>1 DEF ChunkIsRight
  <2>3. CASE bank.stored /\ c \notin left
    <3>1. ChunkIsRight(c) /\ bank.job[e].left = {}
      BY <1>4, <1>8 DEF BankInv, ZeroFirst
    <3>2. bank'.ram[c] = bank.ram[c]
      BY <1>7, <1>9, <2>3
    <3>3. \A f \in Editors : c \in bank.job[f].left => bank'.job[f] = bank.job[f]
      BY <1>10, <3>1
    <3> QED
      BY <1>9, <3>1, <3>2, <3>3 DEF ChunkIsRight
  <2> QED
    BY <2>1, <2>2, <2>3
<1> QED
  BY <1>9, <1>11, <1>12 DEF BankInv

\* A save writes a chunk or skips it.
LEMMA SaveChunkIsSound ==
    ASSUME BankInv, NEW e \in Editors, SaveChunk(e)
    PROVE  BankInv'
<1> DEFINE j == bank.job[e]
           c == Min(j.left)
           job == [j EXCEPT !.left = @ \ {c}]
<1>1. j \in Job /\ j.left # {} /\ j.left \subseteq Chunks /\ j.on
  BY BankFields DEF SaveChunk, Job, BankInv, ZeroFirst
<1>2. c \in j.left /\ c \in Chunks /\ c \in Nat /\ \A x \in j.left : c <= x
  BY <1>1, BankFields, LeastChunk
<1>3. c # 0 => 0 \notin j.left
  BY <1>2
<1>4. c # 0 => bank.flash[0] # NotStored
  BY <1>1, <1>3, BankFields DEF BankInv, ZeroFirst
<1>5. bank.flash[0] # NotStored \/ (j.first /\ j.left = Chunks)
  BY <1>1 DEF BankInv, ZeroFirst
<1>6. job \in Job /\ job.on = j.on /\ job.first = j.first /\ job.left = j.left \ {c}
  BY <1>1 DEF Job
<1>7. CASE Skips(j.first, c)
  <2> DEFINE stale == IF bank.flash[c] = NotStored THEN bank.stale \ {c} ELSE bank.stale
  <2>1. j.first /\ c # 0 /\ bank.ram[c] = 0
    BY <1>7 DEF Skips
  <2>2. bank' = [bank EXCEPT !.job[e] = job, !.stale = stale]
    BY <1>7 DEF SaveChunk
  <2> HIDE DEF job, j, c
  <2>3. stale \subseteq Chunks
    BY BankFields
  <2>4. /\ bank'.ram = bank.ram /\ bank'.flash = bank.flash /\ bank'.stored = bank.stored
        /\ bank'.stale = stale /\ bank'.job = [bank.job EXCEPT ![e] = job] /\ BankTypes'
    <3> HIDE DEF stale
    <3> QED
      BY <1>6, <2>2, <2>3 DEF BankInv, BankTypes, BankType
  <2>5. \A f \in Editors : bank'.job[f] = IF f = e THEN job ELSE bank.job[f]
    BY <2>4, BankFields
  <2>6. ZeroFirst'
    BY <1>1, <1>4, <1>6, <2>1, <2>4, <2>5 DEF BankInv, ZeroFirst
  <2>7. ASSUME NEW d \in Chunks \ stale PROVE ChunkIsRight(d)'
    <3>1. CASE d = c /\ bank.flash[c] = NotStored
      BY <1>4, <2>1, <2>4, <3>1 DEF ChunkIsRight
    <3>2. CASE d # c \/ bank.flash[c] # NotStored
      <4>1. ChunkIsRight(d)
        BY <2>7, <3>2 DEF BankInv
      <4>2. CASE bank.flash[d] # NotStored
        <5>1. \A f \in Editors : ~ bank.job[f].first /\ d \in bank.job[f].left =>
                                 ~ bank'.job[f].first /\ d \in bank'.job[f].left
          BY <2>1, <2>5 DEF j
        <5> QED
          BY <2>4, <4>1, <4>2, <5>1 DEF ChunkIsRight
      <4>3. CASE bank.flash[d] = NotStored
        <5>1. \A f \in Editors : d \in bank.job[f].left => d \in bank'.job[f].left
          BY <1>6, <2>5, <3>2, <4>3 DEF j
        <5> QED
          BY <2>4, <4>1, <4>3, <5>1 DEF ChunkIsRight
      <4> QED
        BY <4>2, <4>3
    <3> QED
      BY <3>1, <3>2
  <2> QED
    BY <2>4, <2>6, <2>7 DEF BankInv
<1>8. CASE ~ Skips(j.first, c)
  <2> DEFINE flash == [bank.flash EXCEPT ![c] = bank.ram[c]]
             stale == bank.stale \ {c}
  <2>1. bank' = [bank EXCEPT !.job[e] = job, !.flash = flash, !.stale = stale]
    BY <1>8 DEF SaveChunk
  <2>2. bank.ram[c] \in Nat /\ bank.ram[c] # NotStored /\ bank.ram[c] \in Stored
    BY <1>2, BankFields DEF NotStored, Stored
  <2> HIDE DEF job, j, c
  <2>3. stale \subseteq Chunks /\ flash \in [Chunks -> Stored]
    BY <2>2, BankFields
  <2>4. \A d \in Chunks : flash[d] = IF d = c THEN bank.ram[c] ELSE bank.flash[d]
    BY <1>2, BankFields
  <2>5. /\ bank'.ram = bank.ram /\ bank'.flash = flash /\ bank'.stored = bank.stored
        /\ bank'.stale = stale /\ bank'.job = [bank.job EXCEPT ![e] = job] /\ BankTypes'
    <3> HIDE DEF stale, flash
    <3> QED
      BY <1>6, <2>1, <2>3 DEF BankInv, BankTypes, BankType
  <2>6. \A f \in Editors : bank'.job[f] = IF f = e THEN job ELSE bank.job[f]
    BY <2>5, BankFields
  <2>7. bank'.flash[0] # NotStored
    BY <1>4, <2>2, <2>4, <2>5, BankFields
  <2>8. ZeroFirst'
    BY <1>1, <1>6, <2>5, <2>6, <2>7 DEF BankInv, ZeroFirst
  <2>9. ASSUME NEW d \in Chunks \ stale PROVE ChunkIsRight(d)'
    <3>1. CASE d = c
      BY <2>2, <2>4, <2>5, <3>1 DEF ChunkIsRight
    <3>2. CASE d # c
      <4>1. ChunkIsRight(d) /\ bank'.flash[d] = bank.flash[d]
        BY <2>4, <2>5, <2>9, <3>2 DEF BankInv
      <4>2. \A f \in Editors : d \in bank.job[f].left =>
                               d \in bank'.job[f].left /\ bank'.job[f].first = bank.job[f].first
        BY <1>6, <2>6, <3>2 DEF j
      <4>3. CASE bank.flash[d] # NotStored
        BY <2>5, <4>1, <4>2, <4>3 DEF ChunkIsRight
      <4>4. CASE bank.flash[d] = NotStored /\ bank.flash[0] # NotStored
        BY <2>5, <2>7, <4>1, <4>2, <4>4 DEF ChunkIsRight
      <4>5. CASE bank.flash[d] = NotStored /\ bank.flash[0] = NotStored
        <5>1. d \in bank'.job[e].left
          BY <1>5, <1>6, <2>6, <3>2, <4>5
        <5> QED
          BY <4>1, <4>5, <5>1 DEF ChunkIsRight
      <4> QED
        BY <4>3, <4>4, <4>5
    <3> QED
      BY <3>1, <3>2
  <2> QED
    BY <2>5, <2>8, <2>9 DEF BankInv
<1> QED
  BY <1>7, <1>8

LEMMA SaveEndsIsSound ==
    ASSUME BankInv, NEW e \in Editors, SaveEnds(e)
    PROVE  BankInv'
<1>1. /\ bank.job[e].on /\ bank.job[e].left = {}
      /\ bank' = [bank EXCEPT !.job[e] = NoJob, !.stored = TRUE]
  BY DEF SaveEnds
<1>2. NoJob \in Job /\ ~ NoJob.on /\ NoJob.left = {}
  BY DEF NoJob, Job
<1>3. bank.flash[0] # NotStored
  BY <1>1, BankFields DEF BankInv, ZeroFirst
<1> HIDE DEF NoJob
<1>4. /\ bank'.ram = bank.ram /\ bank'.flash = bank.flash /\ bank'.stale = bank.stale
      /\ bank'.job = [bank.job EXCEPT ![e] = NoJob] /\ BankTypes'
  BY <1>1, <1>2 DEF BankInv, BankTypes, BankType
<1>5. \A f \in Editors : bank'.job[f] = IF f = e THEN NoJob ELSE bank.job[f]
  BY <1>4, BankFields
<1>6. ZeroFirst'
  BY <1>2, <1>3, <1>4, <1>5 DEF BankInv, ZeroFirst
<1>7. ASSUME NEW c \in Chunks \ bank.stale PROVE ChunkIsRight(c)'
  <2>1. \A f \in Editors : c \in bank.job[f].left => bank'.job[f] = bank.job[f]
    BY <1>1, <1>5
  <2> QED
    BY <1>4, <1>7, <2>1 DEF BankInv, ChunkIsRight
<1> QED
  BY <1>4, <1>6, <1>7 DEF BankInv

\* A save stops; the chunk it was at may still be written.
LEMMA SaveStopsIsSound ==
    ASSUME BankInv, NEW e \in Editors, bank.job[e].left # {}, SaveStops(e)
    PROVE  BankInv'
<1> DEFINE j == bank.job[e]
           c == Min(j.left)
<1>1. j \in Job /\ j.left # {} /\ j.left \subseteq Chunks /\ j.on
  BY BankFields DEF Job, BankInv, ZeroFirst
<1>2. c \in j.left /\ c \in Chunks /\ c \in Nat /\ \A x \in j.left : c <= x
  BY <1>1, BankFields, LeastChunk
<1>3. c # 0 => bank.flash[0] # NotStored
  BY <1>1, <1>2, BankFields DEF BankInv, ZeroFirst
<1>4. bank.flash[0] # NotStored \/ j.left = Chunks
  BY <1>1 DEF BankInv, ZeroFirst
<1>5. PICK w \in SUBSET {c} :
        bank' = [bank EXCEPT !.job[e] = NoJob,
                             !.flash = [d \in Chunks |-> IF d \in w THEN bank.ram[d] ELSE bank.flash[d]],
                             !.stale = (bank.stale \union j.left) \ w]
  BY ZenonT(30) DEF SaveStops
<1> DEFINE flash == [d \in Chunks |-> IF d \in w THEN bank.ram[d] ELSE bank.flash[d]]
           stale == (bank.stale \union j.left) \ w
<1>6. NoJob \in Job /\ ~ NoJob.on /\ NoJob.left = {}
  BY DEF NoJob, Job
<1>7. \A d \in Chunks : bank.ram[d] \in Nat /\ bank.ram[d] # NotStored /\ bank.ram[d] \in Stored
  BY BankFields DEF NotStored, Stored
<1> HIDE DEF j, c, NoJob
<1>8. stale \subseteq Chunks /\ flash \in [Chunks -> Stored]
  BY <1>1, <1>7, BankFields
<1>9. \A d \in Chunks : flash[d] = IF d \in w THEN bank.ram[d] ELSE bank.flash[d]
  OBVIOUS
<1>10. /\ bank'.ram = bank.ram /\ bank'.flash = flash /\ bank'.stored = bank.stored
       /\ bank'.stale = stale /\ bank'.job = [bank.job EXCEPT ![e] = NoJob] /\ BankTypes'
  <2> HIDE DEF stale, flash
  <2> QED
    BY <1>5, <1>6, <1>8 DEF BankInv, BankTypes, BankType, stale, flash
<1>11. \A f \in Editors : bank'.job[f] = IF f = e THEN NoJob ELSE bank.job[f]
  BY <1>10, BankFields
<1>12. bank.flash[0] # NotStored => bank'.flash[0] # NotStored
  BY <1>7, <1>9, <1>10, BankFields
<1>13. ZeroFirst'
  <2>1. ASSUME NEW d \in Chunks, bank'.flash[d] # NotStored PROVE bank'.flash[0] # NotStored
    <3>1. CASE d \in w
      <4>1. d = c
        BY <3>1
      <4>2. CASE c = 0
        BY <2>1, <4>1, <4>2
      <4>3. CASE c # 0
        BY <1>3, <1>12, <4>3
      <4> QED
        BY <4>2, <4>3
    <3>2. CASE d \notin w
      BY <1>9, <1>10, <1>12, <2>1, <3>2 DEF BankInv, ZeroFirst
    <3> QED
      BY <3>1, <3>2
  <2>2. ASSUME NEW f \in Editors
        PROVE  /\ ~ bank'.job[f].on => bank'.job[f].left = {}
               /\ bank'.job[f].on => bank'.flash[0] # NotStored
                                     \/ (bank'.job[f].first /\ bank'.job[f].left = Chunks)
    BY <1>6, <1>11, <1>12 DEF BankInv, ZeroFirst
  <2>3. bank'.stored => bank'.flash[0] # NotStored
    BY <1>10, <1>12 DEF BankInv, ZeroFirst
  <2> QED
    BY <2>1, <2>2, <2>3 DEF ZeroFirst
<1>14. ASSUME NEW d \in Chunks \ stale PROVE ChunkIsRight(d)'
  <2>1. CASE d \in w
    BY <1>7, <1>9, <1>10, <2>1 DEF ChunkIsRight
  <2>2. CASE d \notin w
    <3>1. d \notin j.left /\ d \notin bank.stale
      BY <1>14, <2>2
    <3>2. ChunkIsRight(d) /\ bank'.flash[d] = bank.flash[d] /\ bank.flash[0] # NotStored
      BY <1>4, <1>9, <1>10, <2>2, <3>1 DEF BankInv
    <3>3. \A f \in Editors : d \in bank.job[f].left => bank'.job[f] = bank.job[f]
      BY <1>11, <3>1 DEF j
    <3> QED
      BY <1>10, <1>12, <3>2, <3>3 DEF ChunkIsRight
  <2> QED
    BY <2>1, <2>2
<1> QED
  BY <1>10, <1>13, <1>14 DEF BankInv

LEMMA BankStep ==
    ASSUME BankInv, BankNext
    PROVE  BankInv'
<1>1. ASSUME PowerCycle PROVE BankInv'
  <2>1. bank' = Booted(bank.flash, bank.edits)
    BY <1>1 DEF PowerCycle
  <2>2. \A c \in Chunks : bank.flash[c] # NotStored => bank.flash[0] # NotStored
    BY DEF BankInv, ZeroFirst
  <2> QED
    BY <2>1, <2>2, BankFields, BootedFacts DEF BankInv, BankTypes, ZeroFirst, ChunkIsRight
<1> QED
  BY <1>1, EditIsSound, SaveChunkIsSound, SaveEndsIsSound, SaveStopsIsSound DEF BankNext

-----------------------------------------------------------------------------
(* The debouncers.                                                         *)

Clocks == 0 .. ClockWrap - 1

DebounceStates ==
    [fast : BOOLEAN, async : BOOLEAN, contact : BOOLEAN, clock : Clocks,
             pressed : BOOLEAN, since : Clocks, waiting : BOOLEAN, rescan : BOOLEAN,
             scanned : BOOLEAN, skips : Int, differs : -1 .. Threshold,
             gap : 0 .. Threshold + 1, atZero : BOOLEAN, stale : BOOLEAN]

DebounceTypes == deb \in DebounceStates

\* What the wrapping clock says of a change that is being timed is no more than the scans have
\* seen.
TimedByScans(d) ==
    ~ d.fast /\ d.since # 0 /\ ~ d.stale =>
        d.differs >= 0 /\ (Elapsed(d) <= d.differs \/ d.differs = Threshold)

\* What it says of the last report is no more than has passed since.
TimedByReport(d) ==
    d.fast => \/ d.atZero
              \/ d.gap = Threshold + 1
              \/ d.since # 0 /\ Elapsed(d) <= d.gap

DebounceInv ==
    /\ DebounceTypes
    /\ deb.since = 0 => ~ deb.stale
    /\ TimedByScans(deb)
    /\ TimedByReport(deb)

\* The clock's next value and the time since an earlier one, across the wrap.
LEMMA ClockNext ==
    ASSUME NEW c \in Clocks
    PROVE  (c + 1) % ClockWrap = IF c = ClockWrap - 1 THEN 0 ELSE c + 1
BY DebounceSizes DEF Clocks

LEMMA ClockBetween ==
    ASSUME NEW c \in Clocks, NEW s \in Clocks
    PROVE  (c - s) % ClockWrap = IF c >= s THEN c - s ELSE c - s + ClockWrap
BY DebounceSizes DEF Clocks

LEMMA DebounceFields ==
    ASSUME DebounceTypes
    PROVE  /\ deb.fast \in BOOLEAN /\ deb.async \in BOOLEAN /\ deb.contact \in BOOLEAN
           /\ deb.clock \in Clocks /\ deb.pressed \in BOOLEAN /\ deb.since \in Clocks
           /\ deb.waiting \in BOOLEAN /\ deb.rescan \in BOOLEAN /\ deb.scanned \in BOOLEAN
           /\ deb.skips \in Int /\ deb.differs \in -1 .. Threshold
           /\ deb.gap \in 0 .. Threshold + 1 /\ deb.atZero \in BOOLEAN /\ deb.stale \in BOOLEAN
BY DEF DebounceTypes, DebounceStates

LEMMA MillisecondIsSound ==
    ASSUME DebounceInv, Millisecond
    PROVE  DebounceInv'
<1>1. Threshold \in Nat /\ ClockWrap \in Nat /\ ClockWrap > 1
  BY DebounceSizes
<1> DEFINE clock == (deb.clock + 1) % ClockWrap
           skips == IF deb.scanned \/ Sleeps(deb) THEN deb.skips ELSE deb.skips + 1
           differs == IF deb.differs = -1 THEN -1 ELSE Min({deb.differs + 1, Threshold})
           gap == Min({deb.gap + 1, Threshold + 1})
<1>2. deb' = [deb EXCEPT !.clock = clock, !.scanned = FALSE, !.skips = skips,
                         !.differs = differs, !.gap = gap]
  BY DEF Millisecond
<1>3. clock = IF deb.clock = ClockWrap - 1 THEN 0 ELSE deb.clock + 1
  BY ClockNext, DebounceFields DEF DebounceInv
<1>4. clock \in Clocks /\ skips \in Int
  BY <1>1, <1>3, DebounceFields DEF DebounceInv, Clocks
<1>5. differs = IF deb.differs = -1 THEN -1
                ELSE IF deb.differs = Threshold THEN Threshold ELSE deb.differs + 1
  BY <1>1, LesserOfTwo, DebounceFields DEF DebounceInv
<1>6. gap = IF deb.gap = Threshold + 1 THEN deb.gap ELSE deb.gap + 1
  BY <1>1, LesserOfTwo, DebounceFields DEF DebounceInv
<1>7. differs \in -1 .. Threshold /\ gap \in 0 .. Threshold + 1
  BY <1>1, <1>5, <1>6, DebounceFields DEF DebounceInv
<1> HIDE DEF clock, skips, differs, gap
<1>8. /\ deb'.fast = deb.fast /\ deb'.since = deb.since /\ deb'.stale = deb.stale
      /\ deb'.atZero = deb.atZero /\ deb'.clock = clock /\ deb'.differs = differs
      /\ deb'.gap = gap /\ DebounceTypes'
  BY <1>2, <1>4, <1>7 DEF DebounceInv, DebounceTypes, DebounceStates
<1>9. (clock - deb.since) % ClockWrap <= ((deb.clock - deb.since) % ClockWrap) + 1
  <2>1. /\ (clock - deb.since) % ClockWrap =
               IF clock >= deb.since THEN clock - deb.since ELSE clock - deb.since + ClockWrap
        /\ (deb.clock - deb.since) % ClockWrap =
               IF deb.clock >= deb.since THEN deb.clock - deb.since
               ELSE deb.clock - deb.since + ClockWrap
    BY <1>4, ClockBetween, DebounceFields DEF DebounceInv
  <2> QED
    BY <1>1, <1>3, <2>1, DebounceFields DEF DebounceInv, Clocks
<1>10. Elapsed(deb') <= Elapsed(deb) + 1 /\ Elapsed(deb) \in Int /\ Elapsed(deb') \in Int
  <2>1. \A c, s \in Clocks : (c - s) % ClockWrap \in Int
    BY <1>1 DEF Clocks
  <2> QED
    BY <1>4, <1>8, <1>9, <2>1, DebounceFields DEF Elapsed, DebounceInv
<1>11. TimedByScans(deb')
  <2> SUFFICES ASSUME ~ deb.fast, deb.since # 0, ~ deb.stale
               PROVE  differs >= 0 /\ (Elapsed(deb') <= differs \/ differs = Threshold)
    BY <1>8 DEF TimedByScans
  <2>1. deb.differs >= 0 /\ (Elapsed(deb) <= deb.differs \/ deb.differs = Threshold)
    BY DEF DebounceInv, TimedByScans
  <2> QED
    BY <1>1, <1>5, <1>10, <2>1, DebounceFields DEF DebounceInv
<1>12. TimedByReport(deb')
  <2> SUFFICES ASSUME deb.fast, ~ deb.atZero
               PROVE  gap = Threshold + 1 \/ (deb.since # 0 /\ Elapsed(deb') <= gap)
    BY <1>8 DEF TimedByReport
  <2>1. deb.gap = Threshold + 1 \/ (deb.since # 0 /\ Elapsed(deb) <= deb.gap)
    BY DEF DebounceInv, TimedByReport
  <2> QED
    BY <1>1, <1>6, <1>10, <2>1, DebounceFields DEF DebounceInv
<1> QED
  BY <1>8, <1>11, <1>12 DEF DebounceInv

\* What the debouncers may answer.
LEMMA Answers ==
    /\ ~ deb.fast =>
          \/ ~ Differs(deb) /\ Detect(deb) = Quiet(0)
          \/ Differs(deb) /\ Detect(deb) = Quiet(deb.since)
          \/ Differs(deb) /\ Detect(deb) = Quiet(deb.clock)
          \/ Differs(deb) /\ deb.since # 0 /\ Elapsed(deb) >= Threshold /\ Detect(deb) = Change(0)
    /\ deb.fast =>
          \/ deb.since # 0 /\ Elapsed(deb) > Threshold /\ Detect(deb) = Quiet(0)
          \/ deb.since = 0 /\ Detect(deb) = Change(Max({deb.clock, 1}))
          \/ Detect(deb) = Quiet(deb.since)
BY DEF Detect, DefaultDetect, FastDetect

LEMMA QuietAndChange ==
    ASSUME NEW x
    PROVE  Quiet(x).since = x /\ ~ Quiet(x).reported /\ Change(x).since = x /\ Change(x).reported
BY DEF Quiet, Change

\* A pass that finds no change: its start is kept, dropped or set.
LEMMA ScanIsSound ==
    ASSUME DebounceInv, Scan
    PROVE  /\ DebounceInv'
           /\ deb.fast \/ ~ Reports \/ deb.stale \/ deb.differs = Threshold
           /\ deb.fast /\ Reports => deb.gap > Threshold \/ deb.atZero
<1>1. Threshold \in Nat /\ ClockWrap \in Nat /\ ClockWrap > 1
  BY DebounceSizes
<1> DEFINE r == Detect(deb)
           stale == deb.stale /\ r.since # 0
           differs == IF Differs(deb) THEN Max({deb.differs, 0}) ELSE -1
           d == [deb EXCEPT !.since = r.since, !.scanned = TRUE, !.stale = stale,
                            !.differs = differs]
<1>2. deb' = IF r.reported THEN Reported(d) ELSE PassEnds(d)
  BY DEF Scan
<1>3. Elapsed(deb) \in Nat
  BY <1>1, DebounceFields DEF Elapsed, DebounceInv, Clocks
<1>4. Max({deb.clock, 1}) \in Clocks \ {0} /\ (deb.clock # 0 => Max({deb.clock, 1}) = deb.clock)
  BY <1>1, GreaterOfTwo, DebounceFields DEF DebounceInv, Clocks
<1>5. /\ differs = IF Differs(deb) THEN (IF deb.differs = -1 THEN 0 ELSE deb.differs) ELSE -1
      /\ differs \in -1 .. Threshold
  BY <1>1, GreaterOfTwo, DebounceFields DEF DebounceInv
<1>6. ~ deb.fast =>
         \/ ~ Differs(deb) /\ ~ r.reported /\ r.since = 0
         \/ Differs(deb) /\ ~ r.reported /\ (r.since = deb.since \/ r.since = deb.clock)
         \/ r.reported /\ deb.since # 0 /\ Elapsed(deb) >= Threshold /\ r.since = 0
  BY Answers, QuietAndChange
<1>7. deb.fast =>
         \/ deb.since # 0 /\ Elapsed(deb) > Threshold /\ ~ r.reported /\ r.since = 0
         \/ deb.since = 0 /\ r.reported /\ r.since = Max({deb.clock, 1})
         \/ ~ r.reported /\ r.since = deb.since
  BY Answers, QuietAndChange
<1>8. r.since \in Clocks
  <2>1. 0 \in Clocks
    BY <1>1 DEF Clocks
  <2> HIDE DEF r
  <2> QED
    BY <1>4, <1>6, <1>7, <2>1, DebounceFields DEF DebounceInv
<1>9. d \in DebounceStates
  <2>1. stale \in BOOLEAN
    OBVIOUS
  <2> HIDE DEF r, stale, differs
  <2> QED
    BY <1>8, <1>5, <2>1 DEF DebounceTypes, DebounceStates, DebounceInv
<1>10. (deb.clock - deb.clock) % ClockWrap = 0
  BY <1>1, ClockBetween, DebounceFields DEF DebounceInv, Clocks
<1>11. CASE ~ r.reported
  <2> HIDE DEF r
  <2>1. deb' = PassEnds(d)
    BY <1>2, <1>11
  <2> HIDE DEF differs
  <2>2. DebounceTypes'
    <3>1. (d.async /\ ~ d.rescan /\ ~ d.pressed) \in BOOLEAN
      OBVIOUS
    <3> HIDE DEF d
    <3> QED
      BY <1>9, <2>1, <3>1 DEF PassEnds, DebounceTypes, DebounceStates
  <2>3. /\ deb'.fast = deb.fast /\ deb'.clock = deb.clock /\ deb'.gap = deb.gap
        /\ deb'.atZero = deb.atZero /\ deb'.pressed = deb.pressed
        /\ deb'.since = r.since /\ deb'.stale = stale /\ deb'.differs = differs
    BY <2>1 DEF PassEnds, DebounceTypes, DebounceStates, DebounceInv
  <2>4. TimedByScans(deb')
    <3> SUFFICES ASSUME ~ deb.fast, r.since # 0, ~ stale
                 PROVE  /\ differs >= 0
                        /\ (deb.clock - r.since) % ClockWrap <= differs \/ differs = Threshold
      BY <2>3 DEF TimedByScans, Elapsed
    <3>1. Differs(deb) /\ (r.since = deb.since \/ r.since = deb.clock)
      BY <1>6, <1>11
    <3>2. CASE r.since = deb.clock
      BY <1>1, <1>5, <1>10, <3>1, <3>2, DebounceFields DEF DebounceInv
    <3>3. CASE r.since = deb.since
      BY <1>1, <1>3, <1>5, <3>1, <3>3, DebounceFields DEF DebounceInv, TimedByScans, Elapsed
    <3> QED
      BY <3>1, <3>2, <3>3
  <2>5. TimedByReport(deb')
    <3> SUFFICES ASSUME deb.fast, ~ deb.atZero, deb.gap # Threshold + 1
                 PROVE  r.since # 0 /\ (deb.clock - r.since) % ClockWrap <= deb.gap
      BY <2>3 DEF TimedByReport, Elapsed
    <3>1. deb.since # 0 /\ Elapsed(deb) <= deb.gap
      BY DEF DebounceInv, TimedByReport
    <3>2. ~ (Elapsed(deb) > Threshold)
      BY <1>1, <1>3, <3>1, DebounceFields DEF DebounceInv
    <3>3. r.since = deb.since
      BY <1>7, <1>11, <3>2
    <3> QED
      BY <3>1, <3>3 DEF Elapsed
  <2>6. deb'.since = 0 => ~ deb'.stale
    BY <2>3
  <2> QED
    BY <2>2, <2>3, <2>4, <2>5, <2>6 DEF DebounceInv, Reports
<1>12. CASE r.reported
  <2> HIDE DEF r
  <2>1. deb' = Reported(d)
    BY <1>2, <1>12
  <2> HIDE DEF differs
  <2>2. DebounceTypes'
    <3>1. (d.clock = 0) \in BOOLEAN /\ -1 \in -1 .. Threshold /\ 0 \in 0 .. Threshold + 1
      BY <1>1
    <3> HIDE DEF d
    <3> QED
      BY <1>9, <2>1, <3>1, ZenonT(30) DEF Reported, DebounceTypes, DebounceStates
  <2>3. /\ deb'.fast = deb.fast /\ deb'.clock = deb.clock /\ deb'.gap = 0
        /\ deb'.atZero = (deb.clock = 0)
        /\ deb'.since = r.since /\ deb'.stale = stale /\ deb'.differs = -1
    BY <2>1 DEF Reported, DebounceTypes, DebounceStates, DebounceInv
  <2>4. CASE ~ deb.fast
    <3>1. r.since = 0 /\ deb.since # 0 /\ Elapsed(deb) >= Threshold
      BY <1>6, <1>12, <2>4
    <3>2. deb.stale \/ deb.differs = Threshold
      BY <1>1, <1>3, <2>4, <3>1, DebounceFields DEF DebounceInv, TimedByScans
    <3> QED
      BY <2>2, <2>3, <2>4, <3>1, <3>2 DEF DebounceInv, TimedByScans, TimedByReport
  <2>5. CASE deb.fast
    <3>1. r.since = Max({deb.clock, 1}) /\ deb.since = 0
      BY <1>7, <1>12, <2>5
    <3>2. deb.gap > Threshold \/ deb.atZero
      BY <1>1, <2>5, <3>1 DEF DebounceInv, TimedByReport
    <3>3. TimedByReport(deb')
      <4>1. CASE deb.clock = 0
        BY <2>3, <4>1 DEF TimedByReport
      <4>2. CASE deb.clock # 0
        <5>1. Elapsed(deb') = 0
          BY <1>4, <1>10, <2>3, <3>1, <4>2 DEF Elapsed
        <5> QED
          BY <1>4, <2>3, <3>1, <5>1 DEF TimedByReport
      <4> QED
        BY <4>1, <4>2
    <3> QED
      BY <1>4, <2>2, <2>3, <2>5, <3>1, <3>2, <3>3 DEF DebounceInv, TimedByScans
  <2> QED
    BY <2>4, <2>5
<1> QED
  BY <1>11, <1>12

LEMMA DebounceStep ==
    ASSUME DebounceInv, DebounceNext
    PROVE  /\ DebounceInv'
           /\ deb.fast \/ ~ Reports \/ deb.stale \/ deb.differs = Threshold
           /\ deb.fast /\ Reports => deb.gap > Threshold \/ deb.atZero
<1>1. CASE Scan
  BY <1>1, ScanIsSound
<1>2. CASE WaitEnds
  <2>1. deb' = [deb EXCEPT !.waiting = FALSE]
    BY <1>2 DEF WaitEnds
  <2> QED
    BY <2>1 DEF DebounceInv, DebounceTypes, DebounceStates, TimedByScans, TimedByReport, Elapsed, Reports
<1>3. CASE Contact
  <2> DEFINE stale == deb.stale \/ (deb.waiting /\ deb.since # 0)
             differs == IF deb.waiting THEN -1 ELSE deb.differs
  <2>1. deb' = [deb EXCEPT !.contact = ~ deb.contact, !.stale = stale, !.differs = differs]
    BY <1>3 DEF Contact
  <2>2. differs \in -1 .. Threshold
    BY DebounceSizes, DebounceFields DEF DebounceInv
  <2>3. DebounceTypes'
    BY <2>1, <2>2, ZenonT(30) DEF DebounceInv, DebounceTypes, DebounceStates
  <2> QED
    BY <2>1, <2>3 DEF DebounceInv, DebounceTypes, DebounceStates, TimedByScans, TimedByReport, Elapsed, Reports
<1>4. CASE Millisecond
  <2>1. deb'.pressed = deb.pressed
    BY <1>4 DEF Millisecond, DebounceInv, DebounceTypes, DebounceStates
  <2> QED
    BY <1>4, <2>1, MillisecondIsSound DEF Reports
<1> QED
  BY <1>1, <1>2, <1>3, <1>4 DEF DebounceNext

-----------------------------------------------------------------------------
(* The auto mouse layer.                                                   *)

AutoStates(c) ==
    [cfg : {c}, on : SUBSET Nat, held : SUBSET Nat, told : BOOLEAN,
     typed : {"none", "plain", "mouse"}, entry : [DOMAIN c -> [self : BOOLEAN, left : Int]],
     owner : [AutoLayers(c) -> {"none", "auto", "key"}], raced : SUBSET Nat, cut : SUBSET Nat,
     age : [DOMAIN c -> Nat], motions : Int, keys : Int, strokes : Int]

\* An entry that holds its layer does so to its deadline at least, and the layer is on, or the
\* task has yet to hear that a key cut it; one that holds none has not moved for its timeout.
EntryIsRight(a, i) ==
    LET l == a.cfg[i].layer
    IN /\ a.age[i] <= a.cfg[i].timeout
       /\ ~ a.entry[i].self => a.age[i] = a.cfg[i].timeout
       /\ a.entry[i].self =>
             /\ a.entry[i].left >= 0
             /\ a.age[i] + a.entry[i].left >= a.cfg[i].timeout
             /\ l \notin a.on => l \in a.cut /\ a.told
             /\ l \in a.on => a.owner[l] = "auto" \/ l \in a.raced

AutoIsRight(a) ==
    /\ a.cfg \in EntryConfigs
    /\ a \in AutoStates(a.cfg)
    /\ \A i \in DOMAIN a.cfg : EntryIsRight(a, i)

AutoInv == AutoIsRight(auto)

LEMMA EntryFields ==
    ASSUME NEW c \in EntryConfigs, NEW i \in DOMAIN c
    PROVE  /\ i \in Nat
           /\ c[i].layer \in Nat /\ c[i].timeout \in Nat /\ c[i].layer \in AutoLayers(c)
           /\ AutoLayers(c) \subseteq Nat
<1> DEFINE R == [device : Nat, layer : Nat, timeout : Nat, deactivate : BOOLEAN, reset : BOOLEAN]
<1>1. c \in Seq(R)
  BY AutoMouseEntries
<1> HIDE DEF R
<1>2. DOMAIN c = 1 .. Len(c) /\ Len(c) \in Nat /\ \A j \in 1 .. Len(c) : c[j] \in R
  BY <1>1
<1>3. \A r \in R : r.layer \in Nat /\ r.timeout \in Nat
  BY DEF R
<1> QED
  BY <1>2, <1>3 DEF AutoLayers

LEMMA AutoFields ==
    ASSUME NEW a, AutoIsRight(a)
    PROVE  /\ a.cfg \in EntryConfigs /\ a.on \subseteq Nat /\ a.held \subseteq Nat
           /\ a.told \in BOOLEAN /\ a.typed \in {"none", "plain", "mouse"}
           /\ a.entry \in [DOMAIN a.cfg -> [self : BOOLEAN, left : Int]]
           /\ a.owner \in [AutoLayers(a.cfg) -> {"none", "auto", "key"}]
           /\ a.raced \subseteq Nat /\ a.cut \subseteq Nat
           /\ a.age \in [DOMAIN a.cfg -> Nat]
           /\ a.motions \in Int /\ a.keys \in Int /\ a.strokes \in Int
BY DEF AutoIsRight, AutoStates

\* What an entry depends on.
LEMMA SameEntry ==
    ASSUME NEW a, NEW b, NEW i, EntryIsRight(a, i),
           b.cfg = a.cfg, b.age = a.age, b.entry = a.entry,
           a.cfg[i].layer \notin b.on => a.cfg[i].layer \in b.cut /\ b.told,
           a.cfg[i].layer \in b.on =>
               b.owner[a.cfg[i].layer] = "auto" \/ a.cfg[i].layer \in b.raced
    PROVE  EntryIsRight(b, i)
BY DEF EntryIsRight

LEMMA TurnedOnIsRight ==
    ASSUME NEW a, AutoIsRight(a), NEW l \in AutoLayers(a.cfg), NEW who \in {"auto", "key"}
    PROVE  LET b == TurnedOn(a, l, who)
           IN /\ AutoIsRight(b) /\ b.cfg = a.cfg /\ b.entry = a.entry /\ b.age = a.age
              /\ l \in b.on
              /\ l \notin a.on /\ who = "auto" => b.owner[l] = "auto"
<1>1. CASE l \in a.on
  BY <1>1 DEF TurnedOn
<1>2. CASE l \notin a.on
  <2> DEFINE late == who = "key" /\ a.told /\ \E i \in DOMAIN a.entry : a.entry[i].self /\ a.cfg[i].layer = l
             raced == IF late THEN a.raced \union {l} ELSE a.raced \ {l}
             owner == [a.owner EXCEPT ![l] = who]
             b == [a EXCEPT !.on = a.on \union {l}, !.told = TRUE, !.owner = owner,
                            !.cut = a.cut \ {l}, !.raced = raced]
  <2>1. TurnedOn(a, l, who) = b
    BY <1>2 DEF TurnedOn
  <2>2. l \in Nat
    BY AutoFields, EntryFields DEF AutoLayers
  <2>3. raced \subseteq Nat /\ owner \in [AutoLayers(a.cfg) -> {"none", "auto", "key"}]
    BY <2>2, AutoFields
  <2>4. owner[l] = who /\ \A m \in AutoLayers(a.cfg) \ {l} : owner[m] = a.owner[m]
    BY AutoFields
  <2>5. /\ late => l \in raced
        /\ \A m : m # l => (m \in raced <=> m \in a.raced)
    OBVIOUS
  <2> HIDE DEF raced, owner
  <2>6. /\ b \in AutoStates(a.cfg) /\ b.cfg = a.cfg /\ b.entry = a.entry /\ b.age = a.age
        /\ b.on = a.on \union {l} /\ b.told = TRUE /\ b.owner = owner /\ b.cut = a.cut \ {l}
        /\ b.raced = raced
    BY <2>2, <2>3 DEF AutoIsRight, AutoStates
  <2> HIDE DEF b
  <2>7. ASSUME NEW i \in DOMAIN a.cfg PROVE EntryIsRight(b, i)
    <3>1. EntryIsRight(a, i) /\ a.cfg[i].layer \in AutoLayers(a.cfg) /\ i \in DOMAIN a.entry
      BY EntryFields, AutoFields DEF AutoIsRight
    <3>2. CASE ~ a.entry[i].self
      BY <2>6, <3>1, <3>2 DEF EntryIsRight
    <3>3. CASE a.entry[i].self /\ a.cfg[i].layer # l
      <4>1. a.cfg[i].layer \in b.on <=> a.cfg[i].layer \in a.on
        BY <2>6, <3>3
      <4> QED
        BY <2>4, <2>5, <2>6, <3>1, <3>3, <4>1 DEF EntryIsRight
    <3>4. CASE a.entry[i].self /\ a.cfg[i].layer = l
      <4>1. a.told
        BY <1>2, <3>1, <3>4 DEF EntryIsRight
      <4>2. owner[l] = "auto" \/ l \in raced
        BY <2>4, <2>5, <3>1, <3>4, <4>1
      <4> QED
        BY <2>6, <3>1, <3>4, <4>2, SameEntry
    <3> QED
      BY <3>2, <3>3, <3>4
  <2> QED
    BY <2>1, <2>4, <2>6, <2>7 DEF AutoIsRight
<1> QED
  BY <1>1, <1>2

LEMMA TurnedOffIsRight ==
    ASSUME NEW a, AutoIsRight(a), NEW l \in AutoLayers(a.cfg)
    PROVE  AutoIsRight(TurnedOff(a, l))
<1>1. CASE l \notin a.on
  BY <1>1 DEF TurnedOff
<1>2. CASE l \in a.on
  <2> DEFINE owner == [a.owner EXCEPT ![l] = "none"]
             b == [a EXCEPT !.on = a.on \ {l}, !.told = TRUE, !.owner = owner,
                            !.cut = a.cut \union {l}]
  <2>1. TurnedOff(a, l) = b
    BY <1>2 DEF TurnedOff
  <2>2. owner \in [AutoLayers(a.cfg) -> {"none", "auto", "key"}] /\ l \in Nat
    BY <1>2, AutoFields
  <2>3. \A m \in AutoLayers(a.cfg) \ {l} : owner[m] = a.owner[m]
    BY AutoFields
  <2> HIDE DEF owner
  <2>4. /\ b \in AutoStates(a.cfg) /\ b.cfg = a.cfg /\ b.entry = a.entry /\ b.age = a.age
        /\ b.on = a.on \ {l} /\ b.told = TRUE /\ b.owner = owner /\ b.cut = a.cut \union {l}
        /\ b.raced = a.raced
    BY <2>2 DEF AutoIsRight, AutoStates
  <2> HIDE DEF b
  <2>5. ASSUME NEW i \in DOMAIN a.cfg PROVE EntryIsRight(b, i)
    <3>1. EntryIsRight(a, i) /\ a.cfg[i].layer \in AutoLayers(a.cfg)
      BY EntryFields DEF AutoIsRight
    <3> QED
      BY <2>3, <2>4, <3>1 DEF EntryIsRight
  <2> QED
    BY <2>1, <2>4, <2>5 DEF AutoIsRight
<1> QED
  BY <1>1, <1>2

\* Entries that end have been still for their timeout; a layer goes off with the last that held it.
LEMMA EndsIsRight ==
    ASSUME NEW a, AutoIsRight(a), NEW I \in SUBSET DOMAIN a.cfg,
           \A i \in I : a.age[i] = a.cfg[i].timeout
    PROVE  AutoIsRight(Ends(a, I))
<1> DEFINE e == Ended(a.entry, I)
           L == Released(a, e, I)
           owner == [l \in DOMAIN a.owner |-> IF l \in L THEN "none" ELSE a.owner[l]]
           told == a.told \/ L \intersect a.on # {}
           b == [a EXCEPT !.entry = e, !.on = a.on \ L, !.told = told, !.owner = owner]
<1>1. Ends(a, I) = b
  BY DEF Ends, AutoIsRight, AutoStates
<1>2. e \in [DOMAIN a.cfg -> [self : BOOLEAN, left : Int]]
  BY AutoFields DEF Ended, Unset
<1>3. \A i \in DOMAIN a.cfg : /\ i \in I => ~ e[i].self
                              /\ i \notin I => e[i] = a.entry[i]
  BY AutoFields DEF Ended
<1>4. \A j \in DOMAIN a.cfg : e[j].self => a.cfg[j].layer \notin L
  BY <1>2 DEF Released, LayerStillHeld
<1>5. owner \in [AutoLayers(a.cfg) -> {"none", "auto", "key"}]
  BY AutoFields
<1>6. \A l \in AutoLayers(a.cfg) \ L : owner[l] = a.owner[l]
  BY AutoFields
<1>7. told \in BOOLEAN /\ (a.told => told)
  OBVIOUS
<1> HIDE DEF e, L, owner, told
<1>8. /\ b \in AutoStates(a.cfg) /\ b.cfg = a.cfg /\ b.entry = e /\ b.age = a.age
      /\ b.on = a.on \ L /\ b.told = told /\ b.owner = owner /\ b.cut = a.cut /\ b.raced = a.raced
  BY <1>2, <1>5, <1>7 DEF AutoIsRight, AutoStates
<1> HIDE DEF b
<1>9. ASSUME NEW i \in DOMAIN a.cfg PROVE EntryIsRight(b, i)
  <2>1. EntryIsRight(a, i) /\ a.cfg[i].layer \in AutoLayers(a.cfg)
    BY EntryFields DEF AutoIsRight
  <2>2. CASE i \in I
    BY <1>3, <1>8, <2>1, <2>2 DEF EntryIsRight
  <2>3. CASE i \notin I /\ ~ a.entry[i].self
    BY <1>3, <1>8, <2>1, <2>3 DEF EntryIsRight
  <2>4. CASE i \notin I /\ a.entry[i].self
    <3>1. e[i] = a.entry[i] /\ a.cfg[i].layer \notin L
      BY <1>3, <1>4, <2>4
    <3> QED
      BY <1>6, <1>7, <1>8, <2>1, <2>4, <3>1 DEF EntryIsRight
  <2> QED
    BY <2>2, <2>3, <2>4
<1> QED
  BY <1>1, <1>8, <1>9 DEF AutoIsRight

\* Counting an event, or what only the keyboard task keeps, changes no entry.
LEMMA BesidesIsRight ==
    ASSUME NEW a, AutoIsRight(a), NEW b, b \in AutoStates(a.cfg),
           b.on = a.on, b.told = a.told, b.entry = a.entry, b.owner = a.owner,
           b.raced = a.raced, b.cut = a.cut, b.age = a.age
    PROVE  AutoIsRight(b) /\ b.cfg = a.cfg
<1>1. b.cfg = a.cfg
  BY DEF AutoStates
<1> QED
  BY <1>1 DEF AutoIsRight, EntryIsRight

LEMMA AgedFields ==
    ASSUME NEW a, AutoIsRight(a), NEW I
    PROVE  /\ Aged(a, I) \in [DOMAIN a.cfg -> Nat]
           /\ \A i \in DOMAIN a.cfg : /\ i \in I => Aged(a, I)[i] = a.cfg[i].timeout
                                      /\ i \notin I => Aged(a, I)[i] = a.age[i]
<1>1. DOMAIN a.age = DOMAIN a.cfg /\ a.cfg \in EntryConfigs
  BY AutoFields
<1> QED
  BY <1>1, AutoFields, EntryFields DEF Aged

LEMMA LayerChangeIsRight ==
    ASSUME AutoInv, LayerChange
    PROVE  AutoInv'
<1> DEFINE gone == {i \in DOMAIN auto.entry : auto.entry[i].self /\ auto.cfg[i].layer \notin auto.on}
           e == Ended(auto.entry, gone)
           age == Aged(auto, gone)
<1>1. auto' = [auto EXCEPT !.told = FALSE, !.entry = e, !.age = age]
  BY DEF LayerChange
<1>2. AutoIsRight(auto)
  BY DEF AutoInv
<1>3. /\ e \in [DOMAIN auto.cfg -> [self : BOOLEAN, left : Int]]
      /\ \A i \in DOMAIN auto.cfg : /\ i \in gone => ~ e[i].self
                                    /\ i \notin gone => e[i] = auto.entry[i]
  BY <1>2, AutoFields DEF Ended, Unset
<1>4. /\ age \in [DOMAIN auto.cfg -> Nat]
      /\ \A i \in DOMAIN auto.cfg : /\ i \in gone => age[i] = auto.cfg[i].timeout
                                    /\ i \notin gone => age[i] = auto.age[i]
  BY <1>2, AgedFields
<1>5. \A i \in DOMAIN auto.cfg : i \notin gone => ~ auto.entry[i].self \/ auto.cfg[i].layer \in auto.on
  BY <1>2, AutoFields
<1> HIDE DEF gone, e, age
<1>6. /\ auto' \in AutoStates(auto.cfg) /\ auto'.cfg = auto.cfg /\ auto'.entry = e
      /\ auto'.age = age /\ auto'.on = auto.on /\ auto'.owner = auto.owner
      /\ auto'.cut = auto.cut /\ auto'.raced = auto.raced
  BY <1>1, <1>2, <1>3, <1>4 DEF AutoIsRight, AutoStates
<1>7. ASSUME NEW i \in DOMAIN auto.cfg PROVE EntryIsRight(auto', i)
  <2>1. EntryIsRight(auto, i) /\ auto.cfg[i].timeout \in Nat
    BY <1>2, EntryFields DEF AutoIsRight
  <2>2. CASE i \in gone
    BY <1>3, <1>4, <1>6, <2>1, <2>2 DEF EntryIsRight
  <2>3. CASE i \notin gone
    BY <1>3, <1>4, <1>5, <1>6, <2>1, <2>3 DEF EntryIsRight
  <2> QED
    BY <2>2, <2>3
<1> QED
  BY <1>2, <1>6, <1>7 DEF AutoInv, AutoIsRight

LEMMA DeadlineIsRight ==
    ASSUME AutoInv, Deadline
    PROVE  /\ AutoInv'
           /\ \A l \in auto.on \ auto'.on : auto.owner[l] = "auto" \/ l \in auto.raced
<1> DEFINE I == Expired(auto)
<1>1. auto' = Ends(auto, I) /\ AutoIsRight(auto)
  BY DEF Deadline, AutoInv
<1>2. ASSUME NEW i \in I
      PROVE  /\ i \in DOMAIN auto.cfg /\ auto.age[i] = auto.cfg[i].timeout
             /\ auto.cfg[i].layer \in auto.on =>
                  auto.owner[auto.cfg[i].layer] = "auto" \/ auto.cfg[i].layer \in auto.raced
  <2>1. i \in DOMAIN auto.cfg /\ auto.entry[i].self /\ auto.entry[i].left = 0
    BY <1>1, <1>2, AutoFields DEF Expired
  <2>2. EntryIsRight(auto, i) /\ auto.age[i] \in Nat /\ auto.cfg[i].timeout \in Nat
    BY <1>1, <2>1, AutoFields, EntryFields DEF AutoIsRight
  <2> QED
    BY <2>1, <2>2 DEF EntryIsRight
<1> HIDE DEF I
<1>3. AutoInv'
  BY <1>1, <1>2, EndsIsRight DEF AutoInv
<1>4. auto.on \ auto'.on \subseteq {auto.cfg[i].layer : i \in I}
  BY <1>1 DEF Ends, Released, AutoIsRight, AutoStates
<1> QED
  BY <1>2, <1>3, <1>4

LEMMA KeypressIsRight ==
    ASSUME NEW a, AutoIsRight(a), NEW action
    PROVE  AutoIsRight(KeypressStep(a, action))
<1> DEFINE I == {i \in DOMAIN a.entry : a.entry[i].self}
           ends == {i \in I : Deactivates(a.cfg[i], action)}
           e == [i \in DOMAIN a.entry |->
                    IF i \in I \ ends /\ a.cfg[i].reset
                    THEN [a.entry[i] EXCEPT !.left = a.cfg[i].timeout] ELSE a.entry[i]]
           age == Aged(a, ends)
           b == [a EXCEPT !.entry = e, !.age = age]
<1>1. KeypressStep(a, action) = IF ends = {} THEN b ELSE Ends(b, ends)
  BY DEF KeypressStep
<1>2. /\ age \in [DOMAIN a.cfg -> Nat]
      /\ \A i \in DOMAIN a.cfg : /\ i \in ends => age[i] = a.cfg[i].timeout
                                 /\ i \notin ends => age[i] = a.age[i]
  BY AgedFields
<1>3. DOMAIN a.entry = DOMAIN a.cfg /\ \A i \in ends : i \in DOMAIN a.cfg /\ a.entry[i].self
  BY AutoFields
<1>4. \A i \in DOMAIN a.cfg :
        /\ e[i] \in [self : BOOLEAN, left : Int] /\ e[i].self = a.entry[i].self
        /\ e[i].left = a.entry[i].left \/ e[i].left = a.cfg[i].timeout
  <2> SUFFICES ASSUME NEW i \in DOMAIN a.cfg
               PROVE  /\ e[i] \in [self : BOOLEAN, left : Int] /\ e[i].self = a.entry[i].self
                      /\ e[i].left = a.entry[i].left \/ e[i].left = a.cfg[i].timeout
    OBVIOUS
  <2>1. a.entry[i] \in [self : BOOLEAN, left : Int] /\ a.cfg[i].timeout \in Int
    BY AutoFields, EntryFields
  <2>2. e[i] = a.entry[i] \/ e[i] = [a.entry[i] EXCEPT !.left = a.cfg[i].timeout]
    BY <1>3
  <2> QED
    BY <2>1, <2>2
<1>5. e \in [DOMAIN a.cfg -> [self : BOOLEAN, left : Int]]
  BY <1>3, <1>4
<1> HIDE DEF e, age, ends
<1>6. /\ b \in AutoStates(a.cfg) /\ b.cfg = a.cfg /\ b.entry = e /\ b.age = age
      /\ b.on = a.on /\ b.told = a.told /\ b.owner = a.owner /\ b.cut = a.cut /\ b.raced = a.raced
  BY <1>2, <1>5 DEF AutoIsRight, AutoStates
<1> HIDE DEF b
<1>7. ASSUME NEW i \in DOMAIN a.cfg PROVE EntryIsRight(b, i)
  <2>1. /\ EntryIsRight(a, i) /\ a.cfg[i].timeout \in Nat /\ a.age[i] \in Nat
        /\ a.entry[i].left \in Int
    BY AutoFields, EntryFields DEF AutoIsRight
  <2> QED
    BY <1>2, <1>3, <1>4, <1>6, <2>1 DEF EntryIsRight
<1>8. AutoIsRight(b)
  BY <1>6, <1>7 DEF AutoIsRight
<1>9. ends \subseteq DOMAIN b.cfg /\ \A i \in ends : b.age[i] = b.cfg[i].timeout
  BY <1>2, <1>3, <1>6
<1> QED
  BY <1>1, <1>8, <1>9, EndsIsRight

LEMMA MatchedEntry ==
    ASSUME NEW c \in EntryConfigs, NEW device, NEW i \in MatchEntry(c, device)
    PROVE  i \in DOMAIN c
<1> DEFINE exact == {j \in DOMAIN c : c[j].device = device}
           any == {j \in DOMAIN c : c[j].device = 0}
<1>1. exact \subseteq Nat /\ any \subseteq Nat
  BY EntryFields
<1>2. /\ exact # {} => Min(exact) \in exact
      /\ any # {} => Min(any) \in any
  <2> HIDE DEF exact, any
  <2> QED
    BY <1>1, LeastChunk
<1> QED
  BY <1>2 DEF MatchEntry

\* pointing_step arms an entry whose layer it turned on, shares with another entry or holds.
LEMMA PointingIsRight ==
    ASSUME NEW a, AutoIsRight(a), NEW i \in DOMAIN a.cfg, NEW activated \in BOOLEAN,
           a.cfg[i].layer \in a.on,
           activated => a.owner[a.cfg[i].layer] = "auto"
    PROVE  AutoIsRight(PointingStep(a, i, activated))
<1>1. CASE ~ (activated \/ LayerSharedWithOther(a.cfg, a.entry, i) \/ a.entry[i].self)
  BY <1>1 DEF PointingStep
<1>2. CASE activated \/ LayerSharedWithOther(a.cfg, a.entry, i) \/ a.entry[i].self
  <2> DEFINE new == [self |-> TRUE, left |-> a.cfg[i].timeout]
             e == [a.entry EXCEPT ![i] = new]
             age == [a.age EXCEPT ![i] = 0]
             b == [a EXCEPT !.entry = e, !.age = age]
             l == a.cfg[i].layer
  <2>1. PointingStep(a, i, activated) = b
    BY <1>2 DEF PointingStep
  <2>2. a.cfg[i].timeout \in Nat
    BY EntryFields, AutoFields
  <2>3. new \in [self : BOOLEAN, left : Int] /\ new.self /\ new.left = a.cfg[i].timeout
    BY <2>2
  <2> HIDE DEF new
  <2>4. /\ e \in [DOMAIN a.cfg -> [self : BOOLEAN, left : Int]]
        /\ \A j \in DOMAIN a.cfg : e[j] = IF j = i THEN new ELSE a.entry[j]
    BY <2>3, AutoFields
  <2>5. /\ age \in [DOMAIN a.cfg -> Nat]
        /\ \A j \in DOMAIN a.cfg : age[j] = IF j = i THEN 0 ELSE a.age[j]
    BY AutoFields
  <2> HIDE DEF e, age
  <2>6. /\ b \in AutoStates(a.cfg) /\ b.cfg = a.cfg /\ b.entry = e /\ b.age = age
        /\ b.on = a.on /\ b.told = a.told /\ b.owner = a.owner /\ b.cut = a.cut /\ b.raced = a.raced
    BY <2>4, <2>5 DEF AutoIsRight, AutoStates
  <2> HIDE DEF b
  <2>7. \A j \in DOMAIN a.cfg : EntryIsRight(a, j)
    BY DEF AutoIsRight
  <2>8. a.owner[l] = "auto" \/ l \in a.raced
    <3>1. CASE activated
      BY <3>1
    <3>2. CASE LayerSharedWithOther(a.cfg, a.entry, i)
      <4>1. PICK j \in DOMAIN a.entry : a.entry[j].self /\ a.cfg[j].layer = l
        BY <3>2 DEF LayerSharedWithOther
      <4>2. j \in DOMAIN a.cfg
        BY AutoFields
      <4> QED
        BY <2>7, <4>1, <4>2 DEF EntryIsRight
    <3>3. CASE a.entry[i].self
      BY <2>7, <3>3 DEF EntryIsRight
    <3> QED
      BY <1>2, <3>1, <3>2, <3>3
  <2>9. ASSUME NEW j \in DOMAIN a.cfg PROVE EntryIsRight(b, j)
    <3>1. CASE j = i
      BY <2>2, <2>3, <2>4, <2>5, <2>6, <2>8, <3>1 DEF EntryIsRight
    <3>2. CASE j # i
      BY <2>4, <2>5, <2>6, <2>7, <3>2 DEF EntryIsRight
    <3> QED
      BY <3>1, <3>2
  <2> QED
    BY <2>1, <2>6, <2>9 DEF AutoIsRight
<1> QED
  BY <1>1, <1>2

LEMMA MotionIsRight ==
    ASSUME AutoInv, NEW device \in Devices, Motion(device)
    PROVE  AutoInv'
<1> DEFINE a == [auto EXCEPT !.motions = @ + 1]
<1>1. AutoIsRight(auto)
  BY DEF AutoInv
<1>2. AutoIsRight(a) /\ a.cfg = auto.cfg
  <2>1. /\ a \in AutoStates(auto.cfg) /\ a.on = auto.on /\ a.told = auto.told
        /\ a.entry = auto.entry /\ a.owner = auto.owner /\ a.raced = auto.raced
        /\ a.cut = auto.cut /\ a.age = auto.age
    BY <1>1 DEF AutoIsRight, AutoStates
  <2> HIDE DEF a
  <2> QED
    BY <1>1, <2>1, BesidesIsRight
<1> HIDE DEF a
<1>3. CASE auto' = a
  BY <1>2, <1>3 DEF AutoInv
<1>4. ASSUME NEW i \in MatchEntry(a.cfg, device),
             auto' = PointingStep(TurnedOn(a, a.cfg[i].layer, "auto"), i, a.cfg[i].layer \notin a.on)
      PROVE  AutoInv'
  <2> DEFINE l == a.cfg[i].layer
             b == TurnedOn(a, l, "auto")
  <2>1. a.cfg \in EntryConfigs /\ i \in DOMAIN a.cfg /\ l \in AutoLayers(a.cfg)
    BY <1>2, AutoFields, MatchedEntry, EntryFields
  <2>2. /\ AutoIsRight(b) /\ b.cfg = a.cfg /\ l \in b.on
        /\ l \notin a.on => b.owner[l] = "auto"
    BY <1>2, <2>1, TurnedOnIsRight
  <2> HIDE DEF b
  <2>3. (l \notin a.on) \in BOOLEAN
    OBVIOUS
  <2>4. AutoIsRight(PointingStep(b, i, l \notin a.on))
    BY <2>1, <2>2, <2>3, PointingIsRight
  <2> QED
    BY <1>4, <2>4 DEF AutoInv, b
<1> QED
  BY <1>3, <1>4 DEF Motion, a

LEMMA AutoTickIsRight ==
    ASSUME AutoInv, AutoTick
    PROVE  AutoInv'
<1> DEFINE e == [i \in DOMAIN auto.entry |-> [auto.entry[i] EXCEPT !.left = Max({auto.entry[i].left - 1, Unset})]]
           age == [i \in DOMAIN auto.age |-> Min({auto.age[i] + 1, auto.cfg[i].timeout})]
<1>1. auto' = [auto EXCEPT !.entry = e, !.age = age] /\ Expired(auto) = {}
  BY Zenon DEF AutoTick
<1>2. AutoIsRight(auto)
  BY DEF AutoInv
<1>3. ASSUME NEW i \in DOMAIN auto.cfg
      PROVE  /\ e[i] \in [self : BOOLEAN, left : Int] /\ e[i].self = auto.entry[i].self
             /\ e[i].left = IF auto.entry[i].left - 1 >= -1 THEN auto.entry[i].left - 1 ELSE -1
             /\ age[i] \in Nat
             /\ age[i] = IF auto.age[i] + 1 <= auto.cfg[i].timeout THEN auto.age[i] + 1
                         ELSE auto.cfg[i].timeout
  <2>1. /\ auto.entry[i] \in [self : BOOLEAN, left : Int] /\ auto.age[i] \in Nat
        /\ auto.cfg[i].timeout \in Nat /\ i \in DOMAIN auto.entry /\ i \in DOMAIN auto.age
    BY <1>2, <1>3, AutoFields, EntryFields
  <2>2. Max({auto.entry[i].left - 1, Unset}) =
            IF auto.entry[i].left - 1 >= -1 THEN auto.entry[i].left - 1 ELSE -1
    BY <2>1, GreaterOfTwo DEF Unset
  <2>3. Min({auto.age[i] + 1, auto.cfg[i].timeout}) =
            IF auto.age[i] + 1 <= auto.cfg[i].timeout THEN auto.age[i] + 1 ELSE auto.cfg[i].timeout
    BY <2>1, LesserOfTwo
  <2> QED
    BY <2>1, <2>2, <2>3
<1>4. /\ e \in [DOMAIN auto.cfg -> [self : BOOLEAN, left : Int]]
      /\ age \in [DOMAIN auto.cfg -> Nat]
  <2>1. DOMAIN auto.entry = DOMAIN auto.cfg /\ DOMAIN auto.age = DOMAIN auto.cfg
    BY <1>2, AutoFields
  <2> QED
    BY <1>3, <2>1
<1>5. \A i \in DOMAIN auto.cfg : auto.entry[i].self => auto.entry[i].left # 0
  BY <1>1, <1>2, AutoFields DEF Expired
<1> HIDE DEF e, age
<1>6. /\ auto' \in AutoStates(auto.cfg) /\ auto'.cfg = auto.cfg /\ auto'.entry = e
      /\ auto'.age = age /\ auto'.on = auto.on /\ auto'.owner = auto.owner
      /\ auto'.cut = auto.cut /\ auto'.raced = auto.raced /\ auto'.told = auto.told
  BY <1>1, <1>2, <1>4 DEF AutoIsRight, AutoStates
<1>7. ASSUME NEW i \in DOMAIN auto.cfg PROVE EntryIsRight(auto', i)
  <2>1. /\ EntryIsRight(auto, i) /\ auto.age[i] \in Nat /\ auto.cfg[i].timeout \in Nat
        /\ auto.entry[i].left \in Int
    BY <1>2, AutoFields, EntryFields DEF AutoIsRight
  <2> QED
    BY <1>3, <1>5, <1>6, <2>1 DEF EntryIsRight
<1> QED
  BY <1>2, <1>6, <1>7 DEF AutoInv, AutoIsRight

LEMMA LayerKeysAreRight ==
    ASSUME AutoInv, NEW l \in AutoLayers(auto.cfg), MomentaryKey(l) \/ ToggleKey(l)
    PROVE  AutoInv'
<1>1. AutoIsRight(auto) /\ l \in Nat
  <2>1. AutoIsRight(auto)
    BY DEF AutoInv
  <2> QED
    BY <2>1, AutoFields, EntryFields DEF AutoLayers
<1>2. PICK held \in SUBSET Nat :
        \/ auto' = TurnedOff([auto EXCEPT !.keys = @ + 1, !.held = held], l)
        \/ auto' = TurnedOn([auto EXCEPT !.keys = @ + 1, !.held = held], l, "key")
  <2> DEFINE a == [auto EXCEPT !.keys = @ + 1]
  <2>1. /\ a.held = auto.held /\ auto.held \subseteq Nat
        /\ \A h : [a EXCEPT !.held = h] = [auto EXCEPT !.keys = @ + 1, !.held = h]
        /\ [auto EXCEPT !.keys = @ + 1, !.held = auto.held] = a
    BY <1>1 DEF AutoIsRight, AutoStates
  <2>2. CASE MomentaryKey(l)
    <3> DEFINE off == auto.held \ {l}
               on == auto.held \union {l}
    <3>1. off \in SUBSET Nat /\ on \in SUBSET Nat
      BY <1>1, <2>1
    <3>2. \/ auto' = TurnedOff([a EXCEPT !.held = off], l)
          \/ auto' = TurnedOn([a EXCEPT !.held = on], l, "key")
      BY <2>1, <2>2 DEF MomentaryKey
    <3> HIDE DEF off, on
    <3> QED
      BY <2>1, <3>1, <3>2
  <2>3. CASE ToggleKey(l)
    <3>1. \/ auto' = TurnedOff(a, l)
          \/ auto' = TurnedOn(a, l, "key")
      BY <2>3 DEF ToggleKey
    <3> QED
      BY <2>1, <3>1
  <2> QED
    BY <2>2, <2>3
<1> DEFINE a == [auto EXCEPT !.keys = auto.keys + 1, !.held = held]
<1>3. AutoIsRight(a) /\ a.cfg = auto.cfg
  <2> DEFINE n == auto.keys + 1
  <2>2. n \in Int /\ a = [auto EXCEPT !.keys = n, !.held = held]
    BY <1>1, AutoFields
  <2> HIDE DEF n, a
  <2>1. /\ a \in AutoStates(auto.cfg) /\ a.on = auto.on /\ a.told = auto.told
        /\ a.entry = auto.entry /\ a.owner = auto.owner /\ a.raced = auto.raced
        /\ a.cut = auto.cut /\ a.age = auto.age
    BY <1>1, <2>2 DEF AutoIsRight, AutoStates
  <2> QED
    BY <1>1, <2>1, BesidesIsRight
<1>4. auto' = TurnedOff(a, l) \/ auto' = TurnedOn(a, l, "key")
  BY <1>2
<1> HIDE DEF a
<1> QED
  BY <1>3, <1>4, TurnedOnIsRight, TurnedOffIsRight DEF AutoInv

LEMMA TypingIsRight ==
    ASSUME AutoInv, ActionEvent \/ \E x \in {"plain", "mouse"} : TypeKey(x)
    PROVE  AutoInv'
<1>1. AutoIsRight(auto)
  BY DEF AutoInv
<1>2. CASE ActionEvent
  <2> DEFINE a == [auto EXCEPT !.typed = "none"]
  <2>1. /\ a \in AutoStates(auto.cfg) /\ a.on = auto.on /\ a.told = auto.told
        /\ a.entry = auto.entry /\ a.owner = auto.owner /\ a.raced = auto.raced
        /\ a.cut = auto.cut /\ a.age = auto.age
    BY <1>1 DEF AutoIsRight, AutoStates
  <2>2. auto' = KeypressStep(a, auto.typed)
    BY <1>2 DEF ActionEvent
  <2> HIDE DEF a
  <2>3. AutoIsRight(a)
    BY <1>1, <2>1, BesidesIsRight
  <2> QED
    BY <2>2, <2>3, KeypressIsRight DEF AutoInv
<1>3. CASE \E x \in {"plain", "mouse"} : TypeKey(x)
  <2>1. PICK x \in {"plain", "mouse"} : auto' = [auto EXCEPT !.typed = x, !.strokes = auto.strokes + 1]
    BY <1>3 DEF TypeKey
  <2> DEFINE a == [auto EXCEPT !.typed = x, !.strokes = auto.strokes + 1]
  <2> DEFINE n == auto.strokes + 1
  <2>4. n \in Int /\ a = [auto EXCEPT !.typed = x, !.strokes = n]
    BY <1>1, AutoFields
  <2>3. auto' = a
    BY <2>1
  <2> HIDE DEF n, a
  <2>2. /\ a \in AutoStates(auto.cfg) /\ a.on = auto.on /\ a.told = auto.told
        /\ a.entry = auto.entry /\ a.owner = auto.owner /\ a.raced = auto.raced
        /\ a.cut = auto.cut /\ a.age = auto.age
    BY <1>1, <2>4 DEF AutoIsRight, AutoStates
  <2> QED
    BY <1>1, <2>2, <2>3, BesidesIsRight DEF AutoInv
<1> QED
  BY <1>2, <1>3

LEMMA AutoStep ==
    ASSUME AutoInv, AutoNext
    PROVE  AutoInv'
BY LayerChangeIsRight, DeadlineIsRight, MotionIsRight, AutoTickIsRight, LayerKeysAreRight,
   TypingIsRight DEF AutoNext

LEMMA AutoInitially ==
    ASSUME auto \in AutoStarts
    PROVE  AutoInv
<1>1. PICK c \in EntryConfigs :
        auto = [cfg |-> c, on |-> {}, held |-> {}, told |-> FALSE, typed |-> "none",
                entry |-> [i \in DOMAIN c |-> [self |-> FALSE, left |-> Unset]],
                owner |-> [l \in AutoLayers(c) |-> "none"], raced |-> {}, cut |-> {},
                age |-> [i \in DOMAIN c |-> c[i].timeout],
                motions |-> 0, keys |-> 0, strokes |-> 0]
  BY DEF AutoStarts
<1>2. \A i \in DOMAIN c : c[i].timeout \in Nat
  BY EntryFields
<1>3. auto \in AutoStates(c) /\ auto.cfg = c
  BY <1>1, <1>2 DEF AutoStates, Unset
<1>4. \A i \in DOMAIN c : ~ auto.entry[i].self /\ auto.age[i] = c[i].timeout
  BY <1>1
<1> QED
  BY <1>2, <1>3, <1>4 DEF AutoInv, AutoIsRight, EntryIsRight

LEMMA AutoInvHelps == AutoInv => StaysWhileMoving
<1> SUFFICES ASSUME AutoInv, NEW i \in DOMAIN auto.cfg, auto.age[i] < auto.cfg[i].timeout
             PROVE  auto.cfg[i].layer \in auto.on \union auto.cut
  BY DEF StaysWhileMoving
<1>1. EntryIsRight(auto, i) /\ auto.cfg[i].timeout \in Nat
  BY EntryFields DEF AutoInv, AutoIsRight
<1>2. auto.entry[i].self
  BY <1>1 DEF EntryIsRight
<1> QED
  BY <1>1, <1>2 DEF EntryIsRight

-----------------------------------------------------------------------------
(* The mouse keys.                                                         *)

Given == {k.dir : k \in MouseBoard}

ReportStates == [x : Int, y : Int, wheel : Int, pan : Int, buttons : SUBSET Given]

MouseStates ==
    [cfg : MouseConfigs, down : SUBSET MouseBoard, accel : SUBSET Given, events : Int,
     report : ReportStates,
     sent : ReportStates,
     dir : [Categories -> [x : Int, y : Int, repeat : Nat, timer : Int]]]

\* The keys of S with this meaning.
CountOf(S, c, way) == Cardinality({k \in S : k.cat = c /\ k.dir = way})

\* A counter is what the keys that are down add up to.
CountersAreRight(m) ==
    \A c \in Categories :
        /\ m.dir[c].x = CountOf(m.down, c, "right") - CountOf(m.down, c, "left")
        /\ m.dir[c].y = CountOf(m.down, c, "down") - CountOf(m.down, c, "up")

\* The report goes the way of the counters, and what was sent last goes no other way.
GoesWith(r, dir) ==
    /\ Signum(r.x) = Signum(dir["move"].x) /\ Signum(r.y) = Signum(dir["move"].y)
    /\ Signum(r.wheel) = - Signum(dir["wheel"].y) /\ Signum(r.pan) = Signum(dir["wheel"].x)

NotAgainst(r, dir) ==
    /\ Signum(r.x) \in {0, Signum(dir["move"].x)} /\ Signum(r.y) \in {0, Signum(dir["move"].y)}
    /\ Signum(r.wheel) \in {0, - Signum(dir["wheel"].y)}
    /\ Signum(r.pan) \in {0, Signum(dir["wheel"].x)}

MouseIsRight(m) ==
    /\ m \in MouseStates
    /\ CountersAreRight(m)
    /\ GoesWith(m.report, m.dir)
    /\ NotAgainst(m.sent, m.dir)

MouseInv == MouseIsRight(mouse)

LEMMA CountIsNat ==
    ASSUME NEW S \in SUBSET MouseBoard, NEW c, NEW way
    PROVE  /\ CountOf(S, c, way) \in Nat
           /\ IsFiniteSet({k \in S : k.cat = c /\ k.dir = way})
<1> DEFINE T == {k \in S : k.cat = c /\ k.dir = way}
<1>1. T \subseteq MouseBoard
  OBVIOUS
<1> HIDE DEF T
<1>2. IsFiniteSet(T) /\ Cardinality(T) \in Nat
  <2>1. IsFiniteSet(T)
    BY <1>1, MouseSizes, FS_Subset
  <2>2. Cardinality(T) \in Nat
    BY <2>1, FS_CardinalityType
  <2> QED
    BY <2>1, <2>2
<1> QED
  BY <1>2 DEF CountOf, T

LEMMA CountChanges ==
    ASSUME NEW S \in SUBSET MouseBoard, NEW k \in MouseBoard, NEW c, NEW way
    PROVE  LET one == IF k.cat = c /\ k.dir = way THEN 1 ELSE 0
           IN /\ k \notin S => CountOf(S \union {k}, c, way) = CountOf(S, c, way) + one
              /\ k \in S => CountOf(S \ {k}, c, way) = CountOf(S, c, way) - one
<1> DEFINE T == {x \in S : x.cat = c /\ x.dir = way}
           U == {x \in S \union {k} : x.cat = c /\ x.dir = way}
           V == {x \in S \ {k} : x.cat = c /\ x.dir = way}
<1>1. IsFiniteSet(T) /\ Cardinality(T) \in Nat
  <2>1. IsFiniteSet(T)
    BY CountIsNat
  <2> QED
    BY <2>1, FS_CardinalityType
<1>2. /\ CountOf(S, c, way) = Cardinality(T) /\ CountOf(S \union {k}, c, way) = Cardinality(U)
      /\ CountOf(S \ {k}, c, way) = Cardinality(V)
  BY DEF CountOf
<1>3. CASE k.cat = c /\ k.dir = way
  <2>1. U = T \union {k} /\ V = T \ {k} /\ (k \in T <=> k \in S)
    BY <1>3
  <2> HIDE DEF T, U, V
  <2>2. k \notin S => Cardinality(U) = Cardinality(T) + 1
    BY <1>1, <2>1, FS_AddElement
  <2>3. k \in S => Cardinality(V) = Cardinality(T) - 1
    BY <1>1, <2>1, FS_RemoveElement
  <2> QED
    BY <1>1, <1>2, <1>3, <2>2, <2>3
<1>4. CASE ~ (k.cat = c /\ k.dir = way)
  <2>1. U = T /\ V = T
    BY <1>4
  <2> HIDE DEF T, U, V
  <2> QED
    BY <1>1, <1>2, <1>4, <2>1
<1> QED
  BY <1>3, <1>4

LEMMA MouseFields ==
    ASSUME NEW m \in MouseStates
    PROVE  /\ m.cfg \in MouseConfigs /\ m.down \subseteq MouseBoard /\ m.accel \subseteq Given
           /\ m.events \in Int
           /\ m.report \in ReportStates
           /\ m.sent \in ReportStates
           /\ m.dir \in [Categories -> [x : Int, y : Int, repeat : Nat, timer : Int]]
           /\ m.dir["move"] \in [x : Int, y : Int, repeat : Nat, timer : Int]
           /\ m.dir["wheel"] \in [x : Int, y : Int, repeat : Nat, timer : Int]
BY DEF MouseStates, Categories

LEMMA Signs ==
    ASSUME NEW n \in Int
    PROVE  /\ Signum(n) \in {-1, 0, 1} /\ Signum(- n) = - Signum(n)
           /\ \A u \in Nat : u > 0 => Signum(n) * u \in Int /\ Signum(Signum(n) * u) = Signum(n)
           /\ Signum(n) * n \in Nat
BY DEF Signum

\* The first step of the speed, from delta on.
LEMMA BaseIsNat ==
    ASSUME NEW cfg \in Curves, NEW repeat \in Nat
    PROVE  Base(cfg, repeat) \in Nat
<1>1. /\ cfg.delta \in Nat /\ cfg.speed \in Nat /\ cfg.ticks \in Nat /\ cfg.delta * cfg.speed \in Nat
  BY DEF Curves
<1>2. CASE repeat = 0 \/ repeat >= cfg.ticks
  BY <1>1, <1>2 DEF Base
<1>3. CASE repeat # 0 /\ repeat < cfg.ticks
  <2> DEFINE rise == Max({cfg.delta * cfg.speed - cfg.delta, 0})
             way == 2 * repeat * cfg.ticks - repeat * repeat
             whole == cfg.ticks * cfg.ticks
  <2>1. rise \in Nat
    BY <1>1, GreaterOfTwo
  <2>2. way = repeat * (2 * cfg.ticks - repeat) /\ 2 * cfg.ticks - repeat \in Nat
    BY <1>1, <1>3
  <2>3. way \in Nat
    BY <2>2
  <2>4. whole \in Nat /\ whole > 0
    BY <1>1, <1>3
  <2>5. Base(cfg, repeat) = cfg.delta + (rise * way) \div whole
    BY <1>1, <1>3 DEF Base
  <2> HIDE DEF rise, way, whole
  <2>6. rise * way \in Nat
    BY <2>1, <2>3
  <2>7. \A n, w \in Nat : w > 0 => n \div w \in Nat
    OBVIOUS
  <2> QED
    BY <1>1, <2>4, <2>5, <2>6, <2>7
<1> QED
  BY <1>1, <1>2, <1>3

LEMMA UnitIsPositive ==
    ASSUME NEW cfg \in Curves, NEW accel, NEW repeat \in Nat
    PROVE  CalculateUnit(cfg, accel, repeat) \in Nat /\ CalculateUnit(cfg, accel, repeat) > 0
<1> DEFINE base == Base(cfg, repeat)
<1>1. base \in Nat /\ cfg.max \in Nat
  BY BaseIsNat DEF Curves
<1> HIDE DEF base
<1>2. Multiplied(base, accel) \in Nat
  BY <1>1 DEF Multiplied, DivCeil
<1> DEFINE n == Multiplied(base, accel)
<1>3. Clamped(n, cfg.max) \in Nat /\ Clamped(n, cfg.max) > 0
  <2> HIDE DEF n
  <2> QED
    BY <1>1, <1>2 DEF Clamped, n
<1> QED
  BY <1>3 DEF CalculateUnit, base

\* The value of an axis has the sign of its counter.
LEMMA AxisGoesWith ==
    ASSUME NEW m \in MouseStates, NEW c \in Categories, NEW n \in Int,
           n = m.dir[c].x \/ n = m.dir[c].y
    PROVE  AxisValue(m, c, n) \in Int /\ Signum(AxisValue(m, c, n)) = Signum(n)
<1> DEFINE u == Unit(m, c)
<1>1. u \in Nat /\ u > 0
  <2>1. m.cfg[c] \in Curves /\ m.dir[c].repeat \in Nat
    BY MouseFields, MouseSizes DEF Categories
  <2> QED
    BY <2>1, UnitIsPositive DEF Unit
<1> HIDE DEF u
<1>2. Signum(n) * u \in Int /\ Signum(Signum(n) * u) = Signum(n)
  BY <1>1, Signs
<1>3. CASE HasActiveDirection(m.dir[c])
  BY <1>2, <1>3 DEF AxisValue, u
<1>4. CASE ~ HasActiveDirection(m.dir[c])
  <2>1. n = 0
    BY <1>4 DEF HasActiveDirection
  <2> QED
    BY <1>4, <2>1 DEF AxisValue, Signum
<1> QED
  BY <1>3, <1>4

LEMMA RecalculatedGoesWith ==
    ASSUME NEW m \in MouseStates
    PROVE  LET n == Recalculated(m)
           IN /\ n \in MouseStates /\ n.down = m.down /\ n.dir = m.dir /\ n.sent = m.sent
              /\ GoesWith(n.report, m.dir)
<1> DEFINE mv == m.dir["move"]
           wh == m.dir["wheel"]
           x == AxisValue(m, "move", mv.x)
           y == AxisValue(m, "move", mv.y)
           w == AxisValue(m, "wheel", wh.y)
           p == AxisValue(m, "wheel", wh.x)
           v == - w
           r == [m.report EXCEPT !.x = x, !.y = y, !.wheel = v, !.pan = p]
<1>1. /\ mv.x \in Int /\ mv.y \in Int /\ wh.x \in Int /\ wh.y \in Int
      /\ "move" \in Categories /\ "wheel" \in Categories
  BY MouseFields DEF Categories
<1>2. /\ x \in Int /\ Signum(x) = Signum(mv.x) /\ y \in Int /\ Signum(y) = Signum(mv.y)
      /\ w \in Int /\ Signum(w) = Signum(wh.y) /\ p \in Int /\ Signum(p) = Signum(wh.x)
  BY <1>1, AxisGoesWith
<1>3. Recalculated(m) = [m EXCEPT !.report = r]
  BY DEF Recalculated
<1> HIDE DEF x, y, w, p
<1>4. v \in Int /\ Signum(v) = - Signum(w)
  BY <1>2, Signs
<1> HIDE DEF v
<1>5. r \in ReportStates /\ r.x = x /\ r.y = y /\ r.wheel = v /\ r.pan = p
  <2>1. m.report \in ReportStates
    BY MouseFields
  <2> QED
    BY <1>2, <1>4, <2>1 DEF ReportStates
<1> HIDE DEF r
<1>6. LET n == Recalculated(m)
      IN n \in MouseStates /\ n.down = m.down /\ n.dir = m.dir /\ n.sent = m.sent /\ n.report = r
  BY <1>3, <1>5 DEF MouseStates
<1> QED
  BY <1>2, <1>4, <1>5, <1>6 DEF GoesWith

LEMMA ShortenedKeepsSign ==
    ASSUME NEW v \in Int, v # 0
    PROVE  Shortened(v) \in Int /\ Signum(Shortened(v)) = Signum(v)
<1> DEFINE n == (Signum(v) * v * 181 + 128) \div 256
           u == Max({1, n})
<1>1. n \in Int
  <2>1. Signum(v) * v \in Nat
    BY Signs
  <2> QED
    BY <2>1
<1> HIDE DEF n
<1>2. u \in Nat /\ u > 0
  BY <1>1, GreaterOfTwo
<1> HIDE DEF u
<1> QED
  BY <1>2, Signs DEF Shortened, u, n

LEMMA ReportKeepsSigns ==
    ASSUME NEW m, m.report \in ReportStates
    PROVE  LET r == m.report
               s == GetReport(m)
           IN /\ s \in ReportStates
              /\ Signum(s.x) = Signum(r.x) /\ Signum(s.y) = Signum(r.y)
              /\ Signum(s.wheel) = Signum(r.wheel) /\ Signum(s.pan) = Signum(r.pan)
<1>1. ASSUME NEW r \in ReportStates
      PROVE  LET s == Compensated(r, "x", "y")
             IN /\ s \in ReportStates /\ s.wheel = r.wheel /\ s.pan = r.pan
                /\ Signum(s.x) = Signum(r.x) /\ Signum(s.y) = Signum(r.y)
  <2>1. CASE r.x # 0 /\ r.y # 0
    <3>1. /\ Shortened(r.x) \in Int /\ Signum(Shortened(r.x)) = Signum(r.x)
          /\ Shortened(r.y) \in Int /\ Signum(Shortened(r.y)) = Signum(r.y)
      BY <2>1, ShortenedKeepsSign DEF ReportStates
    <3>2. Compensated(r, "x", "y") = [r EXCEPT !.x = Shortened(r.x), !.y = Shortened(r.y)]
      BY <2>1 DEF Compensated, ReportStates
    <3> QED
      BY <3>1, <3>2 DEF ReportStates
  <2>2. CASE ~ (r.x # 0 /\ r.y # 0)
    BY <2>2 DEF Compensated, ReportStates
  <2> QED
    BY <2>1, <2>2
<1>2. ASSUME NEW r \in ReportStates
      PROVE  LET s == Compensated(r, "wheel", "pan")
             IN /\ s \in ReportStates /\ s.x = r.x /\ s.y = r.y
                /\ Signum(s.wheel) = Signum(r.wheel) /\ Signum(s.pan) = Signum(r.pan)
  <2>1. CASE r.wheel # 0 /\ r.pan # 0
    <3>1. /\ Shortened(r.wheel) \in Int /\ Signum(Shortened(r.wheel)) = Signum(r.wheel)
          /\ Shortened(r.pan) \in Int /\ Signum(Shortened(r.pan)) = Signum(r.pan)
      BY <2>1, ShortenedKeepsSign DEF ReportStates
    <3>2. Compensated(r, "wheel", "pan") = [r EXCEPT !.wheel = Shortened(r.wheel), !.pan = Shortened(r.pan)]
      BY <2>1 DEF Compensated, ReportStates
    <3> QED
      BY <3>1, <3>2 DEF ReportStates
  <2>2. CASE ~ (r.wheel # 0 /\ r.pan # 0)
    BY <2>2 DEF Compensated, ReportStates
  <2> QED
    BY <2>1, <2>2
<1> QED
  BY <1>1, <1>2 DEF GetReport

DirectionStates == [x : Int, y : Int, repeat : Nat, timer : Int]

\* A direction counts one key more or less; its deadline is no matter here.
LEMMA UpdateCounts ==
    ASSUME NEW d \in DirectionStates, NEW way \in {"up", "down", "left", "right"},
           NEW by \in Int, NEW delay \in Int
    PROVE  LET e == Update(d, way, by, delay)
           IN /\ e \in DirectionStates
              /\ e.x = d.x + (IF way = "right" THEN by ELSE IF way = "left" THEN - by ELSE 0)
              /\ e.y = d.y + (IF way = "down" THEN by ELSE IF way = "up" THEN - by ELSE 0)
<1> DEFINE x == d.x + (CASE way = "right" -> by [] way = "left" -> -by [] OTHER -> 0)
           y == d.y + (CASE way = "down" -> by [] way = "up" -> -by [] OTHER -> 0)
           e == [d EXCEPT !.x = x, !.y = y]
<1>1. /\ x = d.x + (IF way = "right" THEN by ELSE IF way = "left" THEN - by ELSE 0)
      /\ y = d.y + (IF way = "down" THEN by ELSE IF way = "up" THEN - by ELSE 0)
  OBVIOUS
<1>2. x \in Int /\ y \in Int
  BY <1>1 DEF DirectionStates
<1>3. Counted(d, way, by) = e
  BY DEF Counted
<1> HIDE DEF x, y
<1>4. e \in DirectionStates /\ e.x = x /\ e.y = y
  BY <1>2 DEF DirectionStates
<1>5. \/ Update(d, way, by, delay) = e
      \/ Update(d, way, by, delay) = [e EXCEPT !.repeat = 1, !.timer = delay]
      \/ Update(d, way, by, delay) = [e EXCEPT !.repeat = 0, !.timer = Never]
  BY <1>3 DEF Update
<1> HIDE DEF e
<1>6. Update(d, way, by, delay) \in DirectionStates /\ Update(d, way, by, delay).x = x
      /\ Update(d, way, by, delay).y = y
  <2> DEFINE f == Update(d, way, by, delay)
  <2> HIDE DEF f
  <2>1. CASE f = e
    BY <1>4, <2>1 DEF f
  <2>2. CASE f = [e EXCEPT !.repeat = 1, !.timer = delay]
    <3>1. f \in DirectionStates /\ f.x = x /\ f.y = y
      BY <1>4, <2>2 DEF DirectionStates
    <3> QED
      BY <3>1 DEF f
  <2>3. CASE f = [e EXCEPT !.repeat = 0, !.timer = Never]
    <3>1. f \in DirectionStates /\ f.x = x /\ f.y = y
      <4>1. Never \in Int
        BY DEF Never
      <4> QED
        BY <1>4, <2>3, <4>1 DEF DirectionStates
    <3> QED
      BY <3>1 DEF f
  <2> QED
    BY <1>5, <2>1, <2>2, <2>3 DEF f
<1> QED
  BY <1>1, <1>6

LEMMA DelayIsNat ==
    ASSUME NEW m \in MouseStates, NEW c \in Categories, NEW d
    PROVE  GetDelay(m.cfg[c], d) \in Nat
<1>1. m.cfg[c] \in Curves
  BY MouseFields, MouseSizes
<1> QED
  BY <1>1 DEF GetDelay, Curves

LEMMA SameDirections ==
    ASSUME NEW dir, NEW new, NEW r,
           \A c \in Categories : new[c].x = dir[c].x /\ new[c].y = dir[c].y
    PROVE  (GoesWith(r, dir) => GoesWith(r, new)) /\ (NotAgainst(r, dir) => NotAgainst(r, new))
<1>1. "move" \in Categories /\ "wheel" \in Categories
  BY DEF Categories
<1> QED
  BY <1>1 DEF GoesWith, NotAgainst

\* What is sent after a report was computed.
LEMMA SentGoesWith ==
    ASSUME NEW n \in MouseStates, GoesWith(n.report, n.dir)
    PROVE  /\ GetReport(n) \in ReportStates /\ NotAgainst(GetReport(n), n.dir)
           /\ \A fired : /\ Masked(GetReport(n), fired) \in ReportStates
                         /\ NotAgainst(Masked(GetReport(n), fired), n.dir)
<1> DEFINE s == GetReport(n)
<1>1. /\ s \in ReportStates
      /\ Signum(s.x) = Signum(n.report.x) /\ Signum(s.y) = Signum(n.report.y)
      /\ Signum(s.wheel) = Signum(n.report.wheel) /\ Signum(s.pan) = Signum(n.report.pan)
  BY MouseFields, ReportKeepsSigns
<1> HIDE DEF s
<1>2. NotAgainst(s, n.dir)
  BY <1>1 DEF GoesWith, NotAgainst
<1>3. ASSUME NEW fired PROVE Masked(s, fired) \in ReportStates /\ NotAgainst(Masked(s, fired), n.dir)
  <2> DEFINE x == IF "move" \in fired THEN s.x ELSE 0
             y == IF "move" \in fired THEN s.y ELSE 0
             w == IF "wheel" \in fired THEN s.wheel ELSE 0
             p == IF "wheel" \in fired THEN s.pan ELSE 0
             t == [s EXCEPT !.x = x, !.y = y, !.wheel = w, !.pan = p]
  <2>1. Masked(s, fired) = t
    BY DEF Masked
  <2>2. /\ x \in Int /\ (x = s.x \/ x = 0) /\ y \in Int /\ (y = s.y \/ y = 0)
        /\ w \in Int /\ (w = s.wheel \/ w = 0) /\ p \in Int /\ (p = s.pan \/ p = 0)
    BY <1>1 DEF ReportStates
  <2> HIDE DEF x, y, w, p
  <2>3. t \in ReportStates /\ t.x = x /\ t.y = y /\ t.wheel = w /\ t.pan = p
    BY <1>1, <2>2 DEF ReportStates
  <2> HIDE DEF t
  <2>4. Signum(0) = 0
    BY DEF Signum
  <2> QED
    BY <1>2, <2>1, <2>2, <2>3, <2>4 DEF NotAgainst
<1> QED
  BY <1>1, <1>2, <1>3 DEF s

LEMMA FireRepeatsIsRight ==
    ASSUME MouseInv, FireRepeats
    PROVE  MouseInv'
<1>1. MouseIsRight(mouse) /\ mouse \in MouseStates
  BY DEF MouseInv, MouseIsRight
<1>2. PICK fired : mouse' = [Recalculated(Ticked(mouse, fired)) EXCEPT
                                !.sent = Masked(GetReport(Recalculated(Ticked(mouse, fired))), fired)]
  BY DEF FireRepeats
<1> DEFINE dir == [c \in Categories |-> IF c \in fired THEN OnRepeatTick(mouse.cfg[c], mouse.dir[c]) ELSE mouse.dir[c]]
           m == Ticked(mouse, fired)
           n == Recalculated(m)
<1>3. ASSUME NEW c \in Categories
      PROVE  dir[c] \in DirectionStates /\ dir[c].x = mouse.dir[c].x /\ dir[c].y = mouse.dir[c].y
  <2>1. mouse.dir[c] \in DirectionStates
    BY <1>1, MouseFields DEF DirectionStates
  <2> DEFINE d == mouse.dir[c]
             repeat == IF d.repeat < mouse.cfg[c].ticks THEN d.repeat + 1 ELSE d.repeat
             delay == GetDelay(mouse.cfg[c], d)
  <2>2. OnRepeatTick(mouse.cfg[c], d) = [d EXCEPT !.repeat = repeat, !.timer = delay]
    BY DEF OnRepeatTick
  <2>3. repeat \in Nat /\ delay \in Int
    BY <1>1, <2>1, DelayIsNat DEF DirectionStates
  <2> HIDE DEF repeat, delay
  <2> QED
    BY <2>1, <2>2, <2>3 DEF DirectionStates
<1>4. m = [mouse EXCEPT !.dir = dir]
  BY DEF Ticked
<1>5. dir \in [Categories -> DirectionStates]
  BY <1>3
<1> HIDE DEF dir, m
<1>6. m \in MouseStates /\ m.dir = dir /\ m.down = mouse.down
  BY <1>1, <1>4, <1>5 DEF MouseStates, DirectionStates
<1>7. n \in MouseStates /\ n.down = mouse.down /\ n.dir = dir /\ GoesWith(n.report, dir)
  BY <1>6, RecalculatedGoesWith
<1> HIDE DEF n
<1> DEFINE s == Masked(GetReport(n), fired)
<1>8. s \in ReportStates /\ NotAgainst(s, dir)
  BY <1>7, SentGoesWith
<1>9. mouse' = [n EXCEPT !.sent = s]
  BY <1>2 DEF n, m
<1> HIDE DEF s
<1>10. /\ mouse' \in MouseStates /\ mouse'.down = mouse.down /\ mouse'.dir = dir
       /\ mouse'.report = n.report /\ mouse'.sent = s
  BY <1>7, <1>8, <1>9 DEF MouseStates
<1>11. CountersAreRight(mouse')
  BY <1>1, <1>3, <1>10 DEF MouseIsRight, CountersAreRight
<1> QED
  BY <1>7, <1>8, <1>10, <1>11 DEF MouseInv, MouseIsRight

LEMMA MouseTickIsRight ==
    ASSUME MouseInv, MouseTick
    PROVE  MouseInv'
<1>1. MouseIsRight(mouse) /\ mouse \in MouseStates
  BY DEF MouseInv, MouseIsRight
<1> DEFINE dir == [c \in Categories |-> [mouse.dir[c] EXCEPT !.timer = Max({mouse.dir[c].timer - 1, Never})]]
<1>2. mouse' = [mouse EXCEPT !.dir = dir]
  BY DEF MouseTick
<1>3. ASSUME NEW c \in Categories
      PROVE  dir[c] \in DirectionStates /\ dir[c].x = mouse.dir[c].x /\ dir[c].y = mouse.dir[c].y
  <2>1. mouse.dir[c] \in DirectionStates
    BY <1>1, MouseFields DEF DirectionStates
  <2> DEFINE timer == Max({mouse.dir[c].timer - 1, Never})
  <2>2. timer \in Int
    <3>1. mouse.dir[c].timer - 1 \in Int /\ Never \in Int
      BY <2>1 DEF DirectionStates, Never
    <3> QED
      BY <3>1, GreaterOfTwo
  <2>3. dir[c] = [mouse.dir[c] EXCEPT !.timer = timer]
    OBVIOUS
  <2> HIDE DEF timer, dir
  <2> QED
    BY <2>1, <2>2, <2>3 DEF DirectionStates
<1>4. dir \in [Categories -> DirectionStates]
  BY <1>3
<1> HIDE DEF dir
<1>5. /\ mouse' \in MouseStates /\ mouse'.down = mouse.down /\ mouse'.dir = dir
      /\ mouse'.report = mouse.report /\ mouse'.sent = mouse.sent
  BY <1>1, <1>2, <1>4 DEF MouseStates, DirectionStates
<1>6. CountersAreRight(mouse')
  BY <1>1, <1>3, <1>5 DEF MouseIsRight, CountersAreRight
<1>7. GoesWith(mouse.report, dir) /\ NotAgainst(mouse.sent, dir)
  BY <1>1, <1>3, SameDirections DEF MouseIsRight
<1> QED
  BY <1>5, <1>6, <1>7 DEF MouseInv, MouseIsRight

LEMMA MouseKeyIsRight ==
    ASSUME MouseInv, NEW k \in MouseBoard, MouseKey(k)
    PROVE  MouseInv'
<1>1. MouseIsRight(mouse) /\ mouse \in MouseStates
  BY DEF MouseInv, MouseIsRight
<1> DEFINE pressed == k \notin mouse.down
           down == IF pressed THEN mouse.down \union {k} ELSE mouse.down \ {k}
           events == mouse.events + 1
           m == [mouse EXCEPT !.down = down, !.events = events]
           by == IF pressed THEN 1 ELSE -1
<1>2. mouse' = Processed(m, k, pressed)
  BY DEF MouseKey
<1>3. down \subseteq MouseBoard /\ events \in Int /\ by \in Int
  BY <1>1, MouseFields
<1>4. \A c, way : CountOf(mouse.down, c, way) \in Nat
  BY <1>1, MouseFields, CountIsNat
<1>5. \A c, way : CountOf(down, c, way) =
                    CountOf(mouse.down, c, way) + (IF k.cat = c /\ k.dir = way THEN by ELSE 0)
  <2> TAKE c, way
  <2>1. mouse.down \in SUBSET MouseBoard
    BY <1>1, MouseFields
  <2>2. CASE pressed
    BY <1>4, <2>1, <2>2, CountChanges
  <2>3. CASE ~ pressed
    BY <1>4, <2>1, <2>3, CountChanges
  <2> QED
    BY <2>2, <2>3
<1> HIDE DEF pressed, down, events, by
<1>6. /\ m \in MouseStates /\ m.dir = mouse.dir /\ m.down = down /\ m.report = mouse.report
      /\ m.sent = mouse.sent /\ m.cfg = mouse.cfg
  BY <1>1, <1>3 DEF MouseStates
<1>7. k.dir \in Given
  BY DEF Given
<1> HIDE DEF m
<1>8. CASE k.cat \in Categories
  <2> DEFINE c == k.cat
             d == m.dir[c]
             delay == GetDelay(m.cfg[c], d)
             e == Update(d, k.dir, by, delay)
             o == [m EXCEPT !.dir[c] = e]
             n == Recalculated(o)
  <2>1. mouse' = IF n.report # m.report THEN SentReport(n) ELSE n
    BY <1>2, <1>8 DEF Processed, by, Categories
  <2>2. k.dir \in {"up", "down", "left", "right"} /\ d \in DirectionStates /\ delay \in Int
    <3>1. k.dir \in {"up", "down", "left", "right"}
      BY <1>8, MouseSizes
    <3>2. d \in DirectionStates
      BY <1>6, <1>8, MouseFields DEF DirectionStates
    <3>3. delay \in Nat
      BY <1>6, <1>8, DelayIsNat
    <3> HIDE DEF d, delay
    <3> QED
      BY <3>1, <3>2, <3>3
  <2>3. /\ e \in DirectionStates
        /\ e.x = d.x + (IF k.dir = "right" THEN by ELSE IF k.dir = "left" THEN - by ELSE 0)
        /\ e.y = d.y + (IF k.dir = "down" THEN by ELSE IF k.dir = "up" THEN - by ELSE 0)
    BY <1>3, <2>2, UpdateCounts
  <2> HIDE DEF delay, e
  <2> DEFINE dir == [m.dir EXCEPT ![c] = e]
  <2>4. /\ dir \in [Categories -> DirectionStates] /\ dir[c] = e
        /\ \A b \in Categories \ {c} : dir[b] = m.dir[b]
    BY <1>6, <1>8, <2>3, MouseFields DEF DirectionStates
  <2>5. o = [m EXCEPT !.dir = dir]
    BY <1>6 DEF MouseStates
  <2> HIDE DEF dir, o
  <2>6. /\ o \in MouseStates /\ o.dir = dir /\ o.down = down /\ o.report = mouse.report
        /\ o.sent = mouse.sent
    BY <1>6, <2>4, <2>5 DEF MouseStates, DirectionStates
  <2>7. n \in MouseStates /\ n.down = down /\ n.dir = dir /\ n.sent = mouse.sent /\ GoesWith(n.report, dir)
    BY <2>6, RecalculatedGoesWith
  <2> HIDE DEF n
  <2>8. ASSUME NEW b \in Categories
        PROVE  /\ dir[b].x = CountOf(down, b, "right") - CountOf(down, b, "left")
               /\ dir[b].y = CountOf(down, b, "down") - CountOf(down, b, "up")
    <3>1. /\ mouse.dir[b].x = CountOf(mouse.down, b, "right") - CountOf(mouse.down, b, "left")
          /\ mouse.dir[b].y = CountOf(mouse.down, b, "down") - CountOf(mouse.down, b, "up")
      BY <1>1 DEF MouseIsRight, CountersAreRight
    <3>2. CASE b # c
      BY <1>5, <1>4, <1>6, <2>4, <3>1, <3>2
    <3>3. CASE b = c
      <4>1. d = mouse.dir[b] /\ dir[b] = e
        BY <1>6, <2>4, <3>3
      <4>2. /\ CountOf(down, b, "right") = CountOf(mouse.down, b, "right") + (IF k.dir = "right" THEN by ELSE 0)
            /\ CountOf(down, b, "left") = CountOf(mouse.down, b, "left") + (IF k.dir = "left" THEN by ELSE 0)
            /\ CountOf(down, b, "down") = CountOf(mouse.down, b, "down") + (IF k.dir = "down" THEN by ELSE 0)
            /\ CountOf(down, b, "up") = CountOf(mouse.down, b, "up") + (IF k.dir = "up" THEN by ELSE 0)
        BY <1>5, <3>3
      <4> QED
        BY <1>3, <1>4, <2>2, <2>3, <3>1, <4>1, <4>2
    <3> QED
      BY <3>2, <3>3
  <2>9. CASE n.report # m.report
    <3> DEFINE s == GetReport(n)
    <3>1. s \in ReportStates /\ NotAgainst(s, dir)
      BY <2>7, SentGoesWith
    <3>2. mouse' = [n EXCEPT !.sent = s]
      BY <2>1, <2>9 DEF SentReport
    <3> HIDE DEF s
    <3>3. /\ mouse' \in MouseStates /\ mouse'.down = down /\ mouse'.dir = dir
          /\ mouse'.report = n.report /\ mouse'.sent = s
      BY <2>7, <3>1, <3>2 DEF MouseStates
    <3> QED
      BY <2>7, <2>8, <3>1, <3>3 DEF MouseInv, MouseIsRight, CountersAreRight
  <2>10. CASE n.report = m.report
    <3>1. GoesWith(mouse.report, mouse.dir) /\ GoesWith(mouse.report, dir) /\ NotAgainst(mouse.sent, mouse.dir)
      BY <1>1, <1>6, <2>7, <2>10 DEF MouseIsRight
    <3>2. NotAgainst(mouse.sent, dir)
      <4>1. - Signum(mouse.dir["wheel"].y) = - Signum(dir["wheel"].y)
        BY <3>1 DEF GoesWith
      <4> QED
        BY <3>1, <4>1 DEF GoesWith, NotAgainst
    <3>3. mouse' = n
      BY <2>1, <2>10
    <3> QED
      BY <2>7, <2>8, <3>2, <3>3 DEF MouseInv, MouseIsRight, CountersAreRight
  <2> QED
    BY <2>9, <2>10
<1>9. CASE k.cat \notin Categories
  <2>1. \A c \in Categories : \A way : CountOf(down, c, way) = CountOf(mouse.down, c, way)
    BY <1>5, <1>4, <1>9
  <2>2. k.cat = "accel" \/ k.cat = "button"
    BY <1>9, MouseSizes DEF Categories
  <2>3. MouseIsRight(m)
    BY <1>1, <1>6, <2>1 DEF MouseIsRight, CountersAreRight
  <2>4. CASE k.cat = "accel"
    <3> DEFINE accel == IF pressed THEN m.accel \union {k.dir} ELSE m.accel \ {k.dir}
    <3>1. mouse' = [m EXCEPT !.accel = accel]
      BY <1>2, <1>9, <2>4 DEF Processed
    <3>2. accel \subseteq Given
      BY <1>6, <1>7, MouseFields
    <3> HIDE DEF accel
    <3>3. /\ mouse' \in MouseStates /\ mouse'.down = m.down /\ mouse'.dir = m.dir
          /\ mouse'.report = m.report /\ mouse'.sent = m.sent
      BY <1>6, <3>1, <3>2 DEF MouseStates
    <3> QED
      BY <2>3, <3>3 DEF MouseInv, MouseIsRight, CountersAreRight
  <2>5. CASE k.cat = "button"
    <3> DEFINE buttons == IF pressed THEN m.report.buttons \union {k.dir} ELSE m.report.buttons \ {k.dir}
               r == [m.report EXCEPT !.buttons = buttons]
               n == [m EXCEPT !.report = r]
               s == GetReport(n)
    <3>1. m.report \in ReportStates
      BY <1>6, MouseFields
    <3>2. mouse' = [n EXCEPT !.sent = s]
      <4>1. mouse' = SentReport([m EXCEPT !.report.buttons = buttons])
        BY <1>2, <1>9, <2>5 DEF Processed, Categories
      <4>2. [m EXCEPT !.report.buttons = buttons] = n
        BY <1>6 DEF MouseStates
      <4> QED
        BY <4>1, <4>2 DEF SentReport
    <3>3. buttons \subseteq Given
      BY <1>7, <3>1 DEF ReportStates
    <3> HIDE DEF buttons
    <3>4. r \in ReportStates /\ r.x = m.report.x /\ r.y = m.report.y /\ r.wheel = m.report.wheel /\ r.pan = m.report.pan
      BY <3>1, <3>3 DEF ReportStates
    <3> HIDE DEF r
    <3>5. n \in MouseStates /\ n.report = r /\ n.dir = m.dir /\ n.down = m.down
      BY <1>6, <3>4 DEF MouseStates
    <3> HIDE DEF n
    <3>6. GoesWith(r, m.dir)
      BY <2>3, <3>4 DEF MouseIsRight, GoesWith
    <3>7. s \in ReportStates /\ NotAgainst(s, m.dir)
      BY <3>5, <3>6, SentGoesWith
    <3> HIDE DEF s
    <3>8. /\ mouse' \in MouseStates /\ mouse'.down = m.down /\ mouse'.dir = m.dir
          /\ mouse'.report = r /\ mouse'.sent = s
      BY <3>2, <3>5, <3>7 DEF MouseStates
    <3> QED
      BY <2>3, <3>6, <3>7, <3>8 DEF MouseInv, MouseIsRight, CountersAreRight
  <2> QED
    BY <2>2, <2>4, <2>5
<1> QED
  BY <1>8, <1>9

LEMMA MouseStep ==
    ASSUME MouseInv, MouseNext
    PROVE  MouseInv'
BY FireRepeatsIsRight, MouseTickIsRight, MouseKeyIsRight DEF MouseNext

LEMMA MouseInitially ==
    ASSUME mouse \in MouseStarts
    PROVE  MouseInv
<1> DEFINE none == [x |-> 0, y |-> 0, wheel |-> 0, pan |-> 0, buttons |-> {}]
           still == [x |-> 0, y |-> 0, repeat |-> 0, timer |-> Never]
<1>1. PICK cfg \in MouseConfigs :
        mouse = [cfg |-> cfg, down |-> {}, accel |-> {}, report |-> none, sent |-> none, events |-> 0,
                 dir |-> [c \in Categories |-> still]]
  BY DEF MouseStarts
<1>2. none \in ReportStates /\ still \in DirectionStates /\ Signum(0) = 0
  BY DEF ReportStates, DirectionStates, Never, Signum
<1>3. mouse \in MouseStates
  <2> HIDE DEF none, still
  <2> QED
    BY <1>1, <1>2 DEF MouseStates, DirectionStates
<1>4. \A c, way : CountOf({}, c, way) = 0
  <2>1. \A c, way : {k \in {} : k.cat = c /\ k.dir = way} = {}
    OBVIOUS
  <2> QED
    BY <2>1, FS_EmptySet DEF CountOf
<1>5. CountersAreRight(mouse)
  BY <1>1, <1>4 DEF CountersAreRight
<1> QED
  BY <1>1, <1>2, <1>3, <1>5 DEF MouseInv, MouseIsRight, GoesWith, NotAgainst, Categories

LEMMA MouseInvHelps == MouseInv => PointerFollowsKeys
<1> SUFFICES ASSUME MouseInv PROVE PointerFollowsKeys
  OBVIOUS
<1>1. \A c, way : Down(c, way) = CountOf(mouse.down, c, way) /\ Down(c, way) \in Nat
  <2>1. mouse.down \subseteq MouseBoard
    BY MouseFields DEF MouseInv, MouseIsRight
  <2>2. \A c, way : Down(c, way) = CountOf(mouse.down, c, way)
    BY DEF Down, CountOf
  <2> QED
    BY <2>1, <2>2, CountIsNat
<1>2. /\ mouse.dir["move"].x = Down("move", "right") - Down("move", "left")
      /\ mouse.dir["move"].y = Down("move", "down") - Down("move", "up")
      /\ mouse.dir["wheel"].x = Down("wheel", "right") - Down("wheel", "left")
      /\ mouse.dir["wheel"].y = Down("wheel", "down") - Down("wheel", "up")
  BY <1>1 DEF MouseInv, MouseIsRight, CountersAreRight, Categories
<1>3. - Signum(Down("wheel", "down") - Down("wheel", "up")) = Signum(Down("wheel", "up") - Down("wheel", "down"))
  BY <1>1 DEF Signum
<1> QED
  BY <1>2, <1>3 DEF MouseInv, MouseIsRight, NotAgainst, PointerFollowsKeys, Along

LEMMA QuotientGrows ==
    ASSUME NEW a \in Nat, NEW b \in Nat, NEW w \in Nat, w > 0, a <= b
    PROVE  a \div w <= b \div w
<1> DEFINE p == a \div w
           q == b \div w
<1>1. p \in Int /\ q \in Int
  OBVIOUS
<1>2. a = w * p + (a % w) /\ b = w * q + (b % w) /\ a % w \in 0 .. w - 1 /\ b % w \in 0 .. w - 1
  OBVIOUS
<1> HIDE DEF p, q
<1>3. SUFFICES ASSUME p >= q + 1 PROVE FALSE
  BY <1>1 DEF p, q
<1>4. w * p >= w * (q + 1) /\ w * (q + 1) = w * q + w
  BY <1>1, <1>3
<1>5. w * p \in Int /\ w * q \in Int /\ w * (q + 1) \in Int /\ a % w \in Int /\ b % w \in Int
  BY <1>1, <1>2
<1> QED
  BY <1>2, <1>4, <1>5

LEMMA QuotientOfProduct ==
    ASSUME NEW a \in Nat, NEW q \in Nat, NEW w \in Nat, w > 0, q <= w
    PROVE  (a * q) \div w <= a
<1>1. a * q \in Nat /\ a * w \in Nat /\ a * q <= a * w
  OBVIOUS
<1>2. (a * w) \div w = a
  OBVIOUS
<1> QED
  BY <1>1, <1>2, QuotientGrows

\* Another repeat makes the base speed no less.
LEMMA BaseGrows ==
    ASSUME NEW cfg \in Curves, cfg.speed > 0, NEW n \in Nat
    PROVE  Base(cfg, n) <= Base(cfg, n + 1)
<1> DEFINE top == cfg.delta * cfg.speed
           rise == Max({top - cfg.delta, 0})
           w == cfg.ticks * cfg.ticks
           way(r) == 2 * r * cfg.ticks - r * r
<1>1. cfg.delta \in Nat /\ cfg.speed \in Nat /\ cfg.ticks \in Nat
  BY DEF Curves
<1>2. top \in Nat /\ top >= cfg.delta
  BY <1>1
<1>3. rise = top - cfg.delta /\ rise \in Nat
  BY <1>1, <1>2, GreaterOfTwo
<1>4. ASSUME NEW r \in Nat, r < cfg.ticks
      PROVE  way(r) \in Nat /\ way(r) <= w /\ (r + 1 < cfg.ticks => way(r) <= way(r + 1))
  <2>1. PICK d \in Nat : cfg.ticks = r + d /\ d > 0
    BY <1>1, <1>4
  <2>2. way(r) = r * r + 2 * r * d
    BY <2>1
  <2>3. w = r * r + 2 * r * d + d * d
    BY <2>1
  <2>4. way(r + 1) = way(r) + 2 * d - 1
    BY <2>1
  <2> QED
    BY <2>1, <2>2, <2>3, <2>4
<1>5. cfg.ticks > 0 => w \in Nat /\ w > 0
  BY <1>1
<1>6. /\ Base(cfg, 0) = cfg.delta
      /\ \A r \in Nat : r > 0 /\ r >= cfg.ticks => Base(cfg, r) = top
      /\ \A r \in Nat : r > 0 /\ r < cfg.ticks => Base(cfg, r) = cfg.delta + (rise * way(r)) \div w
  BY <1>1 DEF Base
<1> HIDE DEF top, rise, w, way
<1>7. ASSUME NEW r \in Nat, r < cfg.ticks
      PROVE  /\ (rise * way(r)) \div w \in Nat /\ (rise * way(r)) \div w <= rise
             /\ r + 1 < cfg.ticks => (rise * way(r)) \div w <= (rise * way(r + 1)) \div w
  <2>1. cfg.ticks > 0 /\ w \in Nat /\ w > 0 /\ way(r) \in Nat /\ way(r) <= w /\ rise * way(r) \in Nat
    BY <1>1, <1>3, <1>4, <1>5, <1>7
  <2>2. (rise * way(r)) \div w \in Nat /\ (rise * way(r)) \div w <= rise
    <3>1. \A x \in Nat : x \div w \in Nat
      BY <2>1
    <3> QED
      BY <1>3, <2>1, <3>1, QuotientOfProduct
  <2>3. ASSUME r + 1 < cfg.ticks PROVE (rise * way(r)) \div w <= (rise * way(r + 1)) \div w
    <3>1. way(r) <= way(r + 1) /\ way(r + 1) \in Nat
      BY <1>4, <1>7, <2>3
    <3>2. rise * way(r + 1) \in Nat /\ rise * way(r) <= rise * way(r + 1)
      BY <1>3, <2>1, <3>1
    <3> QED
      BY <2>1, <3>2, QuotientGrows
  <2> QED
    BY <2>2, <2>3
<1>8. CASE n + 1 >= cfg.ticks /\ (n = 0 \/ n >= cfg.ticks)
  BY <1>1, <1>2, <1>6, <1>8
<1>9. CASE n + 1 >= cfg.ticks /\ n # 0 /\ n < cfg.ticks
  BY <1>1, <1>2, <1>3, <1>6, <1>7, <1>9
<1>10. CASE n + 1 < cfg.ticks
  <2>1. Base(cfg, n + 1) = cfg.delta + (rise * way(n + 1)) \div w
    BY <1>6, <1>10
  <2>2. (rise * way(n + 1)) \div w \in Nat /\ (rise * way(n)) \div w \in Nat
        /\ (rise * way(n)) \div w <= (rise * way(n + 1)) \div w
    BY <1>1, <1>7, <1>10
  <2>3. n # 0 => Base(cfg, n) = cfg.delta + (rise * way(n)) \div w
    BY <1>1, <1>6, <1>10
  <2> QED
    BY <1>1, <1>6, <2>1, <2>2, <2>3
<1> QED
  BY <1>1, <1>8, <1>9, <1>10

LEMMA UnitGrows ==
    ASSUME NEW cfg \in Curves, cfg.speed > 0, NEW accel, NEW n \in Nat
    PROVE  /\ CalculateUnit(cfg, accel, n) \in 1 .. Max({1, cfg.max})
           /\ CalculateUnit(cfg, accel, n) <= CalculateUnit(cfg, accel, n + 1)
<1> DEFINE a == Base(cfg, n)
           b == Base(cfg, n + 1)
<1>1. a \in Nat /\ b \in Nat /\ a <= b /\ cfg.max \in Nat
  BY BaseIsNat, BaseGrows DEF Curves
<1> HIDE DEF a, b
<1> DEFINE c == Multiplied(a, accel)
           d == Multiplied(b, accel)
<1>2. c \in Nat /\ d \in Nat /\ c <= d
  BY <1>1 DEF Multiplied, DivCeil
<1>3. Max({1, cfg.max}) = IF 1 >= cfg.max THEN 1 ELSE cfg.max
  BY <1>1, GreaterOfTwo
<1> HIDE DEF c, d
<1>4. Clamped(c, cfg.max) \in 1 .. Max({1, cfg.max}) /\ Clamped(c, cfg.max) <= Clamped(d, cfg.max)
  BY <1>1, <1>2, <1>3 DEF Clamped
<1> QED
  BY <1>4 DEF CalculateUnit, a, b, c, d

\* No configuration has a maximum speed of zero, the case that the models leave out: with it
\* calculate_unit falls to zero at the end of its curve and the first report outdoes the last.
TopSpeedsAreSet == \A cfg \in MouseConfigs : \A c \in Categories : cfg[c].speed > 0

LEMMA MouseInvSpeeds ==
    ASSUME MouseInv, TopSpeedsAreSet
    PROVE  SpeedGrows
<1> SUFFICES ASSUME NEW c \in Categories
             PROVE  LET u(n) == CalculateUnit(mouse.cfg[c], mouse.accel, mouse.dir[c].repeat + n)
                    IN u(0) \in 1 .. Max({1, mouse.cfg[c].max}) /\ u(0) <= u(1)
  BY DEF SpeedGrows
<1>1. mouse.cfg[c] \in Curves /\ mouse.cfg[c].speed > 0 /\ mouse.dir[c].repeat \in Nat
  BY MouseFields, MouseSizes DEF MouseInv, MouseIsRight, TopSpeedsAreSet
<1>2. mouse.dir[c].repeat + 0 = mouse.dir[c].repeat
  BY <1>1
<1> QED
  BY <1>1, <1>2, UnitGrows

-----------------------------------------------------------------------------
(* The writes over a paged protocol.                                       *)

PageRecords == [start : Nat, len : Nat, size : Nat]

WriteStates ==
    [job : WriteJobs, at : Nat, page : Nat, used : Nat, start : Nat, pages : Seq(PageRecords),
     pc : {"split", "failed", "store"}, lane : [1 .. Lanes -> Seq(PageRecords)],
     stored : SUBSET Nat, refused : BOOLEAN, twice : BOOLEAN]

Fits(j, p) == j.fixed + CountBytes(p.len) + p.size <= j.budget

\* The items of a page, and those some page of a run holds.
Items(p) == p.start .. p.start + p.len - 1

InPages(pages, i) == \E k \in DOMAIN pages : i \in Items(pages[k])

\* No item is in two pages of a run, or of the lanes.
Apart(pages) ==
    \A j, k \in DOMAIN pages : \A i : i \in Items(pages[j]) /\ i \in Items(pages[k]) => j = k

LanesApart(lane) ==
    \A l, m \in 1 .. Lanes : \A j \in DOMAIN lane[l], k \in DOMAIN lane[m] :
        \A i : i \in Items(lane[l][j]) /\ i \in Items(lane[m][k]) => l = m /\ j = k

\* The closed pages hold the items before the open one.
Splits(w) ==
    /\ w.start + w.page = w.at /\ w.at <= Len(w.job.sizes)
    /\ \A i \in Nat : i < w.start <=> InPages(w.pages, i)
    /\ w.page = 0 => w.start = 0 /\ w.used = 0
    /\ Apart(w.pages) /\ w.stored = {}
    /\ w.page # 0 => Fits(w.job, Closed(w))

\* Every item is stored or still with a lane, never both, unless a page was refused.
Stores(w) ==
    /\ \A l \in 1 .. Lanes : \A i \in Nat : InPages(w.lane[l], i) => i < Len(w.job.sizes)
    /\ \A i \in w.stored : i < Len(w.job.sizes) /\ \A l \in 1 .. Lanes : ~ InPages(w.lane[l], i)
    /\ LanesApart(w.lane)
    /\ w.refused \/ \A i \in Nat : i < Len(w.job.sizes) =>
                       i \in w.stored \/ \E l \in 1 .. Lanes : InPages(w.lane[l], i)

WriteInv ==
    /\ write \in WriteStates
    /\ PagesFit /\ ~ write.twice
    /\ write.pc = "split" => Splits(write)
    /\ write.pc = "store" => Stores(write)

LEMMA WriteFields ==
    ASSUME NEW w \in WriteStates
    PROVE  /\ w.job \in WriteJobs /\ w.at \in Nat /\ w.page \in Nat /\ w.used \in Nat
           /\ w.start \in Nat /\ w.pages \in Seq(PageRecords)
           /\ w.lane \in [1 .. Lanes -> Seq(PageRecords)] /\ w.stored \subseteq Nat
           /\ w.refused \in BOOLEAN /\ Closed(w) \in PageRecords
           /\ w.job.sizes \in Seq(Nat) /\ Len(w.job.sizes) \in Nat
           /\ w.job.fixed \in Nat /\ w.job.budget \in Nat
<1>1. /\ w.job \in WriteJobs /\ w.at \in Nat /\ w.page \in Nat /\ w.used \in Nat
      /\ w.start \in Nat /\ w.pages \in Seq(PageRecords)
      /\ w.lane \in [1 .. Lanes -> Seq(PageRecords)] /\ w.stored \subseteq Nat
      /\ w.refused \in BOOLEAN
  BY DEF WriteStates
<1>2. w.job \in [sizes : Seq(Nat), fixed : Nat, budget : Nat, fails : BOOLEAN]
  BY <1>1, PageSizes
<1>3. w.job.sizes \in Seq(Nat) /\ w.job.fixed \in Nat /\ w.job.budget \in Nat
  BY <1>2
<1>4. Closed(w) \in PageRecords
  BY <1>1 DEF Closed, PageRecords
<1> QED
  BY <1>1, <1>3, <1>4

LEMMA CountIsSmall ==
    ASSUME NEW n \in Nat
    PROVE  CountBytes(n) \in Nat /\ CountBytes(1) = 1
BY PageSizes DEF CountBytes

\* Another page holds its own items besides.
LEMMA AppendedPage ==
    ASSUME NEW pages \in Seq(PageRecords), NEW p \in PageRecords
    PROVE  /\ Append(pages, p) \in Seq(PageRecords)
           /\ \A i : InPages(Append(pages, p), i) <=> InPages(pages, i) \/ i \in Items(p)
           /\ \A q \in ToSet(Append(pages, p)) : q \in ToSet(pages) \/ q = p
           /\ Apart(pages) /\ (\A i \in Items(p) : ~ InPages(pages, i)) => Apart(Append(pages, p))
<1> DEFINE new == Append(pages, p)
<1>1. /\ new \in Seq(PageRecords) /\ DOMAIN pages = 1 .. Len(pages) /\ Len(pages) \in Nat
      /\ DOMAIN new = 1 .. Len(pages) + 1
      /\ \A k \in 1 .. Len(pages) : new[k] = pages[k]
      /\ new[Len(pages) + 1] = p
  OBVIOUS
<1> HIDE DEF new
<1>2. \A k \in DOMAIN new : k \in DOMAIN pages \/ k = Len(pages) + 1
  BY <1>1
<1>3. \A k \in DOMAIN pages : k \in DOMAIN new
  BY <1>1
<1>4. Len(pages) + 1 \in DOMAIN new
  BY <1>1
<1>5. \A i : InPages(new, i) <=> InPages(pages, i) \/ i \in Items(p)
  BY <1>1, <1>2, <1>3, <1>4 DEF InPages
<1>6. \A q \in ToSet(new) : q \in ToSet(pages) \/ q = p
  BY <1>1, <1>2 DEF ToSet
<1>7. ASSUME Apart(pages), \A i \in Items(p) : ~ InPages(pages, i),
             NEW j \in DOMAIN new, NEW k \in DOMAIN new, NEW i,
             i \in Items(new[j]), i \in Items(new[k])
      PROVE  j = k
  <2>1. CASE j \in DOMAIN pages /\ k \in DOMAIN pages
    <3>1. new[j] = pages[j] /\ new[k] = pages[k]
      BY <1>1, <2>1
    <3> QED
      BY <1>7, <2>1, <3>1 DEF Apart
  <2>2. ASSUME NEW a \in DOMAIN pages, i \in Items(new[a]), i \in Items(p) PROVE FALSE
    <3>1. new[a] = pages[a]
      BY <1>1
    <3> QED
      BY <1>7, <2>2, <3>1 DEF InPages
  <2> QED
    BY <1>1, <1>2, <1>7, <2>1, <2>2
<1> QED
  BY <1>1, <1>5, <1>6, <1>7 DEF new, Apart

\* A part of a sequence of pages.
LEMMA PagesFromTo ==
    ASSUME NEW pages \in Seq(PageRecords), NEW a \in Nat, NEW b \in Nat, a >= 1, b <= Len(pages)
    PROVE  LET cut == SubSeq(pages, a, b)
           IN /\ cut \in Seq(PageRecords)
              /\ \A k \in DOMAIN cut : a + k - 1 \in a .. b /\ cut[k] = pages[a + k - 1]
              /\ \A k \in a .. b : k - a + 1 \in DOMAIN cut /\ cut[k - a + 1] = pages[k]
<1> DEFINE cut == SubSeq(pages, a, b)
           n == IF a <= b THEN b - a + 1 ELSE 0
<1>1. \A k \in a .. b : pages[k] \in PageRecords
  OBVIOUS
<1>2. cut \in Seq(PageRecords) /\ Len(cut) = n /\ \A k \in 1 .. n : cut[k] = pages[a + k - 1]
  BY <1>1
<1>3. DOMAIN cut = 1 .. n /\ n \in Nat
  BY <1>2
<1>4. \A k \in 1 .. n : a + k - 1 \in a .. b
  OBVIOUS
<1>5. \A k \in a .. b : k - a + 1 \in 1 .. n /\ a + (k - a + 1) - 1 = k
  OBVIOUS
<1> HIDE DEF cut, n
<1>6. \A k \in a .. b : k - a + 1 \in DOMAIN cut /\ cut[k - a + 1] = pages[k]
  BY <1>2, <1>3, <1>5
<1> QED
  BY <1>2, <1>3, <1>4, <1>6 DEF cut

\* The lanes' shares hold the items of all pages, whatever their number.
LEMMA SharesAreWhole ==
    ASSUME NEW pages \in Seq(PageRecords)
    PROVE  /\ Shares(pages) \in [1 .. Lanes -> Seq(PageRecords)]
           /\ \A i : InPages(pages, i) <=> \E l \in 1 .. Lanes : InPages(Shares(pages)[l], i)
           /\ Apart(pages) => LanesApart(Shares(pages))
<1> DEFINE n == Len(pages)
           chunk == (n + Lanes - 1) \div Lanes
           lo(l) == (l - 1) * chunk + 1
           hi(l) == Min({l * chunk, n})
           share(l) == SubSeq(pages, lo(l), hi(l))
<1>1. n \in Nat /\ DOMAIN pages = 1 .. n /\ Lanes \in Nat /\ Lanes > 0
  BY PageSizes
<1>2. chunk \in Nat /\ n <= Lanes * chunk
  <2>1. \A a, w \in Nat : w > 0 => a \div w \in Nat /\ a < w * (a \div w) + w
    OBVIOUS
  <2>2. n + Lanes - 1 \in Nat
    BY <1>1
  <2>3. chunk \in Nat /\ n + Lanes - 1 < Lanes * chunk + Lanes
    BY <1>1, <2>1, <2>2
  <2> HIDE DEF n, chunk
  <2>4. Lanes * chunk \in Int
    BY <1>1, <2>3
  <2> QED
    BY <1>1, <2>3, <2>4
<1> HIDE DEF chunk, n
<1>3. ASSUME NEW l \in 1 .. Lanes
      PROVE  /\ lo(l) \in Nat /\ lo(l) >= 1 /\ hi(l) \in Nat /\ hi(l) <= n
             /\ hi(l) = IF l * chunk <= n THEN l * chunk ELSE n
  <2>1. l * chunk \in Nat /\ (l - 1) * chunk \in Nat
    BY <1>1, <1>2
  <2> QED
    BY <1>1, <2>1, LesserOfTwo
<1>4. ASSUME NEW l \in 1 .. Lanes
      PROVE  /\ share(l) \in Seq(PageRecords)
             /\ \A k \in DOMAIN share(l) : lo(l) + k - 1 \in lo(l) .. hi(l) /\ share(l)[k] = pages[lo(l) + k - 1]
             /\ \A k \in lo(l) .. hi(l) : k - lo(l) + 1 \in DOMAIN share(l) /\ share(l)[k - lo(l) + 1] = pages[k]
  <2>1. lo(l) \in Nat /\ lo(l) >= 1 /\ hi(l) \in Nat /\ hi(l) <= n
    BY <1>3
  <2> HIDE DEF lo, hi
  <2> QED
    BY <2>1, PagesFromTo DEF n
<1>5. Shares(pages) = [l \in 1 .. Lanes |-> share(l)]
  BY DEF Shares, n, chunk
<1>6. ASSUME NEW k \in 1 .. n PROVE \E l \in 1 .. Lanes : k \in lo(l) .. hi(l)
  <2>1. chunk > 0
    BY <1>1, <1>2
  <2> DEFINE q == (k - 1) \div chunk
  <2>2. q \in Nat /\ k - 1 >= q * chunk /\ k - 1 < q * chunk + chunk
    <3>1. \A a, w \in Nat : w > 0 => a \div w \in Nat /\ a >= (a \div w) * w /\ a < (a \div w) * w + w
      OBVIOUS
    <3>2. k - 1 \in Nat
      BY <1>1
    <3> QED
      BY <1>2, <2>1, <3>1, <3>2
  <2> HIDE DEF q
  <2>3. q * chunk \in Int /\ (q + 1) * chunk = q * chunk + chunk /\ (q + 1) - 1 = q
    BY <1>2, <2>2
  <2>4. q < Lanes
    <3>1. SUFFICES ASSUME q >= Lanes PROVE FALSE
      BY <1>1, <2>2
    <3>2. q * chunk >= Lanes * chunk /\ Lanes * chunk \in Int
      BY <1>1, <1>2, <2>2, <3>1
    <3> QED
      BY <1>1, <1>2, <2>2, <2>3, <3>2
  <2>5. q + 1 \in 1 .. Lanes
    BY <1>1, <2>2, <2>4
  <2>6. k \in lo(q + 1) .. hi(q + 1)
    <3>1. lo(q + 1) = q * chunk + 1
      BY <2>3
    <3>2. hi(q + 1) = IF q * chunk + chunk <= n THEN q * chunk + chunk ELSE n
      BY <1>3, <2>3, <2>5
    <3> QED
      BY <1>1, <1>2, <2>2, <2>3, <3>1, <3>2
  <2> QED
    BY <2>5, <2>6
<1>8. ASSUME NEW l \in 1 .. Lanes, NEW m \in 1 .. Lanes, l < m PROVE hi(l) < lo(m)
  <2>1. l * chunk <= (m - 1) * chunk /\ l * chunk \in Int /\ (m - 1) * chunk \in Int
    BY <1>1, <1>2, <1>8
  <2> QED
    BY <1>1, <1>3, <2>1
<1> HIDE DEF share, lo, hi
<1>9. ASSUME Apart(pages), NEW l \in 1 .. Lanes, NEW m \in 1 .. Lanes,
             NEW j \in DOMAIN share(l), NEW k \in DOMAIN share(m), NEW i,
             i \in Items(share(l)[j]), i \in Items(share(m)[k])
      PROVE  l = m /\ j = k
  <2>1. /\ lo(l) + j - 1 \in lo(l) .. hi(l) /\ share(l)[j] = pages[lo(l) + j - 1]
        /\ lo(m) + k - 1 \in lo(m) .. hi(m) /\ share(m)[k] = pages[lo(m) + k - 1]
    BY <1>4
  <2>2. /\ lo(l) \in Nat /\ lo(l) >= 1 /\ hi(l) \in Nat /\ hi(l) <= n
        /\ lo(m) \in Nat /\ lo(m) >= 1 /\ hi(m) \in Nat /\ hi(m) <= n
    BY <1>3
  <2>3. lo(l) + j - 1 \in DOMAIN pages /\ lo(m) + k - 1 \in DOMAIN pages
    BY <1>1, <2>1, <2>2
  <2>4. lo(l) + j - 1 = lo(m) + k - 1
    BY <1>9, <2>1, <2>3 DEF Apart
  <2>5. l \in Int /\ m \in Int /\ ~ (l < m) /\ ~ (m < l)
    BY <1>1, <1>8, <2>1, <2>2, <2>4
  <2>6. l = m
    BY <2>5
  <2>7. j \in Int /\ k \in Int
    <3>1. share(l) \in Seq(PageRecords) /\ share(m) \in Seq(PageRecords)
      BY <1>4
    <3> QED
      BY <3>1
  <2> QED
    BY <2>2, <2>4, <2>6, <2>7
<1>7. ASSUME NEW i PROVE InPages(pages, i) <=> \E l \in 1 .. Lanes : InPages(share(l), i)
  <2>1. ASSUME NEW k \in DOMAIN pages, i \in Items(pages[k])
        PROVE  \E l \in 1 .. Lanes : InPages(share(l), i)
    BY <1>1, <1>4, <1>6, <2>1 DEF InPages
  <2>2. ASSUME NEW l \in 1 .. Lanes, NEW k \in DOMAIN share(l), i \in Items(share(l)[k])
        PROVE  InPages(pages, i)
    <3>1. lo(l) + k - 1 \in lo(l) .. hi(l) /\ share(l)[k] = pages[lo(l) + k - 1]
      BY <1>4
    <3>2. lo(l) + k - 1 \in DOMAIN pages
      BY <1>1, <1>3, <3>1
    <3> QED
      BY <2>2, <3>1, <3>2 DEF InPages
  <2> QED
    BY <2>1, <2>2 DEF InPages
<1>10. Apart(pages) => LanesApart([l \in 1 .. Lanes |-> share(l)])
  BY <1>9 DEF LanesApart
<1> QED
  BY <1>4, <1>5, <1>7, <1>10

LEMMA FirstPage ==
    ASSUME NEW pages \in Seq(PageRecords), pages # <<>>
    PROVE  /\ Head(pages) \in PageRecords /\ Tail(pages) \in Seq(PageRecords)
           /\ \A i : InPages(pages, i) <=> i \in Items(Head(pages)) \/ InPages(Tail(pages), i)
           /\ 1 \in DOMAIN pages /\ Head(pages) = pages[1]
           /\ \A k \in DOMAIN Tail(pages) : /\ k \in Nat \ {0} /\ k + 1 \in DOMAIN pages
                                         /\ Tail(pages)[k] = pages[k + 1]
<1>1. /\ DOMAIN pages = 1 .. Len(pages) /\ Len(pages) \in Nat /\ Len(pages) >= 1
      /\ Head(pages) = pages[1] /\ Head(pages) \in PageRecords
      /\ Tail(pages) \in Seq(PageRecords) /\ DOMAIN Tail(pages) = 1 .. Len(pages) - 1
      /\ \A k \in 1 .. Len(pages) - 1 : Tail(pages)[k] = pages[k + 1]
  OBVIOUS
<1>2. ASSUME NEW i, NEW k \in DOMAIN pages, i \in Items(pages[k])
      PROVE  i \in Items(Head(pages)) \/ InPages(Tail(pages), i)
  <2>1. CASE k = 1
    BY <1>1, <1>2, <2>1
  <2>2. CASE k # 1
    <3>1. k - 1 \in DOMAIN Tail(pages) /\ Tail(pages)[k - 1] = pages[k]
      BY <1>1, <2>2
    <3> QED
      BY <1>2, <3>1 DEF InPages
  <2> QED
    BY <2>1, <2>2
<1>3. ASSUME NEW i, i \in Items(Head(pages)) \/ InPages(Tail(pages), i)
      PROVE  InPages(pages, i)
  <2>1. CASE i \in Items(Head(pages))
    BY <1>1, <2>1 DEF InPages
  <2>2. CASE InPages(Tail(pages), i)
    <3>1. PICK k \in DOMAIN Tail(pages) : i \in Items(Tail(pages)[k])
      BY <2>2 DEF InPages
    <3>2. k + 1 \in DOMAIN pages /\ pages[k + 1] = Tail(pages)[k]
      BY <1>1
    <3> QED
      BY <3>1, <3>2 DEF InPages
  <2> QED
    BY <1>3, <2>1, <2>2
<1> QED
  BY <1>1, <1>2, <1>3 DEF InPages

LEMMA SplitItemIsRight ==
    ASSUME WriteInv, SplitItem
    PROVE  WriteInv'
<1> DEFINE j == write.job
           size == j.sizes[write.at + 1]
           at == write.at + 1
           w == [write EXCEPT !.at = at]
<1>1. write \in WriteStates /\ PagesFit /\ Splits(write) /\ write.pc = "split" /\ write.at < Len(j.sizes)
  BY DEF WriteInv, SplitItem
<1>2. /\ write.start \in Nat /\ write.page \in Nat /\ write.at \in Nat /\ write.used \in Nat
      /\ write.start + write.page = write.at
  BY <1>1, WriteFields DEF Splits
<1>3. write.stored = {} /\ w.stored = {} /\ ~ write.twice /\ Apart(write.pages)
  BY <1>1 DEF Splits, WriteStates, WriteInv
<1>4. size \in Nat /\ at \in Nat /\ at <= Len(j.sizes) /\ 1 \in Nat
  BY <1>1, WriteFields
<1>5. write' = IF j.fixed + 1 + size > j.budget THEN [w EXCEPT !.pc = "failed"]
               ELSE IF Overflows(write, size)
               THEN [w EXCEPT !.pages = Append(write.pages, Closed(write)), !.start = write.at,
                              !.page = 1, !.used = size]
               ELSE [w EXCEPT !.page = write.page + 1, !.used = write.used + size]
  BY <1>1 DEF SplitItem, WriteStates
<1> HIDE DEF size, at
<1>6. /\ w \in WriteStates /\ w.at = at /\ w.job = j /\ w.page = write.page /\ w.used = write.used
      /\ w.start = write.start /\ w.pages = write.pages /\ w.pc = "split" /\ w.twice = write.twice
  BY <1>1, <1>4 DEF WriteStates
<1> HIDE DEF w
<1>7. CASE j.fixed + 1 + size > j.budget
  <2>1. write' = [w EXCEPT !.pc = "failed"]
    BY <1>5, <1>7
  <2>2. /\ write' \in WriteStates /\ write'.pc = "failed" /\ write'.pages = write.pages
        /\ write'.job = j /\ write'.twice = write.twice
    BY <1>6, <2>1 DEF WriteStates
  <2> QED
    BY <1>1, <1>3, <2>2 DEF WriteInv, PagesFit
<1>8. CASE ~ (j.fixed + 1 + size > j.budget) /\ Overflows(write, size)
  <2> DEFINE pages == Append(write.pages, Closed(write))
  <2>1. write' = [w EXCEPT !.pages = pages, !.start = write.at, !.page = 1, !.used = size]
    BY <1>5, <1>8
  <2>2. /\ pages \in Seq(PageRecords)
        /\ \A i : InPages(pages, i) <=> InPages(write.pages, i) \/ i \in Items(Closed(write))
        /\ \A q \in ToSet(pages) : q \in ToSet(write.pages) \/ q = Closed(write)
        /\ (\A i \in Items(Closed(write)) : ~ InPages(write.pages, i)) => Apart(pages)
    BY <1>1, <1>3, AppendedPage, WriteFields
  <2> HIDE DEF pages
  <2>3. /\ write' \in WriteStates /\ write'.pc = "split" /\ write'.pages = pages /\ write'.job = j
        /\ write'.start = write.at /\ write'.page = 1 /\ write'.used = size /\ write'.at = at
        /\ write'.stored = {} /\ ~ write'.twice
    <3>1. write.at \in Nat
      BY <1>1, WriteFields
    <3> QED
      BY <1>4, <1>6, <1>3, <2>1, <2>2, <3>1 DEF WriteStates
  <2>4. write.page # 0
    <3>1. SUFFICES ASSUME write.page = 0 PROVE FALSE
      OBVIOUS
    <3>0. CountBytes(1) = 1 /\ 0 + 1 = 1
      BY CountIsSmall
    <3>2. write.used = 0 /\ CountBytes(0 + 1) = 1 /\ j.fixed \in Nat /\ j.budget \in Nat
      BY <1>1, <3>0, <3>1, WriteFields DEF Splits
    <3>3. j.fixed + 1 + 0 + size > j.budget
      BY <1>8, <3>1, <3>2 DEF Overflows
    <3> QED
      BY <1>4, <1>8, <3>2, <3>3
  <2>5. PagesFit'
    <3>1. \A q \in ToSet(pages) : Fits(j, q)
      BY <1>1, <2>2, <2>4 DEF PagesFit, Fits, Splits
    <3> QED
      BY <2>3, <3>1 DEF PagesFit, Fits
  <2>6. /\ \A i \in Nat : i < write.at <=> InPages(pages, i)
        /\ Apart(pages)
    <3>1. \A i \in Nat : i \in Items(Closed(write)) <=> write.start <= i /\ i < write.at
      BY <1>2 DEF Items, Closed
    <3>2. \A i \in Nat : i < write.start <=> InPages(write.pages, i)
      BY <1>1 DEF Splits
    <3>3. \A i \in Items(Closed(write)) : i \in Nat
      BY <1>2 DEF Items, Closed
    <3>4. \A i \in Items(Closed(write)) : ~ InPages(write.pages, i)
      BY <1>2, <3>1, <3>2, <3>3
    <3> QED
      BY <1>2, <2>2, <3>1, <3>2, <3>4
  <2>7. Fits(j, Closed(write'))
    <3>1. Closed(write').len = 1 /\ Closed(write').size = size
      BY <2>3 DEF Closed
    <3>2. CountBytes(1) = 1 /\ j.fixed \in Nat /\ j.budget \in Nat
      BY <1>1, CountIsSmall, WriteFields
    <3> QED
      BY <1>4, <1>8, <3>1, <3>2 DEF Fits
  <2>8. Splits(write')
    BY <1>4, <1>2, <2>3, <2>6, <2>7 DEF Splits, at
  <2> QED
    BY <2>3, <2>5, <2>8 DEF WriteInv
<1>9. CASE ~ (j.fixed + 1 + size > j.budget) /\ ~ Overflows(write, size)
  <2> DEFINE page == write.page + 1
             used == write.used + size
  <2>1. write' = [w EXCEPT !.page = page, !.used = used]
    BY <1>5, <1>9
  <2>2. page \in Nat /\ used \in Nat /\ page # 0
    BY <1>1, <1>4, WriteFields
  <2> HIDE DEF page, used
  <2>3. /\ write' \in WriteStates /\ write'.pc = "split" /\ write'.pages = write.pages /\ write'.job = j
        /\ write'.start = write.start /\ write'.page = page /\ write'.used = used /\ write'.at = at
        /\ write'.stored = {} /\ ~ write'.twice
    BY <1>6, <1>3, <2>1, <2>2 DEF WriteStates
  <2>4. Fits(j, Closed(write'))
    <3>1. Closed(write').len = page /\ Closed(write').size = used
      BY <2>3 DEF Closed
    <3>2. CountBytes(page) \in Nat /\ j.fixed \in Nat /\ j.budget \in Nat /\ write.used \in Nat
      BY <1>1, <2>2, CountIsSmall, WriteFields
    <3>3. ~ (j.fixed + CountBytes(page) + write.used + size > j.budget)
      BY <1>9 DEF Overflows, page
    <3> QED
      BY <1>4, <3>1, <3>2, <3>3 DEF Fits, used
  <2>5. Splits(write')
    <3>1. write.start + page = at
      BY <1>2 DEF page, at
    <3> QED
      BY <1>1, <1>4, <2>2, <2>3, <2>4, <3>1 DEF Splits
  <2> QED
    BY <1>1, <2>3, <2>5 DEF WriteInv, PagesFit
<1> QED
  BY <1>7, <1>8, <1>9

LEMMA SplitEndsIsRight ==
    ASSUME WriteInv, SplitEnds
    PROVE  WriteInv'
<1> DEFINE j == write.job
           pages == IF write.page = 0 THEN write.pages ELSE Append(write.pages, Closed(write))
           lane == Shares(pages)
<1>1. /\ write \in WriteStates /\ PagesFit /\ Splits(write) /\ write.at = Len(j.sizes)
      /\ Len(j.sizes) \in Nat /\ write.start \in Nat /\ write.page \in Nat
  BY WriteFields DEF WriteInv, SplitEnds
<1>2. write' = [write EXCEPT !.pages = pages, !.pc = "store", !.lane = lane]
  BY DEF SplitEnds
<1>3. /\ pages \in Seq(PageRecords)
      /\ \A q \in ToSet(pages) : Fits(j, q)
      /\ \A i \in Nat : i < Len(j.sizes) <=> InPages(pages, i)
      /\ Apart(pages)
  <2>1. \A q \in ToSet(write.pages) : Fits(j, q)
    BY <1>1 DEF PagesFit, Fits
  <2>2. (\A i \in Nat : i < write.start <=> InPages(write.pages, i)) /\ Apart(write.pages)
    BY <1>1 DEF Splits
  <2>3. CASE write.page = 0
    <3>1. write.start = write.at
      BY <1>1, <2>3 DEF Splits
    <3> QED
      BY <1>1, <2>1, <2>2, <2>3, <3>1, WriteFields
  <2>4. CASE write.page # 0
    <3>1. \A i \in Nat : i \in Items(Closed(write)) <=> write.start <= i /\ i < write.at
      BY <1>1 DEF Items, Closed, Splits
    <3>2. Fits(j, Closed(write))
      BY <1>1, <2>4 DEF Splits
    <3>3. /\ pages \in Seq(PageRecords)
          /\ \A i : InPages(pages, i) <=> InPages(write.pages, i) \/ i \in Items(Closed(write))
          /\ \A q \in ToSet(pages) : q \in ToSet(write.pages) \/ q = Closed(write)
          /\ (\A i \in Items(Closed(write)) : ~ InPages(write.pages, i)) => Apart(pages)
      BY <1>1, <2>2, <2>4, AppendedPage, WriteFields
    <3>4. write.start <= write.at
      BY <1>1 DEF Splits
    <3>5. \A i \in Items(Closed(write)) : i \in Nat
      BY <1>1 DEF Items, Closed
    <3>6. \A i \in Items(Closed(write)) : ~ InPages(write.pages, i)
      BY <1>1, <2>2, <3>1, <3>5
    <3> HIDE DEF pages
    <3> QED
      BY <1>1, <2>1, <2>2, <3>1, <3>2, <3>3, <3>4, <3>6
  <2> QED
    BY <2>3, <2>4
<1> HIDE DEF pages
<1>4. /\ lane \in [1 .. Lanes -> Seq(PageRecords)]
      /\ \A i : InPages(pages, i) <=> \E l \in 1 .. Lanes : InPages(lane[l], i)
      /\ LanesApart(lane)
  BY <1>3, SharesAreWhole
<1> HIDE DEF lane
<1>5. /\ write' \in WriteStates /\ write'.pc = "store" /\ write'.pages = pages /\ write'.job = j
      /\ write'.lane = lane /\ write'.stored = write.stored /\ write'.refused = write.refused
      /\ write'.twice = write.twice
  BY <1>1, <1>2, <1>3, <1>4 DEF WriteStates
<1>6. PagesFit'
  BY <1>3, <1>5 DEF PagesFit, Fits
<1>7. write.stored = {} /\ ~ write.twice
  BY <1>1 DEF Splits, WriteInv
<1>8. Stores(write')
  BY <1>3, <1>4, <1>5, <1>7 DEF Stores
<1> QED
  BY <1>5, <1>6, <1>7, <1>8 DEF WriteInv

LEMMA StorePageIsRight ==
    ASSUME WriteInv, NEW l \in 1 .. Lanes, StorePage(l)
    PROVE  WriteInv'
<1> DEFINE p == Head(write.lane[l])
           lane == [write.lane EXCEPT ![l] = Tail(write.lane[l])]
           stored == write.stored \union Items(p)
<1>1. /\ write \in WriteStates /\ PagesFit /\ Stores(write) /\ write.pc = "store"
      /\ write.lane \in [1 .. Lanes -> Seq(PageRecords)] /\ write.lane[l] # <<>>
  BY WriteFields DEF WriteInv, StorePage
<1>2. write' = [write EXCEPT !.lane = lane, !.stored = stored,
                            !.twice = write.twice \/ Items(p) \intersect write.stored # {}]
  BY <1>1 DEF StorePage, Items, WriteStates
<1>3. /\ p \in PageRecords /\ Tail(write.lane[l]) \in Seq(PageRecords)
      /\ \A i : InPages(write.lane[l], i) <=> i \in Items(p) \/ InPages(Tail(write.lane[l]), i)
      /\ 1 \in DOMAIN write.lane[l] /\ p = write.lane[l][1]
      /\ \A k \in DOMAIN Tail(write.lane[l]) : /\ k \in Nat \ {0} /\ k + 1 \in DOMAIN write.lane[l]
                                             /\ Tail(write.lane[l])[k] = write.lane[l][k + 1]
  BY <1>1, FirstPage
<1>4. Items(p) \subseteq Nat
  BY <1>3 DEF Items, PageRecords
<1> HIDE DEF p
<1>5. /\ lane \in [1 .. Lanes -> Seq(PageRecords)]
      /\ \A m \in 1 .. Lanes : lane[m] = IF m = l THEN Tail(write.lane[l]) ELSE write.lane[m]
  BY <1>1, <1>3
<1>6. stored \subseteq Nat
  BY <1>1, <1>4, WriteFields
<1> HIDE DEF lane, stored
<1>a. \A i \in Items(p) : ~ (i \in write.stored)
  BY <1>1, <1>3 DEF Stores
<1>b. ~ (write.twice \/ Items(p) \intersect write.stored # {})
  BY <1>a DEF WriteInv
<1>7. /\ write' \in WriteStates /\ write'.pc = "store" /\ write'.pages = write.pages
      /\ write'.job = write.job /\ write'.lane = lane /\ write'.stored = stored
      /\ write'.refused = write.refused /\ ~ write'.twice
  BY <1>1, <1>2, <1>5, <1>6, <1>b DEF WriteStates
<1>8. \A m \in 1 .. Lanes : \A i : InPages(lane[m], i) => InPages(write.lane[m], i)
  BY <1>3, <1>5
<1>9. \A m \in 1 .. Lanes : \A i : InPages(write.lane[m], i) => i \in Items(p) \/ InPages(lane[m], i)
  BY <1>3, <1>5
\* The place a page had in its lane.
<1> DEFINE At(m, k) == IF m = l THEN k + 1 ELSE k
<1>c. \A m \in 1 .. Lanes : \A k \in DOMAIN lane[m] :
          At(m, k) \in DOMAIN write.lane[m] /\ lane[m][k] = write.lane[m][At(m, k)]
  BY <1>3, <1>5
<1>d. \A m \in 1 .. Lanes : \A k \in DOMAIN lane[m] : k \in Nat \ {0}
  BY <1>3, <1>5
<1>e. LanesApart(lane)
  <2> SUFFICES ASSUME NEW a \in 1 .. Lanes, NEW m \in 1 .. Lanes, NEW j \in DOMAIN lane[a],
                      NEW k \in DOMAIN lane[m], NEW i, i \in Items(lane[a][j]), i \in Items(lane[m][k])
               PROVE  a = m /\ j = k
    BY DEF LanesApart
  <2>1. a = m /\ At(a, j) = At(m, k)
    <3> DEFINE x == At(a, j)
               y == At(m, k)
    <3>1. /\ x \in DOMAIN write.lane[a] /\ i \in Items(write.lane[a][x])
          /\ y \in DOMAIN write.lane[m] /\ i \in Items(write.lane[m][y])
      BY <1>c
    <3> HIDE DEF x, y
    <3>2. LanesApart(write.lane)
      BY <1>1 DEF Stores
    <3>3. a = m /\ x = y
      BY <3>1, <3>2 DEF LanesApart
    <3> QED
      BY <3>3 DEF x, y
  <2> QED
    BY <1>d, <2>1
<1>f. ASSUME NEW m \in 1 .. Lanes, NEW i \in Items(p) PROVE ~ InPages(lane[m], i)
  <2>1. SUFFICES ASSUME NEW k \in DOMAIN lane[m], i \in Items(lane[m][k]) PROVE FALSE
    BY DEF InPages
  <2>2. i \in Items(write.lane[l][1]) /\ i \in Items(write.lane[m][At(m, k)])
    BY <1>3, <1>c, <2>1
  <2>3. m = l /\ At(m, k) = 1
    <3> DEFINE y == At(m, k)
    <3>1. y \in DOMAIN write.lane[m] /\ i \in Items(write.lane[m][y])
      BY <1>c, <2>2
    <3> HIDE DEF y
    <3>2. LanesApart(write.lane)
      BY <1>1 DEF Stores
    <3>3. m = l /\ y = 1
      BY <1>3, <2>2, <3>1, <3>2 DEF LanesApart
    <3> QED
      BY <3>3 DEF y
  <2> QED
    BY <1>d, <2>3
<1> HIDE DEF At
<1>g. \A i \in stored : \A m \in 1 .. Lanes : ~ InPages(lane[m], i)
  BY <1>1, <1>8, <1>f DEF Stores, stored
<1>10. Stores(write')
  BY <1>1, <1>3, <1>4, <1>7, <1>8, <1>9, <1>e, <1>g DEF Stores, stored
<1> QED
  BY <1>1, <1>7, <1>10 DEF WriteInv, PagesFit

LEMMA RefusePageIsRight ==
    ASSUME WriteInv, NEW l \in 1 .. Lanes, RefusePage(l)
    PROVE  WriteInv'
<1> DEFINE lane == [write.lane EXCEPT ![l] = <<>>]
<1>1. /\ write \in WriteStates /\ PagesFit /\ Stores(write) /\ write.pc = "store"
      /\ write.lane \in [1 .. Lanes -> Seq(PageRecords)]
  BY WriteFields DEF WriteInv, RefusePage
<1>2. write' = [write EXCEPT !.lane = lane, !.refused = TRUE]
  BY <1>1 DEF RefusePage, WriteStates
<1>3. /\ lane \in [1 .. Lanes -> Seq(PageRecords)]
      /\ \A m \in 1 .. Lanes : \A i : InPages(lane[m], i) => InPages(write.lane[m], i)
      /\ \A m \in 1 .. Lanes : lane[m] = <<>> \/ lane[m] = write.lane[m]
  <2>1. \A m \in 1 .. Lanes : lane[m] = IF m = l THEN <<>> ELSE write.lane[m]
    BY <1>1
  <2>2. \A i : ~ InPages(<<>>, i)
    BY DEF InPages
  <2>3. lane \in [1 .. Lanes -> Seq(PageRecords)]
    BY <1>1
  <2> HIDE DEF lane
  <2> QED
    BY <2>1, <2>2, <2>3
<1> HIDE DEF lane
<1>4. /\ write' \in WriteStates /\ write'.pc = "store" /\ write'.pages = write.pages
      /\ write'.job = write.job /\ write'.lane = lane /\ write'.stored = write.stored
      /\ write'.refused /\ ~ write'.twice
  BY <1>1, <1>2, <1>3 DEF WriteStates, WriteInv
<1>a. LanesApart(lane)
  <2>1. \A m \in 1 .. Lanes : \A k \in DOMAIN lane[m] :
            k \in DOMAIN write.lane[m] /\ lane[m][k] = write.lane[m][k]
    <3>1. DOMAIN <<>> = {}
      OBVIOUS
    <3> QED
      BY <1>3, <3>1
  <2>2. LanesApart(write.lane)
    BY <1>1 DEF Stores
  <2> SUFFICES ASSUME NEW m \in 1 .. Lanes, NEW n \in 1 .. Lanes,
                      NEW j \in DOMAIN lane[m], NEW k \in DOMAIN lane[n],
                      NEW i, i \in Items(lane[m][j]), i \in Items(lane[n][k])
               PROVE  m = n /\ j = k
    BY Zenon DEF LanesApart
  <2>3. /\ j \in DOMAIN write.lane[m] /\ i \in Items(write.lane[m][j])
        /\ k \in DOMAIN write.lane[n] /\ i \in Items(write.lane[n][k])
    BY <2>1, Zenon
  <2> QED
    BY <2>2, <2>3, Zenon DEF LanesApart
<1>5. Stores(write')
  BY <1>1, <1>3, <1>4, <1>a DEF Stores
<1> QED
  BY <1>1, <1>4, <1>5 DEF WriteInv, PagesFit

LEMMA WriteStep ==
    ASSUME WriteInv, WriteNext
    PROVE  WriteInv'
BY SplitItemIsRight, SplitEndsIsRight, StorePageIsRight, RefusePageIsRight DEF WriteNext

LEMMA WriteInitially ==
    ASSUME write \in WriteStarts
    PROVE  WriteInv
<1>1. PICK j \in WriteJobs :
        write = [job |-> j, at |-> 0, page |-> 0, used |-> 0, start |-> 0, pages |-> <<>>,
                 pc |-> "split", lane |-> [l \in 1..Lanes |-> <<>>], stored |-> {},
                 refused |-> FALSE, twice |-> FALSE]
  BY DEF WriteStarts
<1>2. write \in WriteStates
  BY <1>1 DEF WriteStates
<1>3. Len(j.sizes) \in Nat /\ ToSet(<<>>) = {} /\ \A i : ~ InPages(<<>>, i)
  <2>1. Len(j.sizes) \in Nat
    BY <1>1, <1>2, WriteFields
  <2> QED
    BY <2>1 DEF ToSet, InPages
<1>4. Splits(write) /\ PagesFit
  BY <1>1, <1>3 DEF Splits, PagesFit, Apart
<1> QED
  BY <1>1, <1>2, <1>4 DEF WriteInv

LEMMA WriteInvHelps == WriteInv => PagesFit /\ WriteIsWhole
<1> SUFFICES ASSUME WriteInv, write.pc = "store", ~ write.refused,
                    \A l \in DOMAIN write.lane : write.lane[l] = <<>>
             PROVE  write.stored = 0 .. Len(write.job.sizes) - 1
  BY DEF WriteInv, WriteIsWhole
<1>1. /\ Stores(write) /\ write.stored \subseteq Nat /\ Len(write.job.sizes) \in Nat
      /\ DOMAIN write.lane = 1 .. Lanes
  BY WriteFields DEF WriteInv
<1>2. \A l \in 1 .. Lanes : \A i : ~ InPages(write.lane[l], i)
  BY <1>1 DEF InPages
<1>3. \A i \in Nat : i \in write.stored <=> i < Len(write.job.sizes)
  BY <1>1, <1>2 DEF Stores
<1> DEFINE n == Len(write.job.sizes)
<1>4. \A i \in Nat : i < n <=> i \in 0 .. n - 1
  <2> HIDE DEF n
  <2>1. n \in Nat
    BY <1>1 DEF n
  <2> QED
    BY <2>1
<1>5. \A i \in 0 .. n - 1 : i \in Nat
  OBVIOUS
<1> HIDE DEF n
<1> QED
  BY <1>1, <1>3, <1>4, <1>5 DEF n

-----------------------------------------------------------------------------
(* The pages of a read.                                                    *)

ReadPages == Seq([start : Nat, len : Nat \ {0}])

LaneStates ==
    [pc : {"claim", "fetch", "failed", "done"}, cursor : Nat, window : Nat, retries : Nat,
     pages : ReadPages]

ReadStates == [job : ReadJobs, next : Nat, lane : [1 .. Lanes -> LaneStates]]

Fetched(r, i) == \E l \in 1 .. Lanes : InPages(r.lane[l].pages, i)

\* An item that a lane, some lane, has claimed and not reached yet.
Owes(n, i) == n.pc \in {"fetch", "failed"} /\ n.cursor <= i /\ i < n.window

Owed(r, i) == \E l \in 1 .. Lanes : Owes(r.lane[l], i)

\* The items of the windows that were claimed are fetched or still owed, none is beyond the
\* device's, and a lane only ends when the windows reach the total.
ReadIsRight(r) ==
    /\ r \in ReadStates
    /\ \A i \in Nat : i < r.job.total /\ i < r.job.device /\ i < r.next * r.job.spacing
                         => Fetched(r, i) \/ Owed(r, i)
    /\ \A l \in 1 .. Lanes : r.lane[l].pc = "done" => r.job.total <= r.next * r.job.spacing
    /\ \A i \in Nat : Fetched(r, i) => i < r.job.device

ReadInv == ReadIsRight(read)

LEMMA LaneFields ==
    ASSUME NEW n \in LaneStates
    PROVE  /\ n.pc \in {"claim", "fetch", "failed", "done"} /\ n.cursor \in Nat
           /\ n.window \in Nat /\ n.retries \in Nat /\ n.pages \in ReadPages
           /\ n = [pc |-> n.pc, cursor |-> n.cursor, window |-> n.window, retries |-> n.retries,
                   pages |-> n.pages]
BY DEF LaneStates

LEMMA ReadFields ==
    ASSUME NEW r \in ReadStates
    PROVE  /\ r.job \in ReadJobs /\ r.next \in Nat /\ r.lane \in [1 .. Lanes -> LaneStates]
           /\ r.job.total \in Nat /\ r.job.device \in Nat /\ r.job.cap \in Nat
           /\ r.job.spacing \in Nat /\ r.job.spacing > 0
           /\ \A l \in 1 .. Lanes :
                 /\ r.lane[l] \in LaneStates
                 /\ r.lane[l].cursor \in Nat /\ r.lane[l].window \in Nat
                 /\ r.lane[l].retries \in Nat /\ r.lane[l].pages \in ReadPages
<1>1. r.job \in ReadJobs /\ r.next \in Nat /\ r.lane \in [1 .. Lanes -> LaneStates]
  BY DEF ReadStates
<1>2. /\ r.job.total \in Nat /\ r.job.device \in Nat /\ r.job.cap \in Nat
      /\ r.job.spacing \in Nat /\ r.job.spacing > 0
  <2>1. r.job \in [total : Nat, device : Nat, spacing : Nat \ {0}, cap : Nat]
    BY <1>1, PageSizes
  <2> QED
    BY <2>1
<1> QED
  BY <1>1, <1>2, LaneFields

\* A read with another lane.
LEMMA OtherLane ==
    ASSUME NEW r \in ReadStates, NEW l \in 1 .. Lanes, NEW n \in LaneStates
    PROVE  LET s == [r EXCEPT !.lane[l] = n]
           IN /\ s \in ReadStates /\ s.job = r.job /\ s.next = r.next
              /\ \A k \in 1 .. Lanes : s.lane[k] = IF k = l THEN n ELSE r.lane[k]
BY DEF ReadStates

\* A lane that goes on without a new page, and gives up nothing that is owed.
LEMMA LaneGoesOn ==
    ASSUME NEW r, ReadIsRight(r), NEW l \in 1 .. Lanes, NEW n \in LaneStates,
           n.pages = r.lane[l].pages, n.pc # "done",
           \A i \in Nat :
              i < r.job.device /\ Owes(r.lane[l], i) => Owes(n, i)
    PROVE  ReadIsRight([r EXCEPT !.lane[l] = n])
<1> DEFINE s == [r EXCEPT !.lane[l] = n]
<1>1. r \in ReadStates /\ r.lane \in [1 .. Lanes -> LaneStates]
  BY ReadFields DEF ReadIsRight
<1>2. /\ s \in ReadStates /\ s.job = r.job /\ s.next = r.next
      /\ \A m \in 1 .. Lanes : s.lane[m] = IF m = l THEN n ELSE r.lane[m]
  BY <1>1 DEF ReadStates
<1> HIDE DEF s
<1>3. \A i : Fetched(s, i) <=> Fetched(r, i)
  BY <1>2 DEF Fetched
<1>4. \A i \in Nat : i < r.job.device /\ Owed(r, i) => Owed(s, i)
  BY <1>2 DEF Owed, Owes
<1>5. ReadIsRight(s)
  BY <1>2, <1>3, <1>4 DEF ReadIsRight
<1> QED
  BY <1>5 DEF s

LEMMA ClaimIsRight ==
    ASSUME ReadInv, NEW l \in 1 .. Lanes, Claim(l)
    PROVE  ReadInv'
<1> DEFINE j == read.job
           start == read.next * j.spacing
           window == Min({start + j.spacing, j.total})
           n == read.lane[l]
           m == IF start >= j.total THEN [n EXCEPT !.pc = "done"]
                ELSE [n EXCEPT !.pc = "fetch", !.cursor = start, !.retries = 0, !.window = window]
<1>1. /\ read \in ReadStates /\ n \in LaneStates /\ read.next \in Nat /\ n.pc = "claim"
      /\ j.total \in Nat /\ j.spacing \in Nat /\ j.spacing > 0
  BY ReadFields DEF ReadInv, ReadIsRight, Claim
<1>2. start \in Nat /\ (read.next + 1) * j.spacing = start + j.spacing
  <2>1. \A a, b \in Nat : a * b \in Nat /\ (a + 1) * b = a * b + b
    OBVIOUS
  <2> QED
    BY <1>1, <2>1
<1>3. window = (IF start + j.spacing <= j.total THEN start + j.spacing ELSE j.total)
  BY <1>1, <1>2, LesserOfTwo
<1>4. read' = [read EXCEPT !.next = read.next + 1, !.lane[l] = m]
  BY DEF Claim
<1> HIDE DEF start, window
<1>5. /\ m \in LaneStates /\ m.pages = n.pages /\ m.pc = IF start >= j.total THEN "done" ELSE "fetch"
      /\ start < j.total => m.cursor = start /\ m.window = window
  <2>1. window \in Nat
    BY <1>1, <1>2, <1>3
  <2> HIDE DEF n
  <2>2. CASE start >= j.total
    <3>1. m = [n EXCEPT !.pc = "done"]
      BY <2>2
    <3>2. m \in LaneStates /\ m.pages = n.pages /\ m.pc = "done"
      BY <1>1, <3>1 DEF LaneStates
    <3> QED
      BY <1>1, <1>2, <2>2, <3>2
  <2>3. CASE ~ (start >= j.total)
    <3>1. m = [n EXCEPT !.pc = "fetch", !.cursor = start, !.retries = 0, !.window = window]
      BY <2>3
    <3> HIDE DEF m
    <3>2. m = [pc |-> "fetch", cursor |-> start, window |-> window, retries |-> 0, pages |-> n.pages]
      BY <1>1, <3>1 DEF LaneStates
    <3>3. n.pages \in ReadPages
      BY <1>1, LaneFields
    <3> QED
      BY <1>2, <2>1, <2>3, <3>2, <3>3 DEF LaneStates
  <2> QED
    BY <2>2, <2>3
<1> HIDE DEF m
<1>6. /\ read' \in ReadStates /\ read'.job = j /\ read'.next = read.next + 1
      /\ \A k \in 1 .. Lanes : read'.lane[k] = IF k = l THEN m ELSE read.lane[k]
  <2> DEFINE r == [read EXCEPT !.next = read.next + 1]
  <2>1. r \in ReadStates /\ r.job = j /\ r.next = read.next + 1 /\ r.lane = read.lane
    BY <1>1 DEF ReadStates
  <2>2. read' = [r EXCEPT !.lane[l] = m]
    BY <1>1, <1>4 DEF ReadStates
  <2> HIDE DEF r
  <2> QED
    BY <1>5, <2>1, <2>2, OtherLane
<1>7. \A i : Fetched(read', i) <=> Fetched(read, i)
  BY <1>5, <1>6 DEF Fetched
<1>8. \A i : Owed(read, i) => Owed(read', i)
  BY <1>1, <1>6 DEF Owed, Owes
<1>9. ASSUME NEW i \in Nat, i < j.total, start <= i, i < start + j.spacing PROVE Owed(read', i)
  <2>1. m.pc = "fetch" /\ m.cursor <= i /\ i < m.window
    BY <1>1, <1>2, <1>3, <1>5, <1>9
  <2> QED
    BY <1>6, <2>1 DEF Owed, Owes
<1>10. \A i \in Nat : i < j.total /\ i < j.device /\ i < read'.next * j.spacing
                         => Fetched(read', i) \/ Owed(read', i)
  <2> SUFFICES ASSUME NEW i \in Nat, i < j.total, i < j.device, i < start + j.spacing
               PROVE  Fetched(read', i) \/ Owed(read', i)
    BY <1>2, <1>6
  <2>1. CASE i < start
    BY <1>7, <1>8, <2>1 DEF ReadInv, ReadIsRight, start
  <2>2. CASE start <= i
    BY <1>9, <2>2
  <2> QED
    BY <1>2, <2>1, <2>2
<1>11. \A k \in 1 .. Lanes : read'.lane[k].pc = "done" => j.total <= read'.next * j.spacing
  <2> SUFFICES ASSUME NEW k \in 1 .. Lanes, read'.lane[k].pc = "done"
               PROVE  j.total <= start + j.spacing
    BY <1>2, <1>6
  <2>1. j.total <= start
    BY <1>1, <1>2, <1>5, <1>6 DEF ReadInv, ReadIsRight, start
  <2> QED
    BY <1>1, <1>2, <2>1
<1>12. \A i \in Nat : Fetched(read', i) => i < j.device
  BY <1>7 DEF ReadInv, ReadIsRight
<1> HIDE DEF j
<1> QED
  BY <1>6, <1>10, <1>11, <1>12 DEF ReadInv, ReadIsRight

\* What a page holds: items from its start that the device has.
LEMMA PageIsWithin ==
    ASSUME NEW j, j.device \in Nat, NEW start \in Nat, NEW cap \in Nat
    PROVE  LET len == BulkPage(j, start, cap)
           IN /\ len \in Nat \union {-1}
              /\ len = 0 => j.device <= start
              /\ len # -1 /\ len # 0 => start + len <= j.device
<1> DEFINE d == j.device
           least == Min({start + cap, d})
<1>1. least = IF start + cap <= d THEN start + cap ELSE d
  BY LesserOfTwo
<1>2. least \in Nat
  BY <1>1
<1> HIDE DEF least
<1>3. Max({0, least - start}) = IF 0 >= least - start THEN 0 ELSE least - start
  BY <1>2, GreaterOfTwo
<1>4. BulkPage(j, start, cap) = IF cap = 0 /\ start < d THEN -1 ELSE Max({0, least - start})
  BY DEF BulkPage, least
<1> QED
  BY <1>1, <1>2, <1>3, <1>4

\* A lane with a page more.
LEMMA AdvancedIsRight ==
    ASSUME ReadInv, NEW l \in 1 .. Lanes, read.lane[l].pc = "fetch", NEW len \in Nat,
           len > 0, read.lane[l].cursor + len <= read.job.device
    PROVE  ReadIsRight([read EXCEPT !.lane[l] = Advanced(read.lane[l], len)])
<1> DEFINE n == read.lane[l]
           p == [start |-> n.cursor, len |-> len]
           m == Advanced(n, len)
           s == [read EXCEPT !.lane[l] = m]
<1>1. /\ read \in ReadStates /\ n \in LaneStates /\ n.cursor \in Nat /\ n.window \in Nat
      /\ n.pages \in ReadPages /\ read.job.device \in Nat
  BY ReadFields DEF ReadInv, ReadIsRight
<1>2. /\ Append(n.pages, p) \in ReadPages
      /\ \A i : InPages(Append(n.pages, p), i) <=> InPages(n.pages, i) \/ i \in Items(p)
  <2> DEFINE new == Append(n.pages, p)
  <2>1. p \in [start : Nat, len : Nat \ {0}]
    BY <1>1
  <2> HIDE DEF p, n
  <2>2. /\ new \in ReadPages
        /\ DOMAIN new = 1 .. Len(n.pages) + 1 /\ DOMAIN n.pages = 1 .. Len(n.pages)
        /\ Len(n.pages) \in Nat
        /\ \A k \in 1 .. Len(n.pages) : new[k] = n.pages[k]
        /\ new[Len(n.pages) + 1] = p
    BY <1>1, <2>1 DEF ReadPages
  <2> HIDE DEF new
  <2>3. \A k \in DOMAIN new : k \in DOMAIN n.pages \/ k = Len(n.pages) + 1
    BY <2>2
  <2>4. (\A k \in DOMAIN n.pages : k \in DOMAIN new) /\ Len(n.pages) + 1 \in DOMAIN new
    BY <2>2
  <2>5. \A i : InPages(new, i) <=> InPages(n.pages, i) \/ i \in Items(p)
    BY <2>2, <2>3, <2>4 DEF InPages
  <2> QED
    BY <2>2, <2>5 DEF new
<1>3. \A i \in Nat : i \in Items(p) <=> n.cursor <= i /\ i < n.cursor + len
  BY <1>1 DEF Items
<1>4. /\ m \in LaneStates /\ m.pages = Append(n.pages, p) /\ m.cursor = n.cursor + len
      /\ m.window = n.window /\ m.pc = IF n.cursor + len < n.window THEN "fetch" ELSE "claim"
  <2> HIDE DEF p, n
  <2>1. m = [pc |-> IF n.cursor + len < n.window THEN "fetch" ELSE "claim",
             cursor |-> n.cursor + len, window |-> n.window, retries |-> n.retries,
             pages |-> Append(n.pages, p)]
    <3>1. m = [n EXCEPT !.cursor = n.cursor + len, !.pages = Append(n.pages, p),
                        !.pc = IF n.cursor + len < n.window THEN "fetch" ELSE "claim"]
      BY DEF Advanced, p
    <3> QED
      BY <1>1, <3>1 DEF LaneStates
  <2>2. n.cursor + len \in Nat /\ n.retries \in Nat
    BY <1>1, LaneFields
  <2> HIDE DEF m
  <2> QED
    BY <1>1, <1>2, <2>1, <2>2 DEF LaneStates
<1> HIDE DEF m, n, p
<1>5. /\ s \in ReadStates /\ s.job = read.job /\ s.next = read.next
      /\ \A k \in 1 .. Lanes : s.lane[k] = IF k = l THEN m ELSE read.lane[k]
  BY <1>1, <1>4 DEF ReadStates
<1> HIDE DEF s
<1>6. \A i : Fetched(s, i) <=> Fetched(read, i) \/ i \in Items(p)
  BY <1>2, <1>4, <1>5 DEF Fetched, n
<1>7. \A i \in Nat : Owed(read, i) => Owed(s, i) \/ i \in Items(p)
  <2> SUFFICES ASSUME NEW i \in Nat, NEW k \in 1 .. Lanes, read.lane[k].pc \in {"fetch", "failed"},
                      read.lane[k].cursor <= i, i < read.lane[k].window, i \notin Items(p)
               PROVE  Owed(s, i)
    BY DEF Owed, Owes
  <2>1. CASE k = l
    <3>1. n.cursor + len <= i /\ i < n.window
      BY <1>1, <1>3, <2>1 DEF n
    <3>2. m.pc = "fetch" /\ m.cursor <= i /\ i < m.window
      BY <1>1, <1>4, <3>1
    <3> QED
      BY <1>5, <3>2 DEF Owed, Owes
  <2>2. CASE k # l
    BY <1>5, <2>2 DEF Owed, Owes
  <2> QED
    BY <2>1, <2>2
<1>8. \A i \in Nat : Fetched(s, i) => i < read.job.device
  BY <1>1, <1>3, <1>6 DEF ReadInv, ReadIsRight, n
<1>9. \A k \in 1 .. Lanes : s.lane[k].pc = "done" => read.lane[k].pc = "done"
  BY <1>4, <1>5
<1>10. ReadIsRight(s)
  BY <1>5, <1>6, <1>7, <1>8, <1>9 DEF ReadInv, ReadIsRight
<1> QED
  BY <1>10 DEF s, m, n

LEMMA FetchIsRight ==
    ASSUME ReadInv, NEW l \in 1 .. Lanes, Fetch(l)
    PROVE  ReadInv'
<1> DEFINE j == read.job
           n == read.lane[l]
<1>1. /\ read \in ReadStates /\ n \in LaneStates /\ n.cursor \in Nat /\ n.window \in Nat
      /\ n.retries \in Nat /\ j.device \in Nat /\ j.cap \in Nat /\ n.pc = "fetch"
      /\ read.lane \in [1 .. Lanes -> LaneStates] /\ Retries \in Nat
  BY ReadFields, PageSizes DEF ReadInv, ReadIsRight, Fetch
<1>2. PICK cap \in 0 .. j.cap :
        LET len == BulkPage(j, n.cursor, cap)
        IN read' = CASE len = -1 /\ n.retries < Retries ->
                            [read EXCEPT !.lane[l].retries = read.lane[l].retries + 1]
                     [] len = -1 /\ n.retries >= Retries -> [read EXCEPT !.lane[l].pc = "failed"]
                     [] len = 0 -> [read EXCEPT !.lane[l].pc = "claim"]
                     [] OTHER -> [read EXCEPT !.lane[l] = Advanced(n, len)]
  BY DEF Fetch
<1> DEFINE len == BulkPage(j, n.cursor, cap)
<1>3. /\ len \in Nat \union {-1}
      /\ len = 0 => j.device <= n.cursor
      /\ len # -1 /\ len # 0 => n.cursor + len <= j.device
  <2>1. cap \in Nat
    BY <1>1
  <2> QED
    BY <1>1, <2>1, PageIsWithin
<1>4. \/ len = -1 /\ read' = [read EXCEPT !.lane[l] = [n EXCEPT !.retries = n.retries + 1]]
      \/ len = -1 /\ read' = [read EXCEPT !.lane[l] = [n EXCEPT !.pc = "failed"]]
      \/ len = 0 /\ read' = [read EXCEPT !.lane[l] = [n EXCEPT !.pc = "claim"]]
      \/ len # -1 /\ len # 0 /\ read' = [read EXCEPT !.lane[l] = Advanced(n, len)]
  <2> HIDE DEF len
  <2>1. \/ len = -1 /\ n.retries < Retries
        \/ len = -1 /\ n.retries >= Retries
        \/ len = 0
        \/ len # -1 /\ len # 0
    BY <1>1
  <2>2. /\ len = -1 /\ n.retries < Retries =>
              read' = [read EXCEPT !.lane[l].retries = read.lane[l].retries + 1]
        /\ len = -1 /\ n.retries >= Retries => read' = [read EXCEPT !.lane[l].pc = "failed"]
        /\ len = 0 => read' = [read EXCEPT !.lane[l].pc = "claim"]
        /\ len # -1 /\ len # 0 => read' = [read EXCEPT !.lane[l] = Advanced(n, len)]
    BY <1>1, <1>2 DEF len
  <2> QED
    BY <2>1, <2>2
<1> HIDE DEF len
<1>5. CASE len = -1 /\ read' = [read EXCEPT !.lane[l] = [n EXCEPT !.retries = n.retries + 1]]
  <2> DEFINE m == [n EXCEPT !.retries = n.retries + 1]
  <2>1. m \in LaneStates /\ m.pages = n.pages /\ m.pc = "fetch" /\ m.cursor = n.cursor /\ m.window = n.window
    BY <1>1 DEF LaneStates
  <2> HIDE DEF m
  <2>2. ReadIsRight([read EXCEPT !.lane[l] = m])
    <3>1. /\ ReadIsRight(read) /\ m.pc # "done"
          /\ \A i \in Nat :
                i < read.job.device /\ Owes(read.lane[l], i) => Owes(m, i)
      BY <2>1 DEF ReadInv, Owes
    <3> QED
      BY <2>1, <3>1, LaneGoesOn
  <2> QED
    BY <1>5, <2>2 DEF ReadInv, m
<1>6. CASE len = -1 /\ read' = [read EXCEPT !.lane[l] = [n EXCEPT !.pc = "failed"]]
  <2> DEFINE m == [n EXCEPT !.pc = "failed"]
  <2>1. m \in LaneStates /\ m.pages = n.pages /\ m.pc = "failed" /\ m.cursor = n.cursor /\ m.window = n.window
    BY <1>1 DEF LaneStates
  <2> HIDE DEF m
  <2>2. ReadIsRight([read EXCEPT !.lane[l] = m])
    <3>1. /\ ReadIsRight(read) /\ m.pc # "done"
          /\ \A i \in Nat :
                i < read.job.device /\ Owes(read.lane[l], i) => Owes(m, i)
      BY <2>1 DEF ReadInv, Owes
    <3> QED
      BY <2>1, <3>1, LaneGoesOn
  <2> QED
    BY <1>6, <2>2 DEF ReadInv, m
<1>7. CASE len = 0 /\ read' = [read EXCEPT !.lane[l] = [n EXCEPT !.pc = "claim"]]
  <2> DEFINE m == [n EXCEPT !.pc = "claim"]
  <2>1. m \in LaneStates /\ m.pages = n.pages /\ m.pc = "claim"
    BY <1>1 DEF LaneStates
  <2>2. \A i \in Nat : ~ (i < j.device /\ n.cursor <= i)
    BY <1>1, <1>3, <1>7
  <2> HIDE DEF m
  <2>3. ReadIsRight([read EXCEPT !.lane[l] = m])
    <3>1. /\ ReadIsRight(read) /\ m.pc # "done"
          /\ \A i \in Nat :
                i < read.job.device /\ Owes(read.lane[l], i) => Owes(m, i)
      BY <2>1, <2>2 DEF ReadInv, Owes
    <3> QED
      BY <2>1, <3>1, LaneGoesOn
  <2> QED
    BY <1>7, <2>3 DEF ReadInv, m
<1>8. CASE len # -1 /\ len # 0 /\ read' = [read EXCEPT !.lane[l] = Advanced(n, len)]
  <2>1. len \in Nat /\ len > 0 /\ n.cursor + len <= j.device
    BY <1>3, <1>8
  <2>2. ReadIsRight([read EXCEPT !.lane[l] = Advanced(n, len)])
    BY <1>1, <2>1, AdvancedIsRight
  <2> QED
    BY <1>8, <2>2 DEF ReadInv
<1> QED
  BY <1>4, <1>5, <1>6, <1>7, <1>8

LEMMA ReadStep == ReadInv /\ ReadNext => ReadInv'
BY ClaimIsRight, FetchIsRight DEF ReadNext

LEMMA ReadInitially ==
    ASSUME read \in ReadStarts
    PROVE  ReadInv
<1>1. PICK j \in ReadJobs : read = [job |-> j, next |-> 0, lane |-> [l \in 1 .. Lanes |-> Claims]]
  BY DEF ReadStarts
<1>2. Claims \in LaneStates /\ Claims.pc = "claim" /\ Claims.pages = <<>>
  BY DEF Claims, LaneStates, ReadPages
<1>3. /\ read \in ReadStates /\ read.next = 0 /\ read.job = j
      /\ \A l \in 1 .. Lanes : read.lane[l].pc = "claim" /\ read.lane[l].pages = <<>>
  BY <1>1, <1>2 DEF ReadStates
<1>4. j.spacing \in Nat /\ 0 * j.spacing = 0
  BY PageSizes
<1>5. \A i : ~ Fetched(read, i)
  BY <1>3 DEF Fetched, InPages
<1> QED
  BY <1>3, <1>4, <1>5 DEF ReadInv, ReadIsRight

\* Once all lanes are through, their pages hold every item that was asked for and that the
\* device has, and none beyond: the stitch of read_all meets no gap.
ReadsLeaveNoGap ==
    (\A l \in 1 .. Lanes : read.lane[l].pc = "done") =>
        /\ \A i \in Nat : i < read.job.total /\ i < read.job.device => Fetched(read, i)
        /\ \A i \in Nat : Fetched(read, i) => i < read.job.device

LEMMA ReadInvHelps == ReadInv => ReadsLeaveNoGap
<1> SUFFICES ASSUME ReadInv, \A l \in 1 .. Lanes : read.lane[l].pc = "done",
                    NEW i \in Nat, i < read.job.total, i < read.job.device
             PROVE  Fetched(read, i)
  BY DEF ReadsLeaveNoGap, ReadInv, ReadIsRight
<1>1. 1 \in 1 .. Lanes
  BY PageSizes
<1>2. read.job.total <= read.next * read.job.spacing /\ read.job.total \in Nat
      /\ read.next * read.job.spacing \in Nat
  <2>1. read.next \in Nat /\ read.job.spacing \in Nat /\ read.job.total \in Nat
    BY ReadFields DEF ReadInv, ReadIsRight
  <2>2. \A a, b \in Nat : a * b \in Nat
    OBVIOUS
  <2> QED
    BY <1>1, <2>1, <2>2 DEF ReadInv, ReadIsRight
<1>3. ~ Owed(read, i)
  BY DEF Owed, Owes
<1> QED
  BY <1>2, <1>3 DEF ReadInv, ReadIsRight

-----------------------------------------------------------------------------
(* Forks, caps word and macros: the parts of the invariant.              *)

\* A record with these fields.
HasFields(r, F) == DOMAIN r = F /\ r = [f \in F |-> r[f]]

ForkFields == {"board", "layer", "bits", "down", "reg", "keep", "fresh", "active", "caps", "macros",
               "queue", "char", "text", "cut", "lost", "host", "typed"}

Slotted(b, a) == a.t = "macro" => a.slot \in DOMAIN b.macros

\* The action in whose place key k went down.
InPlace(s, k) == Replacement(s, k, s.board.keys[k])

IsActive(b, f) ==
    \/ f = Inactive
    \/ /\ HasFields(f, {"on", "src", "a", "suppress"}) /\ f.on
       /\ Slotted(b, f.a)

ForkTypes(s) ==
    /\ HasFields(s, ForkFields)
    /\ s.board \in ForkBoards
    /\ s.down \subseteq DOMAIN s.board.keys
    /\ s.active = [i \in DOMAIN s.board.forks |-> s.active[i]]
    /\ \A i \in DOMAIN s.active : IsActive(s.board, s.active[i])
    /\ HasFields(s.caps, {"on", "late", "shift"})
    /\ \A r \in s.reg : HasFields(r, {"src", "code", "mods"})
    /\ DOMAIN s.macros = DOMAIN s.board.macros
    /\ \A slot \in DOMAIN s.macros : s.macros[slot] \in MacrosOf(s.board)
    /\ s.queue \in Seq(Seq(OpsOf(s.board)))
    /\ s.char # <<>> => \E o \in OpsOf(s.board) : s.char = <<o>> /\ o.op = "char"
    /\ s.text \in BOOLEAN /\ s.cut \in BOOLEAN /\ s.lost \in BOOLEAN

\* Forks belong to keys that are down, or that go up right now, and to one key each.
ForksOfKeys(s, G) ==
    /\ \A i \in ActiveForks(s) : s.active[i].src \in s.down \union G
    /\ \A i, j \in ActiveForks(s) : s.active[i].src = s.active[j].src => i = j

\* So does what the keys registered, and what they fired was a keycode.
KeysOfKeys(s, G) ==
    \A r \in s.reg : r.src # FromMacro => r.src \in s.down \union G /\ InPlace(s, r.src).t = "key"

Codes(s) == {r.code : r \in Keycodes(s)}
CodesShown(s) == HasFields(s.host, {"mods", "codes"}) /\ s.host.codes = Codes(s)
ModifiersShown(s) ==
    ~s.text => /\ ResolveModifiers(s, FALSE) \subseteq s.host.mods
               /\ s.host.mods \ ResolveModifiers(s, FALSE) \subseteq {Shift}
NothingShown(s) == s.reg = {} /\ ~s.text => s.host.mods = {}

CapsRight(s) == Shift \in s.typed.mods \ s.typed.held => s.typed.code \in ShiftedKeys
FreshRight(s) == s.fresh \intersect Suppressed(s) = {}
TextRight(s) == s.text => s.char # <<>> \/ IsChar(s.queue) \/ s.cut

ForkParts(s, G) ==
    /\ ForkTypes(s) /\ ForksOfKeys(s, G) /\ KeysOfKeys(s, G) /\ CodesShown(s) /\ NothingShown(s)
    /\ CapsRight(s) /\ FreshRight(s)

\* Slots whose second half is still to come: D.
Promised(s, D, a) == \E slot \in D : Releases(Half(s.macros[slot], FALSE), 0, a)
DueSlots(s, G) == {InPlace(s, k).slot : k \in {k \in s.down \union G : InPlace(s, k).t = "macro"}}

Coming(s, i, a) == \E j \in i + 1 .. Len(s.queue) : Releases(s.queue[j], 0, a)

MacroKeysEnd(s, D) ==
    \A r \in s.reg : r.src = FromMacro =>
        \/ Coming(s, 0, r) \/ Promised(s, D, r)
        \/ s.char # <<>> /\ Same(r, Coded(s.char[1].code, {}))
PressesEnd(s, D) ==
    \A i \in 1 .. Len(s.queue) : \A p \in 1 .. Len(s.queue[i]) :
        LET o == s.queue[i][p]
        IN o.op = "press" => /\ o.a.t # "macro"
                             /\ o.a.t = "key" =>
                                  Releases(s.queue[i], p, o.a) \/ Coming(s, i, o.a) \/ Promised(s, D, o.a)
EndsAhead(s, D) == ~s.lost => MacroKeysEnd(s, D) /\ PressesEnd(s, D)

OneOfEach(s) ==
    \A r \in s.reg : r.code # NoCode =>
        /\ r.src # FromMacro => r.src \in CodeKeys(s.board)
        /\ r.src = FromMacro => r.code \in MacroCodes(s.board)
        /\ \A q \in s.reg : q.code # NoCode /\ q.src = r.src /\ (r.src = FromMacro => q.code = r.code) => q = r
HeldStay(s) == \A k \in s.down : InPlace(s, k).t = "key" => \E r \in s.reg : r.src = k

\* The turns of the loop, one after the other.
Turns(s, a, n, t) == t = [i \in 0 .. n |-> IF i = 0 THEN Chain(s, a) ELSE Bind(s, t[i - 1])]

\* The loop of a chain, as a sequence of turns.
LEMMA TurnsExist ==
    ASSUME NEW s, NEW a, NEW n \in Nat
    PROVE  \E t : Turns(s, a, n, t)
<1> DEFINE None == {i \in Nat : ~ \E t : Turns(s, a, i, t)}
<1> SUFFICES None = {}
  OBVIOUS
<1> SUFFICES ASSUME None # {} PROVE FALSE
  OBVIOUS
<1> DEFINE m == Min(None)
<1>1. m \in None /\ \A i \in None : m <= i
  BY LeastChunk
<1> HIDE DEF m
<1>2. m \in Nat
  BY <1>1
<1>3. CASE m = 0
  <2> DEFINE t == [i \in 0 .. 0 |-> Chain(s, a)]
  <2>1. t = [i \in 0 .. 0 |-> IF i = 0 THEN Chain(s, a) ELSE Bind(s, t[i - 1])]
    <3>1. \A i \in 0 .. 0 : i = 0
      OBVIOUS
    <3> QED
      BY <3>1
  <2>2. Turns(s, a, 0, t)
    BY <2>1 DEF Turns
  <2> QED
    BY <1>1, <1>3, <2>2
<1>4. CASE m # 0
  <2>1. m - 1 \in Nat /\ m - 1 \notin None
    BY <1>1, <1>2, <1>4
  <2>2. PICK t : Turns(s, a, m - 1, t)
    BY <2>1
  <2> DEFINE u == [i \in 0 .. m |-> IF i = m THEN Bind(s, t[m - 1]) ELSE t[i]]
  <2>3. \A i \in 0 .. m : u[i] = IF i = 0 THEN Chain(s, a) ELSE Bind(s, u[i - 1])
    <3> SUFFICES ASSUME NEW i \in 0 .. m
                 PROVE  u[i] = IF i = 0 THEN Chain(s, a) ELSE Bind(s, u[i - 1])
      OBVIOUS
    <3>1. CASE i = m
      <4>1. u[i] = Bind(s, t[m - 1]) /\ m - 1 \in 0 .. m /\ m - 1 # m
        BY <1>2, <1>4, <3>1
      <4>2. u[m - 1] = t[m - 1]
        BY <4>1
      <4> QED
        BY <1>4, <3>1, <4>1, <4>2
    <3>2. CASE i # m
      <4>1. i \in 0 .. m - 1 /\ u[i] = t[i]
        BY <1>2, <3>2
      <4>2. t[i] = IF i = 0 THEN Chain(s, a) ELSE Bind(s, t[i - 1])
        BY <2>2, <4>1 DEF Turns
      <4>3. i # 0 => i - 1 \in 0 .. m /\ i - 1 # m
        BY <1>2, <4>1
      <4>4. i # 0 => u[i - 1] = t[i - 1]
        BY <4>3
      <4> QED
        BY <4>1, <4>2, <4>4
    <3> QED
      BY <3>1, <3>2
  <2>4. u = [i \in 0 .. m |-> u[i]]
    OBVIOUS
  <2> HIDE DEF u
  <2>5. u = [i \in 0 .. m |-> IF i = 0 THEN Chain(s, a) ELSE Bind(s, u[i - 1])]
    BY <2>3, <2>4
  <2>6. Turns(s, a, m, u)
    BY <2>5 DEF Turns
  <2> QED
    BY <1>1, <1>2, <2>6
<1> QED
  BY <1>3, <1>4

LEMMA BoundIsLastTurn ==
    ASSUME NEW s, NEW a, Len(s.board.forks) \in Nat
    PROVE  \E t : Turns(s, a, Len(s.board.forks), t) /\ Bound(s, a) = t[Len(s.board.forks)]
<1> DEFINE L == Len(s.board.forks)
           t == CHOOSE t : Turns(s, a, L, t)
<1>1. Turns(s, a, L, t)
  BY TurnsExist
<1>2. Bound(s, a) = t[L]
  BY DEF Bound, Turns
<1> QED
  BY <1>1, <1>2

\* What holds of a chain after every turn.
ChainIsRight(s, a, c) ==
    /\ HasFields(c, {"a", "first", "used", "suppress", "keep", "bits", "done"})
    /\ c.first = 0 => c.a = a /\ c.keep = s.keep
    /\ c.first # 0 => /\ c.first \in DOMAIN s.board.forks /\ ~ s.active[c.first].on
                      /\ \E f \in Range(s.board.forks) : f.trigger = a
    /\ s.keep \ c.keep \subseteq c.suppress
    /\ Slotted(s.board, c.a)
    /\ KeepersFireKeys =>
         \/ c.keep \subseteq s.keep
         \/ /\ c.a.t = "key"
            /\ c.done \/ \A g \in Range(s.board.forks) : OutputsAreKeys(g)

\* A turn keeps it, and so does the loop.
LEMMA BindIsRight ==
    ASSUME NEW s, NEW a, NEW c, s.board \in ForkBoards, ChainIsRight(s, a, c)
    PROVE  ChainIsRight(s, a, Bind(s, c))
<1> DEFINE I == {i \in DOMAIN s.board.forks : Applies(s, c, i)}
<1>1. CASE c.done \/ I = {}
  <2>1. Bind(s, c) = [c EXCEPT !.done = TRUE]
    BY <1>1 DEF Bind
  <2> DEFINE d == [c EXCEPT !.done = TRUE]
  <2>2. /\ HasFields(d, {"a", "first", "used", "suppress", "keep", "bits", "done"})
        /\ d.a = c.a /\ d.first = c.first /\ d.keep = c.keep /\ d.suppress = c.suppress /\ d.done
    BY DEF ChainIsRight, HasFields
  <2> HIDE DEF d
  <2> QED
    BY <2>1, <2>2 DEF ChainIsRight, d
<1>2. CASE ~c.done /\ I # {}
  <2> DEFINE i == Min(I)
             f == s.board.forks[i]
             d == Bind(s, c)
             matched == f.any \ StateBits
  <2>1. I \subseteq Nat /\ 0 \notin I
    BY ForkBoardsAreWhole
  <2>2. i \in I
    BY <1>2, <2>1, LeastChunk
  <2>3. i \in DOMAIN s.board.forks /\ i # 0 /\ ~ s.active[i].on
        /\ (Decision(f, c.bits) \/ f.negative # Transparent) /\ f.trigger = c.a
    BY <2>1, <2>2, Zenon DEF Applies
  <2>4. d = [a |-> IF Decision(f, c.bits) THEN f.positive ELSE f.negative,
             first |-> IF c.first = 0 THEN i ELSE c.first,
             used |-> c.used \union {i},
             suppress |-> c.suppress \union (matched \ f.kept),
             keep |-> (c.keep \ matched) \union f.kept,
             bits |-> c.bits \ (matched \ f.kept),
             done |-> ~f.bindable]
    BY <1>2 DEF Bind
  <2> HIDE DEF i, I, d
  <2>5. f \in Range(s.board.forks)
    BY <2>3 DEF Range
  <2>6. f.positive \in ActionsOf(s.board) /\ f.negative \in ActionsOf(s.board)
    <3> DEFINE P(g) == {g.positive, g.negative}
    <3>1. P(f) \in {P(g) : g \in Range(s.board.forks)}
      BY <2>5
    <3>2. f.positive \in P(f) /\ f.negative \in P(f)
      OBVIOUS
    <3>3. UNION {P(g) : g \in Range(s.board.forks)} \subseteq ActionsOf(s.board)
      BY DEF ActionsOf
    <3> HIDE DEF P
    <3> QED
      BY <3>1, <3>2, <3>3
  <2>7. d.a = f.positive \/ (d.a = f.negative /\ f.negative # Transparent)
    BY <2>3, <2>4
  <2>8. Slotted(s.board, d.a)
    BY <2>6, <2>7, ForkBoardsAreWhole DEF Slotted
  <2>9. /\ d.first # 0 /\ d.first \in DOMAIN s.board.forks /\ ~ s.active[d.first].on
        /\ \E g \in Range(s.board.forks) : g.trigger = a
    <3>1. CASE c.first = 0
      BY <2>3, <2>4, <2>5, <3>1 DEF ChainIsRight
    <3>2. CASE c.first # 0
      BY <2>4, <3>2 DEF ChainIsRight
    <3> QED
      BY <3>1, <3>2
  <2>10. s.keep \ d.keep \subseteq d.suppress
    BY <2>4 DEF ChainIsRight
  <2>11. ASSUME KeepersFireKeys
         PROVE  \/ d.keep \subseteq s.keep
                \/ /\ d.a.t = "key"
                   /\ d.done \/ \A g \in Range(s.board.forks) : OutputsAreKeys(g)
    <3>1. CASE f.kept = {} /\ c.keep \subseteq s.keep
      BY <2>4, <3>1
    <3>2. CASE f.kept # {}
      <4>1. OutputsAreKeys(f) /\ (f.bindable => \A g \in Range(s.board.forks) : OutputsAreKeys(g))
        BY <2>5, <2>11, <3>2 DEF KeepersFireKeys
      <4>2. d.a.t = "key"
        BY <2>7, <4>1 DEF OutputsAreKeys
      <4> QED
        BY <2>4, <4>1, <4>2
    <3>3. CASE ~ (c.keep \subseteq s.keep)
      <4>1. \A g \in Range(s.board.forks) : OutputsAreKeys(g)
        BY <1>2, <2>11, <3>3 DEF ChainIsRight
      <4> QED
        BY <2>5, <2>7, <4>1 DEF OutputsAreKeys
    <3> QED
      BY <3>1, <3>2, <3>3
  <2>12. HasFields(d, {"a", "first", "used", "suppress", "keep", "bits", "done"})
    BY <2>4, Zenon DEF HasFields
  <2> HIDE DEF f, matched
  <2> QED
    BY <2>8, <2>9, <2>10, <2>11, <2>12 DEF ChainIsRight, d
<1> QED
  BY <1>1, <1>2

LEMMA BoundIsRight ==
    ASSUME NEW s, NEW a, s.board \in ForkBoards, Slotted(s.board, a)
    PROVE  ChainIsRight(s, a, Bound(s, a))
<1> DEFINE L == Len(s.board.forks)
<1>1. L \in Nat
  BY ForkBoardsAreWhole
<1>2. PICK t : Turns(s, a, L, t) /\ Bound(s, a) = t[L]
  BY <1>1, BoundIsLastTurn
<1> DEFINE Wrong == {n \in 0 .. L : ~ ChainIsRight(s, a, t[n])}
<1> HIDE DEF L
<1> SUFFICES ASSUME Wrong # {} PROVE FALSE
  BY <1>1, <1>2
<1> DEFINE m == Min(Wrong)
<1>3. m \in Wrong /\ \A n \in Wrong : m <= n
  BY <1>1, LeastChunk
<1> HIDE DEF m
<1>4. t[m] = IF m = 0 THEN Chain(s, a) ELSE Bind(s, t[m - 1])
  BY <1>2, <1>3 DEF Turns
<1>5. CASE m = 0
  <2>1. ChainIsRight(s, a, Chain(s, a))
    BY DEF Chain, ChainIsRight, HasFields
  <2> QED
    BY <1>3, <1>4, <1>5, <2>1
<1>6. CASE m # 0
  <2>1. m - 1 \in 0 .. L /\ ~ (m <= m - 1)
    BY <1>1, <1>3, <1>6
  <2>2. ChainIsRight(s, a, t[m - 1])
    BY <1>3, <2>1
  <2> QED
    BY <1>3, <1>4, <1>6, <2>2, BindIsRight
<1> QED
  BY <1>5, <1>6

-----------------------------------------------------------------------------
(* Forks: reports and registered keys.                                   *)

\* What a report, and registering a key, leaves alone.
Untouched(s, n) ==
    /\ HasFields(n, ForkFields)
    /\ n.board = s.board /\ n.layer = s.layer /\ n.bits = s.bits /\ n.down = s.down
    /\ n.active = s.active /\ n.macros = s.macros /\ n.queue = s.queue /\ n.char = s.char
    /\ n.lost = s.lost

\* What a report shows and leaves.
ReportedAs(s, mods, n) ==
    /\ Untouched(s, n)
    /\ n.reg = s.reg /\ n.keep = s.keep /\ n.fresh = s.fresh /\ n.caps = s.caps
    /\ n.text = FALSE /\ n.cut = FALSE
    /\ HasFields(n.host, {"mods", "codes"})
    /\ n.host.mods = mods /\ n.host.codes = Codes(s)
    /\ IF Codes(s) \subseteq s.host.codes THEN n.typed = s.typed
       ELSE /\ n.typed.code \in Codes(s) \ s.host.codes /\ n.typed.mods = mods
            /\ n.typed.held = ResolveModifiers(s, FALSE)

LEMMA ReportFacts ==
    ASSUME NEW s, HasFields(s, ForkFields), NEW mods, NEW n, n = Shown(s, mods, FALSE)
    PROVE  ReportedAs(s, mods, n)
<1> DEFINE new == Codes(s) \ s.host.codes
           host == [mods |-> mods, codes |-> Codes(s)]
           typed == IF new = {} THEN s.typed
                    ELSE [code |-> CHOOSE c \in new : TRUE, mods |-> mods,
                          held |-> ResolveModifiers(s, FALSE)]
<1>1. n = [s EXCEPT !.host = host, !.text = FALSE, !.cut = FALSE, !.typed = typed]
  BY DEF Shown, Codes
<1>2. HasFields(host, {"mods", "codes"}) /\ host.mods = mods /\ host.codes = Codes(s)
  BY DEF HasFields
<1>3. IF Codes(s) \subseteq s.host.codes THEN typed = s.typed
      ELSE /\ typed.code \in Codes(s) \ s.host.codes /\ typed.mods = mods
           /\ typed.held = ResolveModifiers(s, FALSE)
  OBVIOUS
<1> HIDE DEF host, typed, new
<1>4. /\ Untouched(s, n)
      /\ n.reg = s.reg /\ n.keep = s.keep /\ n.fresh = s.fresh /\ n.caps = s.caps
      /\ n.text = FALSE /\ n.cut = FALSE /\ n.host = host /\ n.typed = typed
  BY <1>1 DEF Untouched, HasFields, ForkFields
<1> QED
  BY <1>2, <1>3, <1>4, Zenon DEF ReportedAs

\* What a character of a text shows.
TextShown(s, mods, n) ==
    /\ Untouched(s, n)
    /\ n.reg = s.reg /\ n.keep = s.keep /\ n.fresh = s.fresh /\ n.caps = s.caps
    /\ n.text /\ n.text \in BOOLEAN /\ n.cut = FALSE
    /\ HasFields(n.host, {"mods", "codes"})
    /\ n.host.mods = mods /\ n.host.codes = Codes(s)
    /\ n.typed = s.typed \/ n.typed.mods = {}

CharShown(s, mods) == Shown(s, mods, TRUE)
LEMMA TextFacts ==
    ASSUME NEW s, HasFields(s, ForkFields), NEW mods, NEW n, n = CharShown(s, mods)
    PROVE  TextShown(s, mods, n)
<1> DEFINE new == Codes(s) \ s.host.codes
           host == [mods |-> mods, codes |-> Codes(s)]
           typed == IF new = {} THEN s.typed
                    ELSE [code |-> CHOOSE c \in new : TRUE, mods |-> {},
                          held |-> ResolveModifiers(s, FALSE)]
<1>1. n = [s EXCEPT !.host = host, !.text = TRUE, !.cut = FALSE, !.typed = typed]
  BY DEF Shown, CharShown, Codes
<1>2. HasFields(host, {"mods", "codes"}) /\ host.mods = mods /\ host.codes = Codes(s)
  BY DEF HasFields
<1>3. typed = s.typed \/ typed.mods = {}
  OBVIOUS
<1> HIDE DEF host, typed, new
<1>4. /\ Untouched(s, n)
      /\ n.reg = s.reg /\ n.keep = s.keep /\ n.fresh = s.fresh /\ n.caps = s.caps
      /\ n.text = TRUE /\ n.cut = FALSE /\ n.host = host /\ n.typed = typed
  BY <1>1 DEF Untouched, HasFields, ForkFields
<1> QED
  BY <1>2, <1>3, <1>4, Zenon DEF TextShown

LEMMA UnregisterFacts ==
    ASSUME NEW s, HasFields(s, ForkFields), NEW e, NEW n, n = UnregisterKey(s, e)
    PROVE  /\ Untouched(s, n) /\ n.reg = Unmatched(s, e)
           /\ n.keep = s.keep /\ n.fresh \subseteq s.fresh /\ n.caps = s.caps
           /\ n.host = s.host /\ n.text = s.text /\ n.cut = s.cut /\ n.typed = s.typed
<1> DEFINE R == Unmatched(s, e)
           m == [s EXCEPT !.reg = R]
<1>1. n = [m EXCEPT !.fresh = @ \intersect HeldModifiers(m)]
  BY DEF UnregisterKey
<1> HIDE DEF R
<1>2. HasFields(m, ForkFields) /\ m.reg = R
      /\ m.board = s.board /\ m.layer = s.layer /\ m.bits = s.bits /\ m.down = s.down
      /\ m.active = s.active /\ m.macros = s.macros /\ m.queue = s.queue /\ m.char = s.char
      /\ m.lost = s.lost /\ m.keep = s.keep /\ m.fresh = s.fresh /\ m.caps = s.caps
      /\ m.host = s.host /\ m.text = s.text /\ m.cut = s.cut /\ m.typed = s.typed
  BY DEF HasFields, ForkFields
<1> DEFINE H == HeldModifiers(m)
<1> HIDE DEF m, H
<1>3. n = [m EXCEPT !.fresh = @ \intersect H]
  BY <1>1 DEF H
<1> QED
  BY <1>2, <1>3 DEF Untouched, HasFields, ForkFields, R

\* A registered key is e, or was registered before and is not what e refers to.
Registered(s, n, e) ==
    /\ \A q \in n.reg :
         \/ q = e
         \/ \E r \in s.reg : /\ ~ Matches(r, e) /\ q.src = r.src /\ q.code = r.code
                             /\ q.code = NoCode => q = r
                             /\ HasFields(r, {"src", "code", "mods"}) => HasFields(q, {"src", "code", "mods"})
    /\ \A r \in s.reg : ~ Matches(r, e) => \E q \in n.reg : q.src = r.src /\ q.code = r.code
    /\ \/ e \in n.reg
       \/ /\ e.code # NoCode /\ n.reg = Unmatched(s, e)
          /\ Cardinality({r \in Unmatched(s, e) : r.code # NoCode}) >= KeycodeSlots

LEMMA RegisterFacts ==
    ASSUME NEW s, HasFields(s, ForkFields), NEW e, NEW n, n = RegisterKey(s, e),
           \A r \in s.reg : HasFields(r, {"src", "code", "mods"})
    PROVE  /\ Untouched(s, n) /\ Registered(s, n, e) /\ n.reg # {}
           /\ \E held : n.keep = s.keep \union held /\ n.fresh = s.fresh \union held
           /\ n.caps = s.caps
           /\ n.host = s.host /\ n.text = s.text /\ n.cut = s.cut /\ n.typed = s.typed
<1> DEFINE R == Unmatched(s, e)
           m == [s EXCEPT !.reg = R]
           held == IF e.code = NoCode THEN e.mods ELSE {}
<1>1. m.reg = R
  BY DEF HasFields, ForkFields
<1>2. Keycodes(m) = {r \in R : r.code # NoCode}
  BY <1>1 DEF Keycodes
<1>3. n = IF e.code # NoCode /\ Cardinality({r \in R : r.code # NoCode}) >= KeycodeSlots THEN m
          ELSE [m EXCEPT !.reg = Unmodified(@) \union {e}, !.keep = @ \union held,
                         !.fresh = @ \union held]
  BY <1>2 DEF RegisterKey
<1>4. \A r \in R : r \in s.reg /\ ~ Matches(r, e)
  BY DEF Unmatched
<1>5. \A r \in s.reg : ~ Matches(r, e) => r \in R
  BY DEF Unmatched
<1> HIDE DEF held
<1>6. CASE e.code # NoCode /\ Cardinality({r \in R : r.code # NoCode}) >= KeycodeSlots
  <2>1. n = [s EXCEPT !.reg = R]
    BY <1>3, <1>6
  <2>2. R # {}
    <3> SUFFICES ASSUME R = {} PROVE FALSE
      OBVIOUS
    <3>1. {r \in R : r.code # NoCode} = {}
      OBVIOUS
    <3>2. Cardinality({r \in R : r.code # NoCode}) = 0
      BY <3>1, FS_EmptySet
    <3> QED
      BY <1>6, <3>2, ForkSizes
  <2> HIDE DEF R
  <2>3. /\ Untouched(s, n) /\ n.reg = R /\ n.keep = s.keep /\ n.fresh = s.fresh /\ n.caps = s.caps
        /\ n.host = s.host /\ n.text = s.text /\ n.cut = s.cut /\ n.typed = s.typed
    BY <2>1 DEF Untouched, HasFields, ForkFields
  <2>4. Registered(s, n, e)
    BY <1>4, <1>5, <1>6, <2>3 DEF Registered, R
  <2>5. n.keep = s.keep \union {} /\ n.fresh = s.fresh \union {}
    BY <2>3
  <2> QED
    BY <2>2, <2>3, <2>4, <2>5
<1>7. CASE ~ (e.code # NoCode /\ Cardinality({r \in R : r.code # NoCode}) >= KeycodeSlots)
  <2> DEFINE U == Unmodified(R)
  <2>1. n = [m EXCEPT !.reg = Unmodified(@) \union {e}, !.keep = @ \union held,
                      !.fresh = @ \union held]
    BY <1>3, <1>7
  <2>2. \A q \in U : \E r \in R : /\ q.src = r.src /\ q.code = r.code
                                  /\ q.code = NoCode => q = r
                                  /\ HasFields(q, {"src", "code", "mods"})
    BY <1>4 DEF Unmodified, HasFields
  <2>3. \A r \in R : \E q \in U : q.src = r.src /\ q.code = r.code
    <3> SUFFICES ASSUME NEW r \in R PROVE \E q \in U : q.src = r.src /\ q.code = r.code
      OBVIOUS
    <3> DEFINE q == IF r.code = NoCode THEN r ELSE [r EXCEPT !.mods = {}]
    <3>1. q \in U
      BY DEF Unmodified
    <3>2. q.src = r.src /\ q.code = r.code
      BY <1>4 DEF HasFields
    <3> QED
      BY <3>1, <3>2
  <2> HIDE DEF R, U
  <2>4. /\ Untouched(s, n) /\ n.reg = U \union {e}
        /\ n.keep = s.keep \union held /\ n.fresh = s.fresh \union held /\ n.caps = s.caps
        /\ n.host = s.host /\ n.text = s.text /\ n.cut = s.cut /\ n.typed = s.typed
    BY <2>1, Zenon DEF Untouched, HasFields, ForkFields, U
  <2>5. Registered(s, n, e)
    <3>1. \A q \in n.reg : \/ q = e
                           \/ \E r \in s.reg : /\ ~ Matches(r, e) /\ q.src = r.src /\ q.code = r.code
                                               /\ q.code = NoCode => q = r
                                               /\ HasFields(q, {"src", "code", "mods"})
      BY <1>4, <2>2, <2>4
    <3>2. \A r \in s.reg : ~ Matches(r, e) => \E q \in n.reg : q.src = r.src /\ q.code = r.code
      BY <1>5, <2>3, <2>4
    <3> QED
      BY <2>4, <3>1, <3>2 DEF Registered
  <2> QED
    BY <2>4, <2>5
<1> QED
  BY <1>6, <1>7

-----------------------------------------------------------------------------
(* Forks: plain keys of a report.                                        *)

\* Who is down, and what was put in place of whom, does not depend on the report.
LEMMA SameForks ==
    ASSUME NEW s, NEW n, n.board = s.board, n.active = s.active
    PROVE  /\ ActiveForks(n) = ActiveForks(s)
           /\ \A k : InPlace(n, k) = InPlace(s, k)
BY DEF ActiveForks, InPlace, Replacement

\* What the forks suppress, but for the modifiers that are kept.
Stock(s) == UNION {s.active[i].suppress : i \in ActiveForks(s)}

\* The modifiers in force depend on these.
LEMMA SameResolved ==
    ASSUME NEW s, NEW n, n.reg = s.reg, n.active = s.active, n.keep = s.keep
    PROVE  ResolveModifiers(n, FALSE) = ResolveModifiers(s, FALSE)
BY DEF ResolveModifiers, HeldModifiers, Keycodes, Suppressed, ActiveForks

LEMMA NothingResolved ==
    ASSUME NEW s, s.reg = {}
    PROVE  ResolveModifiers(s, FALSE) = {}
<1>1. Keycodes(s) = {} /\ HeldModifiers(s) = {}
  BY DEF Keycodes, HeldModifiers, Mods
<1> QED
  BY <1>1 DEF ResolveModifiers, Mods

\* The part of a record's type that a report, and registering a key, does not touch.
LEMMA UntouchedTypes ==
    ASSUME NEW s, NEW n, Untouched(s, n), ForkTypes(s),
           HasFields(n.caps, {"on", "late", "shift"}), n.text \in BOOLEAN, n.cut \in BOOLEAN,
           \A r \in n.reg : HasFields(r, {"src", "code", "mods"})
    PROVE  ForkTypes(n)
BY DEF Untouched, ForkTypes

\* A report leaves the forks what they are.
LEMMA UntouchedForks ==
    ASSUME NEW s, NEW n, NEW G, Untouched(s, n), ForksOfKeys(s, G)
    PROVE  ForksOfKeys(n, G)
<1>1. ActiveForks(n) = ActiveForks(s) /\ n.active = s.active /\ n.down = s.down
  BY SameForks DEF Untouched
<1> QED
  BY <1>1 DEF ForksOfKeys

\* Registering a key keeps the keys sound.
LEMMA RegisteredKeys ==
    ASSUME NEW s, NEW n, NEW e, NEW G, n.board = s.board, n.active = s.active, n.down = s.down,
           Registered(s, n, e),
           KeysOfKeys(s, G),
           e.src = FromMacro \/ (e.src \in s.down \union G /\ InPlace(s, e.src).t = "key")
    PROVE  KeysOfKeys(n, G)
<1>1. \A k : InPlace(n, k) = InPlace(s, k)
  BY SameForks
<1> SUFFICES ASSUME NEW q \in n.reg, q.src # FromMacro
             PROVE  q.src \in n.down \union G /\ InPlace(n, q.src).t = "key"
  BY DEF KeysOfKeys
<1>2. CASE q = e
  BY <1>1, <1>2
<1>3. CASE \E r \in s.reg : q.src = r.src
  BY <1>1, <1>3 DEF KeysOfKeys
<1> QED
  BY <1>2, <1>3 DEF Registered

\* No code but that of the key is new.
LEMMA RegisteredCodes ==
    ASSUME NEW s, NEW n, NEW e, Registered(s, n, e)
    PROVE  Codes(n) \subseteq Codes(s) \union {e.code}
BY DEF Registered, Keycodes, Codes

\* Caps word shifts what it is to shift only.
LEMMA CheckedFacts ==
    ASSUME NEW c, HasFields(c, {"on", "late", "shift"}), NEW code
    PROVE  /\ HasFields(Checked(c, code), {"on", "late", "shift"})
           /\ Checked(c, code).shift => code \in ShiftedKeys
<1>1. CASE c.on /\ ~c.late /\ code \in WordKeys
  BY <1>1 DEF Checked, HasFields
<1>2. CASE ~ (c.on /\ ~c.late /\ code \in WordKeys)
  BY <1>2 DEF Checked, CapsOff, HasFields
<1> QED
  BY <1>1, <1>2

LEMMA EventFacts ==
    ASSUME NEW src, NEW a
    PROVE  /\ Event(src, a).src = src /\ Event(src, a).code = a.code /\ Event(src, a).mods = a.mods
           /\ HasFields(Event(src, a), {"src", "code", "mods"})
BY DEF Event, HasFields

\* After a report everything is as it should be.
AllShown(s, n, G) ==
    ForkParts(n, G) /\ ModifiersShown(n) /\ Untouched(s, n) /\ n.text = FALSE

\* process_key_action_normal, for the press of a keycode.
LEMMA KeyPressed ==
    ASSUME NEW s, NEW G, NEW src, NEW a, a.t = "key", ForkParts(s, G),
           src = FromMacro \/ (src \in s.down \union G /\ InPlace(s, src).t = "key"),
           NEW n, n = NormalKey(s, src, a, TRUE)
    PROVE  AllShown(s, n, G) /\ Registered(s, n, Event(src, a))
<1> DEFINE e == Event(src, a)
           c == Checked(s.caps, a.code)
           m == [s EXCEPT !.caps = c]
           p == RegisterKey(m, e)
<1>1. n = Shown(p, ResolveModifiers(p, TRUE), FALSE)
  BY DEF NormalKey, Sent
<1>2. HasFields(c, {"on", "late", "shift"}) /\ (c.shift => a.code \in ShiftedKeys)
  BY CheckedFacts DEF ForkParts, ForkTypes
<1>3. e.src = src /\ e.code = a.code /\ e.mods = a.mods /\ HasFields(e, {"src", "code", "mods"})
  BY EventFacts
<1> HIDE DEF c, e
<1>4. /\ HasFields(s, ForkFields)
      /\ \A r \in s.reg : HasFields(r, {"src", "code", "mods"})
  BY DEF ForkParts, ForkTypes
<1>5. /\ Untouched(s, m) /\ m.reg = s.reg /\ m.keep = s.keep /\ m.fresh = s.fresh /\ m.caps = c
      /\ m.host = s.host /\ m.text = s.text /\ m.cut = s.cut /\ m.typed = s.typed
  BY <1>4 DEF Untouched, HasFields, ForkFields
<1> HIDE DEF m
<1>6. HasFields(m, ForkFields)
  BY <1>5 DEF Untouched
<1>7. /\ Untouched(m, p) /\ Registered(m, p, e) /\ p.reg # {}
      /\ \E held : p.keep = m.keep \union held /\ p.fresh = m.fresh \union held
      /\ p.caps = m.caps
      /\ p.host = m.host /\ p.text = m.text /\ p.cut = m.cut /\ p.typed = m.typed
  BY <1>4, <1>5, <1>6, RegisterFacts
<1> HIDE DEF p
<1>8. HasFields(p, ForkFields)
  BY <1>7 DEF Untouched
<1> DEFINE mods == ResolveModifiers(p, TRUE)
           codes == Codes(p)
<1>9. /\ Untouched(p, n)
      /\ n.reg = p.reg /\ n.keep = p.keep /\ n.fresh = p.fresh /\ n.caps = p.caps
      /\ n.text = FALSE /\ n.cut = FALSE
      /\ HasFields(n.host, {"mods", "codes"})
      /\ n.host.mods = mods /\ n.host.codes = codes
      /\ IF codes \subseteq p.host.codes THEN n.typed = p.typed
         ELSE /\ n.typed.code \in codes \ p.host.codes /\ n.typed.mods = mods
              /\ n.typed.held = ResolveModifiers(p, FALSE)
  <2>1. n = Shown(p, mods, FALSE)
    BY <1>1
  <2> HIDE DEF mods
  <2> QED
    <3>1. ReportedAs(p, mods, n)
      BY <1>8, <2>1, ReportFacts
    <3> QED
      BY <3>1 DEF ReportedAs
<1>10. Untouched(s, n)
  BY <1>5, <1>7, <1>9 DEF Untouched
<1>11. Registered(s, n, e)
  BY <1>5, <1>7, <1>9 DEF Registered, Unmatched
<1>12. ForkTypes(n)
  <2>1. \A r \in n.reg : HasFields(r, {"src", "code", "mods"})
    BY <1>3, <1>4, <1>11 DEF Registered
  <2>2. HasFields(n.caps, {"on", "late", "shift"}) /\ n.text \in BOOLEAN /\ n.cut \in BOOLEAN
    BY <1>2, <1>5, <1>7, <1>9
  <2> QED
    BY <1>10, <2>1, <2>2, UntouchedTypes DEF ForkParts
<1>13. ForksOfKeys(n, G)
  BY <1>10, UntouchedForks DEF ForkParts
<1>14. KeysOfKeys(n, G)
  BY <1>3, <1>10, <1>11, RegisteredKeys DEF ForkParts, Untouched
<1>15. CodesShown(n)
  BY <1>9 DEF CodesShown, Codes, Keycodes
<1>16. NothingShown(n)
  BY <1>7, <1>9 DEF NothingShown
<1>17. /\ ResolveModifiers(p, FALSE) \subseteq mods
       /\ mods \ ResolveModifiers(p, FALSE) \subseteq {Shift}
       /\ mods # ResolveModifiers(p, FALSE) => p.caps.shift
  BY DEF ResolveModifiers, CapsShifts
<1>18. ModifiersShown(n)
  <2>1. ResolveModifiers(n, FALSE) = ResolveModifiers(p, FALSE)
    BY <1>9, SameResolved DEF Untouched
  <2> QED
    BY <1>9, <1>17, <2>1 DEF ModifiersShown
<1>19. CapsRight(n)
  <2>1. CASE codes \subseteq p.host.codes
    BY <1>5, <1>7, <1>9, <2>1 DEF CapsRight, ForkParts
  <2>2. CASE ~ (codes \subseteq p.host.codes)
    <3>1. codes \subseteq Codes(s) \union {a.code}
      <4>1. Codes(n) \subseteq Codes(s) \union {e.code}
        BY <1>11, RegisteredCodes
      <4>2. Codes(n) = Codes(p)
        BY <1>9 DEF Codes, Keycodes
      <4> QED
        BY <1>3, <4>1, <4>2
    <3>2. p.host.codes = Codes(s)
      BY <1>5, <1>7 DEF ForkParts, CodesShown
    <3>3. n.typed.code = a.code /\ n.typed.mods = mods /\ n.typed.held = ResolveModifiers(p, FALSE)
      BY <1>9, <2>2, <3>1, <3>2
    <3>4. p.caps.shift => a.code \in ShiftedKeys
      BY <1>2, <1>5, <1>7
    <3> HIDE DEF mods
    <3> QED
      BY <1>17, <3>3, <3>4 DEF CapsRight
  <2> QED
    BY <2>1, <2>2
<1>20. FreshRight(n)
  <2>1. PICK held : n.keep = s.keep \union held /\ n.fresh = s.fresh \union held
    BY <1>5, <1>7, <1>9
  <2>2. ActiveForks(n) = ActiveForks(s) /\ n.active = s.active
    BY <1>10, SameForks DEF Untouched
  <2>3. Suppressed(n) = Suppressed(s) \ held
    <3>1. Suppressed(n) = Stock(n) \ n.keep /\ Suppressed(s) = Stock(s) \ s.keep
      BY DEF Suppressed, Stock
    <3>2. Stock(n) = Stock(s)
      BY <2>2 DEF Stock
    <3> QED
      BY <2>1, <3>1, <3>2
  <2>4. s.fresh \intersect Suppressed(s) = {}
    BY DEF FreshRight, ForkParts
  <2> QED
    BY <2>1, <2>3, <2>4 DEF FreshRight
<1> QED
  BY <1>9, <1>10, <1>11, <1>12, <1>13, <1>14, <1>15, <1>16, <1>18, <1>19, <1>20 DEF ForkParts, AllShown, e

\* Fewer entries than before.
LEMMA UnmatchedKeys ==
    ASSUME NEW s, NEW n, NEW G, Untouched(s, n), n.reg \subseteq s.reg, KeysOfKeys(s, G)
    PROVE  KeysOfKeys(n, G)
<1>1. \A k : InPlace(n, k) = InPlace(s, k)
  BY SameForks DEF Untouched
<1> QED
  BY <1>1 DEF KeysOfKeys, Untouched

\* Modifiers pressed since a fork fired stay unsuppressed.
LEMMA UntouchedFresh ==
    ASSUME NEW s, NEW n, Untouched(s, n), n.keep = s.keep, n.fresh \subseteq s.fresh, FreshRight(s)
    PROVE  FreshRight(n)
<1>1. ActiveForks(n) = ActiveForks(s) /\ n.active = s.active
  BY SameForks DEF Untouched
<1> QED
  BY <1>1 DEF FreshRight, Suppressed

\* Nothing but the registered keys changed, which are fewer.
Lessened(s, m) ==
    /\ Untouched(s, m) /\ m.reg \subseteq s.reg /\ m.keep = s.keep /\ m.fresh \subseteq s.fresh
    /\ m.caps = s.caps /\ m.host = s.host /\ m.typed = s.typed

\* A report without a press.
Report(s) == Sent(s, FALSE)

\* A report shows what is registered and in force.
LEMMA ReportSent ==
    ASSUME NEW s, NEW G, NEW m, NEW n, n = Report(m), Lessened(s, m), ForkParts(s, G)
    PROVE  AllShown(s, n, G) /\ n.reg = m.reg
<1>1. /\ Untouched(s, m) /\ m.reg \subseteq s.reg /\ m.keep = s.keep /\ m.fresh \subseteq s.fresh
      /\ m.caps = s.caps /\ m.host = s.host /\ m.typed = s.typed
  BY DEF Lessened
<1> DEFINE mods == ResolveModifiers(m, FALSE)
           codes == Codes(m)
<1>2. HasFields(m, ForkFields)
  BY <1>1 DEF Untouched
<1>3. n = Shown(m, mods, FALSE)
  BY DEF Report, Sent
<1>4. codes \subseteq s.host.codes
  BY <1>1 DEF ForkParts, CodesShown, Codes, Keycodes
<1>5. codes \subseteq m.host.codes
  BY <1>1, <1>4
<1>6. /\ Untouched(m, n)
      /\ n.reg = m.reg /\ n.keep = m.keep /\ n.fresh = m.fresh /\ n.caps = m.caps
      /\ n.text = FALSE /\ n.cut = FALSE
      /\ HasFields(n.host, {"mods", "codes"})
      /\ n.host.mods = mods /\ n.host.codes = codes
      /\ n.typed = m.typed
  <2> HIDE DEF mods
  <2> QED
    <3>1. ReportedAs(m, mods, n)
      BY <1>2, <1>3, ReportFacts
    <3> QED
      BY <1>5, <3>1 DEF ReportedAs
<1>7. Untouched(s, n)
  BY <1>1, <1>6 DEF Untouched
<1>8. ForkTypes(n)
  <2>1. \A r \in n.reg : HasFields(r, {"src", "code", "mods"})
    BY <1>1, <1>6 DEF ForkParts, ForkTypes
  <2>2. HasFields(n.caps, {"on", "late", "shift"}) /\ n.text \in BOOLEAN /\ n.cut \in BOOLEAN
    BY <1>1, <1>6 DEF ForkParts, ForkTypes
  <2> QED
    BY <1>7, <2>1, <2>2, UntouchedTypes DEF ForkParts
<1>9. ResolveModifiers(n, FALSE) = mods
  BY <1>1, <1>6, SameResolved DEF Untouched
<1>10. ModifiersShown(n)
  BY <1>6, <1>9 DEF ModifiersShown
<1>11. NothingShown(n)
  BY <1>6, <1>9, NothingResolved DEF NothingShown
<1>12. CodesShown(n)
  BY <1>6 DEF CodesShown, Codes, Keycodes
<1>13. CapsRight(n)
  BY <1>1, <1>6 DEF CapsRight, ForkParts
<1>14. FreshRight(n)
  BY <1>1, <1>6, <1>7, UntouchedFresh DEF ForkParts
<1>15. ForksOfKeys(n, G) /\ KeysOfKeys(n, G)
  BY <1>1, <1>6, <1>7, UntouchedForks, UnmatchedKeys DEF ForkParts
<1> QED
  BY <1>6, <1>7, <1>8, <1>10, <1>11, <1>12, <1>13, <1>14, <1>15 DEF ForkParts, AllShown

\* process_key_action_normal, for the release of a keycode.
KeyUp(s, src, a) == NormalKey(s, src, a, FALSE)

LEMMA KeyReleased ==
    ASSUME NEW s, NEW G, NEW src, NEW a, a.t = "key", ForkParts(s, G),
           NEW n, n = KeyUp(s, src, a)
    PROVE  AllShown(s, n, G) /\ n.reg = Unmatched(s, Event(src, a))
<1> DEFINE m == UnregisterKey(s, Event(src, a))
<1>1. n = Report(m)
  BY DEF KeyUp, NormalKey, Report
<1>2. /\ Untouched(s, m) /\ m.reg = Unmatched(s, Event(src, a))
      /\ m.keep = s.keep /\ m.fresh \subseteq s.fresh /\ m.caps = s.caps
      /\ m.host = s.host /\ m.text = s.text /\ m.cut = s.cut /\ m.typed = s.typed
  BY UnregisterFacts DEF ForkParts, ForkTypes
<1>3. m.reg \subseteq s.reg
  BY <1>2 DEF Unmatched
<1> HIDE DEF m
<1>4. Lessened(s, m)
  BY <1>2, <1>3 DEF Lessened
<1>5. AllShown(s, n, G) /\ n.reg = m.reg
  BY <1>1, <1>4, ReportSent
<1> QED
  BY <1>2, <1>5

\* The first and the last report of a character of a text.
LEMMA CharPressed ==
    ASSUME NEW s, NEW G, NEW e, NEW mods, NEW n, n = CharShown(RegisterKey(s, e), mods),
           ForkParts(s, G), e.src = FromMacro, HasFields(e, {"src", "code", "mods"})
    PROVE  /\ ForkParts(n, G) /\ Untouched(s, n) /\ n.text
           /\ Registered(s, n, e)
<1> DEFINE p == RegisterKey(s, e)
<1>1. /\ HasFields(s, ForkFields)
      /\ \A r \in s.reg : HasFields(r, {"src", "code", "mods"})
  BY DEF ForkParts, ForkTypes
<1>2. /\ Untouched(s, p) /\ Registered(s, p, e) /\ p.reg # {}
      /\ \E held : p.keep = s.keep \union held /\ p.fresh = s.fresh \union held
      /\ p.caps = s.caps
      /\ p.host = s.host /\ p.text = s.text /\ p.cut = s.cut /\ p.typed = s.typed
  BY <1>1, RegisterFacts
<1> HIDE DEF p
<1>3. TextShown(p, mods, n)
  BY <1>2, TextFacts DEF Untouched, p
<1>4. /\ Untouched(p, n)
      /\ n.reg = p.reg /\ n.keep = p.keep /\ n.fresh = p.fresh /\ n.caps = p.caps
      /\ n.text /\ n.text \in BOOLEAN /\ n.cut = FALSE
      /\ HasFields(n.host, {"mods", "codes"}) /\ n.host.codes = Codes(p)
      /\ n.typed = p.typed \/ n.typed.mods = {}
  BY <1>3 DEF TextShown
<1>5. Untouched(s, n)
  BY <1>2, <1>4 DEF Untouched
<1>6. Registered(s, n, e)
  BY <1>2, <1>4 DEF Registered
<1>7. ForkTypes(n)
  <2>1. \A r \in n.reg : HasFields(r, {"src", "code", "mods"})
    BY <1>1, <1>6 DEF Registered
  <2>2. HasFields(n.caps, {"on", "late", "shift"}) /\ n.text \in BOOLEAN /\ n.cut \in BOOLEAN
    BY <1>2, <1>4 DEF ForkParts, ForkTypes
  <2> QED
    BY <1>5, <2>1, <2>2, UntouchedTypes DEF ForkParts
<1>8. ForksOfKeys(n, G)
  BY <1>5, UntouchedForks DEF ForkParts
<1>9. KeysOfKeys(n, G)
  BY <1>5, <1>6, RegisteredKeys DEF ForkParts, Untouched
<1>10. CodesShown(n) /\ NothingShown(n)
  BY <1>4 DEF CodesShown, Codes, Keycodes, NothingShown
<1>11. CapsRight(n)
  BY <1>2, <1>4 DEF CapsRight, ForkParts
<1>12. FreshRight(n)
  <2>1. PICK held : n.keep = s.keep \union held /\ n.fresh = s.fresh \union held
    BY <1>2, <1>4
  <2>2. ActiveForks(n) = ActiveForks(s) /\ n.active = s.active
    BY <1>5, SameForks DEF Untouched
  <2>3. Suppressed(n) = Suppressed(s) \ held
    <3>1. Suppressed(n) = Stock(n) \ n.keep /\ Suppressed(s) = Stock(s) \ s.keep
      BY DEF Suppressed, Stock
    <3>2. Stock(n) = Stock(s)
      BY <2>2 DEF Stock
    <3> QED
      BY <2>1, <3>1, <3>2
  <2>4. s.fresh \intersect Suppressed(s) = {}
    BY DEF FreshRight, ForkParts
  <2> QED
    BY <2>1, <2>3, <2>4 DEF FreshRight
<1> QED
  BY <1>4, <1>5, <1>6, <1>7, <1>8, <1>9, <1>10, <1>11, <1>12 DEF ForkParts

LEMMA CharReleased ==
    ASSUME NEW s, NEW G, NEW e, NEW mods, NEW n, n = CharShown(UnregisterKey(s, e), mods),
           ForkParts(s, G)
    PROVE  /\ ForkParts(n, G) /\ Untouched(s, n) /\ n.text
           /\ n.reg = Unmatched(s, e)
<1> DEFINE p == UnregisterKey(s, e)
<1>1. HasFields(s, ForkFields)
  BY DEF ForkParts, ForkTypes
<1>2. /\ Untouched(s, p) /\ p.reg = Unmatched(s, e)
      /\ p.keep = s.keep /\ p.fresh \subseteq s.fresh /\ p.caps = s.caps
      /\ p.host = s.host /\ p.text = s.text /\ p.cut = s.cut /\ p.typed = s.typed
  BY <1>1, UnregisterFacts
<1> HIDE DEF p
<1>3. TextShown(p, mods, n)
  BY <1>2, TextFacts DEF Untouched, p
<1>4. /\ Untouched(p, n)
      /\ n.reg = p.reg /\ n.keep = p.keep /\ n.fresh = p.fresh /\ n.caps = p.caps
      /\ n.text /\ n.text \in BOOLEAN /\ n.cut = FALSE
      /\ HasFields(n.host, {"mods", "codes"}) /\ n.host.codes = Codes(p)
      /\ n.typed = p.typed \/ n.typed.mods = {}
  BY <1>3 DEF TextShown
<1>5. Untouched(s, n)
  BY <1>2, <1>4 DEF Untouched
<1>6. n.reg = Unmatched(s, e) /\ n.reg \subseteq s.reg
  BY <1>2, <1>4 DEF Unmatched
<1>7. ForkTypes(n)
  <2>1. \A r \in n.reg : HasFields(r, {"src", "code", "mods"})
    BY <1>6 DEF ForkParts, ForkTypes
  <2>2. HasFields(n.caps, {"on", "late", "shift"}) /\ n.text \in BOOLEAN /\ n.cut \in BOOLEAN
    BY <1>2, <1>4 DEF ForkParts, ForkTypes
  <2> QED
    BY <1>5, <2>1, <2>2, UntouchedTypes DEF ForkParts
<1>8. ForksOfKeys(n, G) /\ KeysOfKeys(n, G)
  BY <1>5, <1>6, UntouchedForks, UnmatchedKeys DEF ForkParts
<1>9. CodesShown(n) /\ NothingShown(n)
  BY <1>4 DEF CodesShown, Codes, Keycodes, NothingShown
<1>10. CapsRight(n)
  BY <1>2, <1>4 DEF CapsRight, ForkParts
<1>11. FreshRight(n)
  BY <1>2, <1>4, <1>5, UntouchedFresh DEF ForkParts
<1> QED
  BY <1>4, <1>5, <1>6, <1>7, <1>8, <1>9, <1>10, <1>11 DEF ForkParts

\* A report at a press without a new key.
LEMMA PressSent ==
    ASSUME NEW s, NEW G, NEW n, n = Sent(s, TRUE), ForkParts(s, G), s.reg # {}
    PROVE  AllShown(s, n, G) /\ n.reg = s.reg
<1> DEFINE mods == ResolveModifiers(s, TRUE)
<1>1. HasFields(s, ForkFields)
  BY DEF ForkParts, ForkTypes
<1>2. ReportedAs(s, mods, n)
  <2>1. n = Shown(s, mods, FALSE)
    BY DEF Sent
  <2> HIDE DEF mods
  <2> QED
    BY <1>1, <2>1, ReportFacts
<1>3. Codes(s) \subseteq s.host.codes
  BY DEF ForkParts, CodesShown
<1> HIDE DEF mods
<1>4. /\ Untouched(s, n)
      /\ n.reg = s.reg /\ n.keep = s.keep /\ n.fresh = s.fresh /\ n.caps = s.caps
      /\ n.text = FALSE /\ n.cut = FALSE
      /\ HasFields(n.host, {"mods", "codes"})
      /\ n.host.mods = mods /\ n.host.codes = Codes(s)
      /\ n.typed = s.typed
  BY <1>2, <1>3 DEF ReportedAs
<1>5. ForkTypes(n)
  <2>1. \A r \in n.reg : HasFields(r, {"src", "code", "mods"})
    BY <1>4 DEF ForkParts, ForkTypes
  <2>2. HasFields(n.caps, {"on", "late", "shift"}) /\ n.text \in BOOLEAN /\ n.cut \in BOOLEAN
    BY <1>4 DEF ForkParts, ForkTypes
  <2> QED
    BY <1>4, <2>1, <2>2, UntouchedTypes DEF ForkParts
<1>6. ForksOfKeys(n, G) /\ KeysOfKeys(n, G)
  BY <1>4, UntouchedForks, UnmatchedKeys DEF ForkParts
<1>7. CodesShown(n) /\ NothingShown(n)
  BY <1>4 DEF CodesShown, Codes, Keycodes, NothingShown
<1>8. CapsRight(n)
  BY <1>4 DEF CapsRight, ForkParts
<1>9. FreshRight(n)
  BY <1>4, UntouchedFresh DEF ForkParts
<1>10. ModifiersShown(n)
  <2>1. ResolveModifiers(n, FALSE) = ResolveModifiers(s, FALSE)
    BY <1>4, SameResolved DEF Untouched
  <2>2. /\ ResolveModifiers(s, FALSE) \subseteq mods
        /\ mods \ ResolveModifiers(s, FALSE) \subseteq {Shift}
    BY DEF ResolveModifiers, mods
  <2> QED
    BY <1>4, <2>1, <2>2 DEF ModifiersShown
<1> QED
  BY <1>4, <1>5, <1>6, <1>7, <1>8, <1>9, <1>10 DEF ForkParts, AllShown

\* Neither the registered keys nor the forks nor the host change.
OnTheSide(s, n) ==
    /\ n.board = s.board /\ n.down = s.down /\ n.active = s.active
    /\ n.reg = s.reg /\ n.keep = s.keep /\ n.fresh = s.fresh
    /\ n.host = s.host /\ n.text = s.text /\ n.typed = s.typed

LEMMA SideParts ==
    ASSUME NEW s, NEW n, NEW G, OnTheSide(s, n), ForkTypes(n), ForkParts(s, G)
    PROVE  /\ ForkParts(n, G)
           /\ ModifiersShown(s) => ModifiersShown(n)
<1>1. ActiveForks(n) = ActiveForks(s) /\ \A k : InPlace(n, k) = InPlace(s, k)
  BY SameForks DEF OnTheSide
<1>2. ForksOfKeys(n, G) /\ KeysOfKeys(n, G)
  BY <1>1 DEF ForksOfKeys, KeysOfKeys, OnTheSide, ForkParts
<1>3. CodesShown(n) /\ NothingShown(n) /\ CapsRight(n)
  BY DEF OnTheSide, ForkParts, CodesShown, Codes, Keycodes, NothingShown, CapsRight
<1>4. FreshRight(n)
  BY <1>1 DEF OnTheSide, ForkParts, FreshRight, Suppressed
<1>5. ModifiersShown(s) => ModifiersShown(n)
  BY SameResolved DEF OnTheSide, ModifiersShown
<1> QED
  BY <1>2, <1>3, <1>4, <1>5 DEF ForkParts

-----------------------------------------------------------------------------
(* Forks: forks that are on.                                             *)

\* Forks are numbered.
LEMMA ForkNumbers ==
    ASSUME NEW b \in ForkBoards
    PROVE  DOMAIN b.forks \subseteq Nat \ {0}
BY ForkBoardsAreWhole

\* The first active fork of a key is its only one.
LEMMA ReplacementOf ==
    ASSUME NEW s, NEW G, ForkTypes(s), ForksOfKeys(s, G), NEW a, NEW i \in ActiveForks(s)
    PROVE  Replacement(s, s.active[i].src, a) = s.active[i].a
<1> DEFINE I == {j \in ActiveForks(s) : s.active[j].src = s.active[i].src}
<1>1. I = {i}
  BY DEF ForksOfKeys
<1>2. i \in Nat
  BY ForkNumbers DEF ForkTypes, ActiveForks
<1>3. Min(I) \in I
  BY <1>1, <1>2, LeastChunk
<1>4. Replacement(s, s.active[i].src, a) = s.active[Min(I)].a
  BY <1>1 DEF Replacement
<1> QED
  BY <1>1, <1>3, <1>4

LEMMA NotReplaced ==
    ASSUME NEW s, NEW k, NEW a, \A i \in ActiveForks(s) : s.active[i].src # k
    PROVE  Replacement(s, k, a) = a
BY DEF Replacement

\* What is in place of a key names a slot of the board.
LEMMA SlotsInPlace ==
    ASSUME NEW s, NEW G, ForkTypes(s), ForksOfKeys(s, G), NEW k \in DOMAIN s.board.keys
    PROVE  Slotted(s.board, InPlace(s, k))
<1>1. CASE \E i \in ActiveForks(s) : s.active[i].src = k
  <2>1. PICK i \in ActiveForks(s) : s.active[i].src = k
    BY <1>1
  <2>2. InPlace(s, k) = s.active[i].a
    BY <2>1, ReplacementOf DEF InPlace
  <2>3. s.active[i].on /\ IsActive(s.board, s.active[i])
    BY DEF ActiveForks, ForkTypes
  <2> QED
    BY <2>2, <2>3 DEF IsActive, Inactive
<1>2. CASE \A i \in ActiveForks(s) : s.active[i].src # k
  <2>1. InPlace(s, k) = s.board.keys[k]
    BY <1>2, NotReplaced DEF InPlace
  <2>2. s.board.keys[k] \in ActionsOf(s.board)
    BY DEF ActionsOf, Range
  <2> QED
    BY <2>1, <2>2, ForkBoardsAreWhole DEF ForkTypes, Slotted
<1> QED
  BY <1>1, <1>2

\* Everything but forks and their modifiers.
ForksChange(s, n) ==
    /\ HasFields(n, ForkFields)
    /\ n.board = s.board /\ n.layer = s.layer /\ n.bits = s.bits /\ n.down = s.down
    /\ n.reg = s.reg /\ n.caps = s.caps
    /\ n.macros = s.macros /\ n.queue = s.queue /\ n.char = s.char
    /\ n.text = s.text /\ n.cut = s.cut /\ n.lost = s.lost
    /\ n.host = s.host /\ n.typed = s.typed

\* Key k has no fork and registered nothing.
Untried(s, k) ==
    /\ \A i \in ActiveForks(s) : s.active[i].src # k
    /\ \A r \in s.reg : r.src # k

\* A fork that starts is the one of its key.
LEMMA StartedForks ==
    ASSUME NEW s, NEW G, NEW k, NEW c, NEW n, n = Started(s, k, c), ForkParts(s, G),
           k \in s.down, Untried(s, k), ChainIsRight(s, s.board.keys[k], c)
    PROVE  /\ ForkParts(n, G) /\ ForksChange(s, n)
           /\ InPlace(n, k) = c.a /\ \A j : j # k => InPlace(n, j) = InPlace(s, j)
           /\ n.keep = (IF c.first = 0 THEN s.keep ELSE c.keep)
           /\ Stock(n) = IF c.first = 0 THEN Stock(s) ELSE Stock(s) \union c.suppress
<1>1. CASE c.first = 0
  <2>1. n = s /\ c.a = s.board.keys[k]
    BY <1>1 DEF Started, ChainIsRight
  <2>2. ForksChange(s, n)
    BY <2>1 DEF ForksChange, ForkParts, ForkTypes
  <2>3. InPlace(n, k) = c.a
    BY <2>1, NotReplaced DEF InPlace, Untried
  <2> QED
    BY <1>1, <2>1, <2>2, <2>3
<1>2. CASE c.first # 0
  <2> DEFINE f == [on |-> TRUE, src |-> k, a |-> c.a, suppress |-> c.suppress]
             z == c.first
  <2>1. n = [s EXCEPT !.active[z] = f, !.keep = c.keep, !.fresh = {}]
    BY <1>2 DEF Started
  <2>2. HasFields(f, {"on", "src", "a", "suppress"}) /\ f.on /\ f.src = k /\ f.a = c.a
        /\ f.suppress = c.suppress
    BY DEF HasFields
  <2>3. z \in DOMAIN s.board.forks /\ ~ s.active[z].on /\ Slotted(s.board, c.a)
    BY <1>2 DEF ChainIsRight
  <2> HIDE DEF f, z
  <2>4. HasFields(s, ForkFields) /\ s.active = [i \in DOMAIN s.board.forks |-> s.active[i]]
    BY DEF ForkParts, ForkTypes
  <2>5. /\ ForksChange(s, n) /\ n.active = [s.active EXCEPT ![z] = f]
        /\ n.keep = c.keep /\ n.fresh = {}
    BY <2>1, <2>4, Zenon DEF ForksChange, HasFields, ForkFields
  <2>6. /\ n.active = [i \in DOMAIN n.board.forks |-> n.active[i]]
        /\ n.active[z] = f /\ \A i \in DOMAIN n.active : i # z => n.active[i] = s.active[i]
        /\ DOMAIN n.active = DOMAIN s.active /\ z \in DOMAIN n.active
    BY <2>3, <2>4, <2>5 DEF ForksChange
  <2>7. ActiveForks(n) = ActiveForks(s) \union {z}
    BY <2>2, <2>6 DEF ActiveForks
  <2>8. z \notin ActiveForks(s) /\ \A i \in ActiveForks(s) : i # z /\ n.active[i] = s.active[i]
    BY <2>3, <2>6 DEF ActiveForks
  <2>9. ForkTypes(n)
    <3>1. \A i \in DOMAIN n.active : IsActive(n.board, n.active[i])
      <4> SUFFICES ASSUME NEW i \in DOMAIN n.active PROVE IsActive(n.board, n.active[i])
        OBVIOUS
      <4>1. CASE i = z
        BY <2>2, <2>3, <2>5, <2>6, <4>1 DEF IsActive, ForksChange
      <4>2. CASE i # z
        BY <2>5, <2>6, <4>2 DEF ForksChange, ForkParts, ForkTypes
      <4> QED
        BY <4>1, <4>2
    <3> QED
      BY <2>5, <2>6, <3>1 DEF ForkParts, ForkTypes, ForksChange
  <2>10. ForksOfKeys(n, G)
    BY <2>2, <2>5, <2>6, <2>7, <2>8 DEF ForksOfKeys, ForksChange, ForkParts, Untried
  <2>11. InPlace(n, k) = c.a
    BY <2>2, <2>6, <2>7, <2>9, <2>10, ReplacementOf DEF InPlace
  <2>12. ASSUME NEW j, j # k PROVE InPlace(n, j) = InPlace(s, j)
    <3>1. CASE \E i \in ActiveForks(s) : s.active[i].src = j
      <4>1. PICK i \in ActiveForks(s) : s.active[i].src = j
        BY <3>1
      <4>2. InPlace(s, j) = s.active[i].a
        BY <4>1, ReplacementOf DEF InPlace, ForkParts
      <4>3. i \in ActiveForks(n) /\ n.active[i] = s.active[i]
        BY <2>7, <2>8
      <4>4. InPlace(n, j) = s.active[i].a
        BY <2>9, <2>10, <4>1, <4>3, ReplacementOf DEF InPlace
      <4> QED
        BY <4>2, <4>4
    <3>2. CASE \A i \in ActiveForks(s) : s.active[i].src # j
      <4>1. \A i \in ActiveForks(n) : n.active[i].src # j
        BY <2>2, <2>6, <2>7, <2>8, <2>12, <3>2
      <4> QED
        <5>1. Replacement(n, j, n.board.keys[j]) = n.board.keys[j]
          BY <4>1, NotReplaced
        <5>2. Replacement(s, j, s.board.keys[j]) = s.board.keys[j]
          BY <3>2, NotReplaced
        <5> QED
          BY <2>5, <5>1, <5>2 DEF InPlace, ForksChange
    <3> QED
      BY <3>1, <3>2
  <2>13. KeysOfKeys(n, G)
    BY <2>5, <2>12 DEF KeysOfKeys, ForksChange, ForkParts, Untried
  <2>14. CodesShown(n) /\ NothingShown(n) /\ CapsRight(n) /\ FreshRight(n)
    BY <2>5 DEF ForksChange, ForkParts, CodesShown, Codes, Keycodes, NothingShown, CapsRight,
                FreshRight
  <2>15. Stock(n) = Stock(s) \union c.suppress
    <3>1. n.active[z].suppress = c.suppress
      BY <2>2, <2>6
    <3>2. \A x : x \in Stock(n) <=> \E i \in ActiveForks(n) : x \in n.active[i].suppress
      BY DEF Stock
    <3>3. \A x : x \in Stock(s) <=> \E i \in ActiveForks(s) : x \in s.active[i].suppress
      BY DEF Stock
    <3> QED
      BY <2>7, <2>8, <3>1, <3>2, <3>3
  <2> QED
    BY <1>2, <2>5, <2>9, <2>10, <2>11, <2>12, <2>13, <2>14, <2>15 DEF ForkParts
<1> QED
  BY <1>1, <1>2

\* When a key is up, its fork is off.
LEMMA ForksEnded ==
    ASSUME NEW s, NEW k, ForkParts(s, {k}), k \notin s.down, \A r \in s.reg : r.src # k,
           NEW n, n = [s EXCEPT !.active =
                         [i \in DOMAIN @ |-> IF @[i].on /\ @[i].src = k THEN Inactive ELSE @[i]]]
    PROVE  /\ ForkParts(n, {}) /\ ForksChange(s, n)
           /\ \A j : j # k => InPlace(n, j) = InPlace(s, j)
           /\ n.keep = s.keep /\ n.fresh = s.fresh
<1> DEFINE A == [i \in DOMAIN s.active |->
                   IF s.active[i].on /\ s.active[i].src = k THEN Inactive ELSE s.active[i]]
<1>1. HasFields(s, ForkFields) /\ s.active = [i \in DOMAIN s.board.forks |-> s.active[i]]
  BY DEF ForkParts, ForkTypes
<1>2. n = [s EXCEPT !.active = A]
  BY <1>1 DEF HasFields, ForkFields
<1>3. /\ DOMAIN A = DOMAIN s.board.forks /\ A = [i \in DOMAIN s.board.forks |-> A[i]]
      /\ \A i \in DOMAIN A :
           A[i] = IF s.active[i].on /\ s.active[i].src = k THEN Inactive ELSE s.active[i]
  BY <1>1
<1> HIDE DEF A
<1>4. ForksChange(s, n) /\ n.active = A /\ n.keep = s.keep /\ n.fresh = s.fresh
  <2>1. HasFields(n, ForkFields) /\ n.active = A
    BY <1>1, <1>2, Zenon DEF HasFields, ForkFields
  <2> QED
    BY <1>1, <1>2, <2>1, ZenonT(40) DEF ForksChange, HasFields, ForkFields
<1>5. ~ Inactive.on
  BY DEF Inactive
<1>6. ActiveForks(n) = {i \in ActiveForks(s) : s.active[i].src # k}
  BY <1>1, <1>3, <1>4, <1>5 DEF ActiveForks
<1>7. \A i \in ActiveForks(n) : n.active[i] = s.active[i]
  <2> SUFFICES ASSUME NEW i \in ActiveForks(n) PROVE n.active[i] = s.active[i]
    OBVIOUS
  <2>1. i \in DOMAIN s.active /\ s.active[i].src # k
    BY <1>6 DEF ActiveForks
  <2>2. i \in DOMAIN A
    BY <1>1, <1>3, <2>1
  <2> QED
    BY <1>3, <1>4, <2>1, <2>2
<1>8. ForkTypes(n)
  <2>1. \A i \in DOMAIN n.active : IsActive(n.board, n.active[i])
    <3> SUFFICES ASSUME NEW i \in DOMAIN n.active PROVE IsActive(n.board, n.active[i])
      OBVIOUS
    <3>1. n.active[i] = Inactive \/ (i \in DOMAIN s.active /\ n.active[i] = s.active[i])
      BY <1>1, <1>3, <1>4
    <3> QED
      <4>1. ForkTypes(s) /\ n.board = s.board
        BY <1>4 DEF ForkParts, ForksChange
      <4>2. i \in DOMAIN s.active => IsActive(s.board, s.active[i])
        BY <4>1 DEF ForkTypes
      <4>3. CASE n.active[i] = Inactive
        BY <4>3 DEF IsActive
      <4>4. CASE i \in DOMAIN s.active /\ n.active[i] = s.active[i]
        BY <4>1, <4>2, <4>4
      <4> QED
        BY <3>1, <4>3, <4>4
  <2>2. n.active = [i \in DOMAIN n.board.forks |-> n.active[i]]
    BY <1>3, <1>4 DEF ForksChange
  <2> QED
    BY <1>4, <2>1, <2>2, Zenon DEF ForkParts, ForkTypes, ForksChange
<1>9. ForksOfKeys(n, {})
  BY <1>4, <1>6, <1>7 DEF ForksOfKeys, ForksChange, ForkParts
<1>10. ASSUME NEW j, j # k PROVE InPlace(n, j) = InPlace(s, j)
  <2>1. CASE \E i \in ActiveForks(s) : s.active[i].src = j
    <3>1. PICK i \in ActiveForks(s) : s.active[i].src = j
      BY <2>1
    <3>2. InPlace(s, j) = s.active[i].a
      BY <3>1, ReplacementOf DEF InPlace, ForkParts
    <3>3. i \in ActiveForks(n) /\ n.active[i] = s.active[i]
      BY <1>6, <1>7, <1>10, <3>1
    <3>4. InPlace(n, j) = s.active[i].a
      <4> DEFINE a == n.board.keys[j]
      <4>1. n.active[i].src = j /\ n.active[i].a = s.active[i].a
        BY <3>1, <3>3, Zenon
      <4>2. Replacement(n, n.active[i].src, a) = n.active[i].a
        BY <1>8, <1>9, <3>3, ReplacementOf
      <4> QED
        BY <4>1, <4>2 DEF InPlace
    <3> QED
      BY <3>2, <3>4
  <2>2. CASE \A i \in ActiveForks(s) : s.active[i].src # j
    <3>1. \A i \in ActiveForks(n) : n.active[i].src # j
      BY <1>6, <1>7, <2>2
    <3> QED
      <4>1. Replacement(n, j, n.board.keys[j]) = n.board.keys[j]
        BY <3>1, Zenon DEF Replacement
      <4>2. Replacement(s, j, s.board.keys[j]) = s.board.keys[j]
        BY <2>2, NotReplaced
      <4> QED
        BY <1>4, <4>1, <4>2 DEF InPlace, ForksChange
  <2> QED
    BY <2>1, <2>2
<1>11. KeysOfKeys(n, {})
  BY <1>4, <1>10 DEF KeysOfKeys, ForksChange, ForkParts
<1>12. CodesShown(n) /\ NothingShown(n) /\ CapsRight(n)
  BY <1>4 DEF ForksChange, ForkParts, CodesShown, Codes, Keycodes, NothingShown, CapsRight
<1>13. FreshRight(n)
  <2>1. \A x : x \in Stock(n) => x \in Stock(s)
    <3>1. \A x : x \in Stock(n) <=> \E i \in ActiveForks(n) : x \in n.active[i].suppress
      BY DEF Stock
    <3>2. \A x : x \in Stock(s) <=> \E i \in ActiveForks(s) : x \in s.active[i].suppress
      BY DEF Stock
    <3> QED
      BY <1>6, <1>7, <3>1, <3>2
  <2>2. Suppressed(n) = Stock(n) \ n.keep /\ Suppressed(s) = Stock(s) \ s.keep
    BY DEF Suppressed, Stock
  <2> QED
    BY <1>4, <2>1, <2>2 DEF FreshRight, ForkParts
<1> QED
  BY <1>4, <1>8, <1>9, <1>10, <1>11, <1>12, <1>13 DEF ForkParts

-----------------------------------------------------------------------------
(* Forks: the macro queue.                                               *)

\* The half that plays next: the first that has not run out.
FirstHalf(q, i) == i \in 1 .. Len(q) /\ q[i] # <<>> /\ \A j \in 1 .. Len(q) : q[j] # <<>> => i <= j

\* Macros::next_op looks for that half.
LEMMA UnplayedIs ==
    ASSUME NEW X, NEW q \in Seq(Seq(X))
    PROVE  /\ \A i : FirstHalf(q, i) => Unplayed(q) = SubSeq(q, i, Len(q))
           /\ (\A i : ~ FirstHalf(q, i)) => Unplayed(q) = <<>> /\ \A j \in 1 .. Len(q) : q[j] = <<>>
<1> DEFINE I == {i \in 1 .. Len(q) : q[i] # <<>>}
           at == SelectInSeq(q, LAMBDA half : half # <<>>)
<1>1. at = IF I # {} THEN Min(I) ELSE 0
  BY DEF SelectInSeq
<1>2. Unplayed(q) = IF at = 0 THEN <<>> ELSE SubSeq(q, at, Len(q))
  BY DEF Unplayed
<1> HIDE DEF at
<1>3. I \subseteq Nat
  OBVIOUS
<1>4. CASE I = {}
  BY <1>1, <1>2, <1>4 DEF FirstHalf
<1>5. CASE I # {}
  <2>1. Min(I) \in I /\ \A j \in I : Min(I) <= j
    BY <1>3, <1>5, LeastChunk
  <2>2. FirstHalf(q, Min(I))
    BY <2>1 DEF FirstHalf
  <2>3. \A i : FirstHalf(q, i) => i = Min(I)
    <3> SUFFICES ASSUME NEW i, FirstHalf(q, i) PROVE i = Min(I)
      OBVIOUS
    <3>1. i \in I /\ Min(I) \in I /\ i <= Min(I) /\ Min(I) <= i
      BY <2>1 DEF FirstHalf
    <3> QED
      BY <1>3, <3>1
  <2> HIDE DEF I
  <2>4. Min(I) # 0
    BY <2>2 DEF FirstHalf
  <2>5. at = Min(I)
    BY <1>1, <1>5
  <2> QED
    BY <1>2, <2>2, <2>3, <2>4, <2>5
<1> QED
  BY <1>4, <1>5

LEMMA UnplayedFirst ==
    ASSUME NEW X, NEW q \in Seq(Seq(X)), NEW i, FirstHalf(q, i)
    PROVE  /\ Unplayed(q) \in Seq(Seq(X)) /\ Unplayed(q) # <<>>
           /\ Len(Unplayed(q)) = Len(q) - i + 1
           /\ \A j \in 1 .. Len(q) - i + 1 : Unplayed(q)[j] = q[i + j - 1]
           /\ Head(Unplayed(q)) = q[i] /\ Head(Head(Unplayed(q))) = q[i][1]
           /\ q[i] \in Seq(X) /\ 1 \in 1 .. Len(q[i]) /\ q[i][1] \in X
<1> DEFINE u == Unplayed(q)
<1>1. u = SubSeq(q, i, Len(q))
  BY UnplayedIs
<1>2. i \in 1 .. Len(q) /\ Len(q) \in Nat /\ q[i] # <<>>
  BY DEF FirstHalf
<1>3. \A j \in i .. Len(q) : q[j] \in Seq(X)
  BY <1>2
<1> HIDE DEF u
<1>4. /\ u \in Seq(Seq(X)) /\ Len(u) = Len(q) - i + 1
      /\ \A j \in 1 .. Len(q) - i + 1 : u[j] = q[i + j - 1]
  <2>1. /\ SubSeq(q, i, Len(q)) \in Seq(Seq(X))
        /\ Len(SubSeq(q, i, Len(q))) = IF i <= Len(q) THEN Len(q) - i + 1 ELSE 0
        /\ \A j \in 1 .. Len(q) - i + 1 : SubSeq(q, i, Len(q))[j] = q[i + j - 1]
    BY <1>2, <1>3, SubSeqProperties
  <2> QED
    BY <1>1, <1>2, <2>1
<1>5. u # <<>> /\ Head(u) = u[1] /\ u[1] = q[i]
  BY <1>2, <1>4
<1>6. q[i] \in Seq(X) /\ Len(q[i]) \in Nat \ {0}
  BY <1>2, <1>3, EmptySeq
<1>7. Head(q[i]) = q[i][1] /\ 1 \in 1 .. Len(q[i]) /\ q[i][1] \in X
  BY <1>6
<1> QED
  BY <1>4, <1>5, <1>6, <1>7 DEF u

\* Macros::peek_op.
LEMMA IsCharIs ==
    ASSUME NEW X, NEW q \in Seq(Seq(X))
    PROVE  IsChar(q) <=> \E i : FirstHalf(q, i) /\ q[i][1].op = "char"
<1>1. CASE \E i : FirstHalf(q, i)
  <2>1. PICK i : FirstHalf(q, i)
    BY <1>1
  <2>2. \A j : FirstHalf(q, j) => j = i
    <3> SUFFICES ASSUME NEW j, FirstHalf(q, j) PROVE j = i
      OBVIOUS
    <3>1. i \in 1 .. Len(q) /\ j \in 1 .. Len(q) /\ i <= j /\ j <= i
      BY <2>1 DEF FirstHalf
    <3> QED
      BY <3>1
  <2>3. Unplayed(q) # <<>> /\ Head(Head(Unplayed(q))) = q[i][1]
    BY <2>1, UnplayedFirst
  <2> QED
    BY <2>1, <2>2, <2>3 DEF IsChar
<1>2. CASE \A i : ~ FirstHalf(q, i)
  BY <1>2, UnplayedIs DEF IsChar
<1> QED
  BY <1>1, <1>2

\* The queue behind the op that plays.
LEMMA PoppedIs ==
    ASSUME NEW X, NEW q \in Seq(Seq(X)), NEW i, FirstHalf(q, i), NEW n, n = Popped(Unplayed(q))
    PROVE  /\ n \in Seq(Seq(X)) /\ Len(n) = Len(q) - i + 1
           /\ Len(n[1]) = Len(q[i]) - 1 /\ \A p \in 1 .. Len(q[i]) - 1 : n[1][p] = q[i][p + 1]
           /\ \A j \in 2 .. Len(q) - i + 1 : n[j] = q[i + j - 1]
<1> DEFINE u == Unplayed(q)
           h == Tail(q[i])
<1>1. /\ u \in Seq(Seq(X)) /\ u # <<>> /\ Len(u) = Len(q) - i + 1
      /\ \A j \in 1 .. Len(q) - i + 1 : u[j] = q[i + j - 1]
      /\ Head(u) = q[i] /\ q[i] \in Seq(X) /\ 1 \in 1 .. Len(q[i])
  BY UnplayedFirst
<1>2. n = <<h>> \o Tail(u)
  BY <1>1 DEF Popped
<1>3. i \in 1 .. Len(q) /\ Len(q) \in Nat
  BY DEF FirstHalf
<1>4. q[i] # <<>>
  BY DEF FirstHalf
<1> HIDE DEF u
<1>5. /\ h \in Seq(X) /\ Len(h) = Len(q[i]) - 1
      /\ \A p \in 1 .. Len(q[i]) - 1 : h[p] = q[i][p + 1]
  BY <1>1, <1>4, HeadTailProperties
<1>6. /\ Tail(u) \in Seq(Seq(X)) /\ Len(Tail(u)) = Len(q) - i
      /\ \A j \in 1 .. Len(q) - i : Tail(u)[j] = u[j + 1]
  <2>1. /\ Tail(u) \in Seq(Seq(X)) /\ Len(Tail(u)) = Len(u) - 1
        /\ \A j \in 1 .. Len(Tail(u)) : Tail(u)[j] = u[j + 1]
    BY <1>1, HeadTailProperties
  <2> QED
    BY <1>1, <1>3, <2>1
<1> HIDE DEF h
<1>7. <<h>> \in Seq(Seq(X)) /\ Len(<<h>>) = 1 /\ <<h>>[1] = h
  BY <1>5
<1>8. /\ n \in Seq(Seq(X)) /\ Len(n) = 1 + (Len(q) - i)
      /\ \A j \in 1 .. 1 + (Len(q) - i) : n[j] = IF j <= 1 THEN <<h>>[j] ELSE Tail(u)[j - 1]
  <2> DEFINE t == Tail(u)
             f == <<h>>
  <2>1. f \in Seq(Seq(X)) /\ t \in Seq(Seq(X)) /\ Len(f) = 1 /\ Len(t) = Len(q) - i /\ n = f \o t
    BY <1>2, <1>6, <1>7
  <2> HIDE DEF f, t
  <2>2. /\ f \o t \in Seq(Seq(X)) /\ Len(f \o t) = Len(f) + Len(t)
        /\ \A j \in 1 .. Len(f) + Len(t) : (f \o t)[j] = IF j <= Len(f) THEN f[j] ELSE t[j - Len(f)]
    BY <2>1, ConcatProperties
  <2>3. /\ n \in Seq(Seq(X)) /\ Len(n) = 1 + (Len(q) - i)
        /\ \A j \in 1 .. 1 + (Len(q) - i) : n[j] = IF j <= 1 THEN f[j] ELSE t[j - 1]
    BY <2>1, <2>2
  <2> QED
    BY <2>3 DEF f, t
<1>9. n[1] = h
  <2>1. 1 \in 1 .. 1 + (Len(q) - i) /\ 1 <= 1
    BY <1>3
  <2> DEFINE f == <<h>>
  <2>2. n[1] = f[1]
    BY <1>8, <2>1
  <2>3. f[1] = h
    BY <1>7
  <2> QED
    BY <2>2, <2>3
<1>10. ASSUME NEW j \in 2 .. Len(q) - i + 1 PROVE n[j] = q[i + j - 1]
  <2>1. j \in 1 .. 1 + (Len(q) - i) /\ ~ (j <= 1) /\ j - 1 \in 1 .. Len(q) - i /\ (j - 1) + 1 = j
    BY <1>3
  <2>2. n[j] = u[j]
    BY <1>6, <1>8, <2>1
  <2>3. u[j] = q[i + j - 1]
    BY <1>1, <1>3
  <2> QED
    BY <2>2, <2>3
<1> QED
  BY <1>3, <1>5, <1>8, <1>9, <1>10

\* A half at the end of the queue changes nothing about the op that plays next.
LEMMA StillChar ==
    ASSUME NEW X, NEW q \in Seq(Seq(X)), NEW h \in Seq(X), IsChar(q)
    PROVE  IsChar(Append(q, h))
<1> DEFINE a == Append(q, h)
<1>1. PICK i : FirstHalf(q, i) /\ q[i][1].op = "char"
  BY IsCharIs
<1>2. /\ a \in Seq(Seq(X)) /\ Len(a) = Len(q) + 1
      /\ \A j \in 1 .. Len(q) : a[j] = q[j]
  BY AppendProperties
<1>3. Len(q) \in Nat
  OBVIOUS
<1> HIDE DEF a
<1>4. FirstHalf(a, i) /\ a[i] = q[i]
  <2>1. i \in 1 .. Len(q) /\ q[i] # <<>> /\ \A j \in 1 .. Len(q) : q[j] # <<>> => i <= j
    BY <1>1 DEF FirstHalf
  <2>2. a[i] = q[i] /\ i \in 1 .. Len(a)
    BY <1>2, <1>3, <2>1
  <2>3. ASSUME NEW j \in 1 .. Len(a), a[j] # <<>> PROVE i <= j
    <3>1. CASE j \in 1 .. Len(q)
      BY <1>2, <2>1, <2>3, <3>1
    <3>2. CASE j \notin 1 .. Len(q)
      BY <1>2, <1>3, <2>1, <3>2
    <3> QED
      BY <3>1, <3>2
  <2> QED
    BY <2>1, <2>2, <2>3 DEF FirstHalf
<1>5. IsChar(a)
  BY <1>1, <1>2, <1>4, IsCharIs
<1> QED
  BY <1>5 DEF a

-----------------------------------------------------------------------------
(* Forks: the halves of a macro.                                         *)

\* The place of the pause of a macro, 0 when it has none.
PauseOf(m) == SelectInSeq(m, LAMBDA o : o = Pause)

LEMMA PauseIs ==
    ASSUME NEW X, NEW m \in Seq(X)
    PROVE  PauseOf(m) \in 0 .. Len(m)
<1> DEFINE I == {i \in 1 .. Len(m) : m[i] = Pause}
<1>1. PauseOf(m) = IF I # {} THEN Min(I) ELSE 0
  BY DEF SelectInSeq, PauseOf
<1>2. I # {} => Min(I) \in I
  BY LeastChunk
<1>3. Len(m) \in Nat
  OBVIOUS
<1> QED
  BY <1>1, <1>2, <1>3

\* The two halves of a macro, by its pause.
LEMMA HalvesAre ==
    ASSUME NEW m
    PROVE  /\ Half(m, TRUE) = IF PauseOf(m) = 0 THEN m ELSE SubSeq(m, 1, PauseOf(m) - 1)
           /\ Half(m, FALSE) = IF PauseOf(m) # 0 /\ PauseOf(m) < Len(m)
                               THEN <<Delay>> \o SubSeq(m, PauseOf(m) + 1, Len(m)) ELSE <<>>
BY DEF Half, PauseOf

\* The first half has the ops before the pause.
LEMMA FirstHalfOps ==
    ASSUME NEW X, NEW m \in Seq(X)
    PROVE  LET h == Half(m, TRUE)
               n == IF PauseOf(m) = 0 THEN Len(m) ELSE PauseOf(m) - 1
           IN  h \in Seq(X) /\ Len(h) = n /\ \A p \in 1 .. n : h[p] = m[p]
<1> DEFINE at == PauseOf(m)
<1>1. at \in 0 .. Len(m) /\ Len(m) \in Nat
  BY PauseIs
<1>2. CASE at = 0
  BY <1>1, <1>2, HalvesAre
<1>3. CASE at # 0
  <2>1. Half(m, TRUE) = SubSeq(m, 1, at - 1)
    BY <1>3, HalvesAre
  <2> HIDE DEF at
  <2>2. \A i \in 1 .. at - 1 : m[i] \in X
    BY <1>1
  <2>3. /\ SubSeq(m, 1, at - 1) \in Seq(X)
        /\ Len(SubSeq(m, 1, at - 1)) = IF 1 <= at - 1 THEN at - 1 - 1 + 1 ELSE 0
        /\ \A i \in 1 .. at - 1 - 1 + 1 : SubSeq(m, 1, at - 1)[i] = m[1 + i - 1]
    BY <1>1, <2>2, SubSeqProperties
  <2> DEFINE h == SubSeq(m, 1, at - 1)
  <2> HIDE DEF h
  <2>4. at - 1 \in Nat /\ at - 1 - 1 + 1 = at - 1 /\ (~ (1 <= at - 1) => at - 1 = 0)
    BY <1>1, <1>3
  <2>5. h \in Seq(X) /\ Len(h) = at - 1
    BY <2>3, <2>4 DEF h
  <2>6. ASSUME NEW p \in 1 .. at - 1 PROVE h[p] = m[p]
    <3>1. p \in 1 .. at - 1 - 1 + 1 /\ 1 + p - 1 = p
      BY <1>1, <1>3
    <3> QED
      BY <2>3, <3>1 DEF h
  <2>7. /\ Half(m, TRUE) \in Seq(X) /\ Len(Half(m, TRUE)) = at - 1
        /\ \A p \in 1 .. at - 1 : Half(m, TRUE)[p] = m[p]
    BY <2>1, <2>5, <2>6 DEF h
  <2> QED
    BY <1>3, <2>7 DEF at
<1> QED
  BY <1>2, <1>3

\* The second half has a wait and the ops behind the pause.
LEMMA SecondHalfOps ==
    ASSUME NEW X, NEW m \in Seq(X), Delay \in X, PauseOf(m) # 0, PauseOf(m) < Len(m)
    PROVE  LET h == Half(m, FALSE)
               at == PauseOf(m)
           IN  /\ h \in Seq(X) /\ Len(h) = Len(m) - at + 1 /\ h[1] = Delay
               /\ \A p \in 2 .. Len(m) - at + 1 : h[p] = m[at + p - 1]
<1> DEFINE at == PauseOf(m)
           t == SubSeq(m, at + 1, Len(m))
           f == <<Delay>>
           h == Half(m, FALSE)
<1>1. at \in 1 .. Len(m) /\ Len(m) \in Nat /\ at < Len(m)
  BY PauseIs
<1>2. h = f \o t
  BY HalvesAre
<1> HIDE DEF at
<1>3. \A i \in at + 1 .. Len(m) : m[i] \in X
  BY <1>1
<1>4. /\ t \in Seq(X) /\ Len(t) = Len(m) - at
      /\ \A i \in 1 .. Len(m) - at : t[i] = m[at + i]
  <2>1. /\ SubSeq(m, at + 1, Len(m)) \in Seq(X)
        /\ Len(SubSeq(m, at + 1, Len(m))) = IF at + 1 <= Len(m) THEN Len(m) - (at + 1) + 1 ELSE 0
        /\ \A i \in 1 .. Len(m) - (at + 1) + 1 : SubSeq(m, at + 1, Len(m))[i] = m[at + 1 + i - 1]
    BY <1>1, <1>3, SubSeqProperties
  <2> QED
    BY <1>1, <2>1
<1>5. f \in Seq(X) /\ Len(f) = 1 /\ f[1] = Delay
  OBVIOUS
<1> HIDE DEF t, f, h
<1>6. /\ h \in Seq(X) /\ Len(h) = Len(f) + Len(t)
      /\ \A i \in 1 .. Len(f) + Len(t) : h[i] = IF i <= Len(f) THEN f[i] ELSE t[i - Len(f)]
  BY <1>2, <1>4, <1>5, ConcatProperties
<1>7. Len(h) = Len(m) - at + 1 /\ h[1] = Delay
  BY <1>1, <1>4, <1>5, <1>6
<1>8. ASSUME NEW p \in 2 .. Len(m) - at + 1 PROVE h[p] = m[at + p - 1]
  <2>1. p \in 1 .. Len(f) + Len(t) /\ ~ (p <= Len(f)) /\ p - Len(f) = p - 1
        /\ p - 1 \in 1 .. Len(m) - at /\ at + (p - 1) = at + p - 1
    BY <1>1, <1>4, <1>5
  <2> QED
    BY <1>4, <1>6, <2>1
<1> QED
  BY <1>6, <1>7, <1>8 DEF at, h

LEMMA HalvesType ==
    ASSUME NEW X, NEW m \in Seq(X), Delay \in X
    PROVE  Half(m, TRUE) \in Seq(X) /\ Half(m, FALSE) \in Seq(X)
<1>1. Half(m, TRUE) \in Seq(X)
  BY FirstHalfOps
<1>2. CASE PauseOf(m) # 0 /\ PauseOf(m) < Len(m)
  BY <1>1, <1>2, SecondHalfOps
<1>3. CASE ~ (PauseOf(m) # 0 /\ PauseOf(m) < Len(m))
  BY <1>1, <1>3, HalvesAre, EmptySeq
<1> QED
  BY <1>2, <1>3

-----------------------------------------------------------------------------
(* Forks: actions that are no keycodes.                                  *)

\* A half joins the queue, or is lost, or there is none.
Joined(s, n, h) ==
    \/ h = <<>> /\ n.queue = s.queue /\ n.lost = s.lost
    \/ n.lost /\ n.queue = s.queue
    \/ n.queue = Append(s.queue, h) /\ n.lost = s.lost

\* What an action does that is no keycode.
QueuesOnly(s, n, h) ==
    /\ ForkTypes(n) /\ OnTheSide(s, n)
    /\ n.macros = s.macros /\ n.char = s.char /\ n.cut = s.cut
    /\ Joined(s, n, h)

QueueIs(s, n, h) ==
    \/ h = <<>> /\ n = s
    \/ n = [s EXCEPT !.lost = TRUE]
    \/ n = [s EXCEPT !.queue = Append(s.queue, h)]

\* Macros::queue appends a half, or loses it.
LEMMA QueueFacts ==
    ASSUME NEW s, ForkTypes(s), NEW h \in Seq(OpsOf(s.board)), NEW n, QueueIs(s, n, h)
    PROVE  QueuesOnly(s, n, h)
<1>1. HasFields(s, ForkFields)
  BY DEF ForkTypes
<1>2. CASE h = <<>> /\ n = s
  BY <1>2 DEF QueuesOnly, OnTheSide, Joined
<1>3. CASE n = [s EXCEPT !.lost = TRUE]
  <2>1. /\ HasFields(n, ForkFields) /\ n.lost = TRUE /\ n.queue = s.queue
        /\ n.board = s.board /\ n.down = s.down /\ n.active = s.active
        /\ n.reg = s.reg /\ n.keep = s.keep /\ n.fresh = s.fresh
        /\ n.host = s.host /\ n.text = s.text /\ n.typed = s.typed
        /\ n.macros = s.macros /\ n.char = s.char /\ n.cut = s.cut /\ n.caps = s.caps
    BY <1>1, <1>3 DEF HasFields, ForkFields
  <2>2. ForkTypes(n)
    BY <2>1 DEF ForkTypes
  <2> QED
    BY <2>1, <2>2 DEF QueuesOnly, OnTheSide, Joined
<1>4. CASE n = [s EXCEPT !.queue = Append(s.queue, h)]
  <2> DEFINE q == Append(s.queue, h)
  <2>1. q \in Seq(Seq(OpsOf(s.board)))
    BY AppendProperties DEF ForkTypes
  <2> HIDE DEF q
  <2>2. n = [s EXCEPT !.queue = q]
    BY <1>4 DEF q
  <2>3. /\ HasFields(n, ForkFields) /\ n.lost = s.lost /\ n.queue = q
        /\ n.board = s.board /\ n.down = s.down /\ n.active = s.active
        /\ n.reg = s.reg /\ n.keep = s.keep /\ n.fresh = s.fresh
        /\ n.host = s.host /\ n.text = s.text /\ n.typed = s.typed
        /\ n.macros = s.macros /\ n.char = s.char /\ n.cut = s.cut /\ n.caps = s.caps
    BY <1>1, <2>2 DEF HasFields, ForkFields
  <2>4. ForkTypes(n)
    BY <2>1, <2>3 DEF ForkTypes
  <2> QED
    BY <2>3, <2>4 DEF QueuesOnly, OnTheSide, Joined, q
<1> QED
  BY <1>2, <1>3, <1>4 DEF QueueIs

\* The ops of a slot are ops of the board.
LEMMA SlotOps ==
    ASSUME NEW s, ForkTypes(s), NEW slot \in DOMAIN s.board.macros
    PROVE  /\ s.macros[slot] \in MacrosOf(s.board) /\ s.macros[slot] \in Seq(OpsOf(s.board))
           /\ Half(s.macros[slot], TRUE) \in Seq(OpsOf(s.board))
           /\ Half(s.macros[slot], FALSE) \in Seq(OpsOf(s.board))
<1>1. s.macros[slot] \in MacrosOf(s.board) /\ s.macros[slot] \in Seq(OpsOf(s.board))
  BY ForkBoardsAreWhole DEF ForkTypes
<1>2. Delay \in OpsOf(s.board)
  BY DEF OpsOf
<1> QED
  BY <1>1, <1>2, HalvesType

FirstHalfOf(s, a) == IF a.t = "macro" THEN Half(s.macros[a.slot], TRUE) ELSE <<>>
SecondHalfOf(s, a) == IF a.t = "macro" THEN Half(s.macros[a.slot], FALSE) ELSE <<>>

\* The press and the release of an action that is no keycode queue a half at most.
LEMMA OtherPressed ==
    ASSUME NEW s, ForkTypes(s), NEW src, NEW a, a.t # "key", Slotted(s.board, a),
           NEW n, n = NormalKey(s, src, a, TRUE)
    PROVE  QueuesOnly(s, n, FirstHalfOf(s, a))
<1> DEFINE h == FirstHalfOf(s, a)
<1>1. CASE a.t = "macro"
  <2>1. n = Queue(s, a.slot, TRUE)
    BY <1>1 DEF NormalKey
  <2>2. QueueIs(s, n, h)
    BY <1>1, <2>1 DEF Queue, QueueIs, FirstHalfOf
  <2>3. h \in Seq(OpsOf(s.board))
    BY <1>1, SlotOps DEF FirstHalfOf, Slotted
  <2> QED
    BY <2>2, <2>3, QueueFacts
<1>2. CASE a.t = "capsword"
  <2> DEFINE c == Toggled(s.caps)
  <2>1. HasFields(c, {"on", "late", "shift"})
    BY DEF Toggled, CapsOff, HasFields
  <2>2. n = [s EXCEPT !.caps = Toggled(@)]
    BY <1>2 DEF NormalKey
  <2> HIDE DEF c
  <2>3. n = [s EXCEPT !.caps = c]
    BY <2>2 DEF c, ForkTypes, HasFields, ForkFields
  <2>4. /\ HasFields(n, ForkFields) /\ n.lost = s.lost /\ n.queue = s.queue
        /\ n.board = s.board /\ n.down = s.down /\ n.active = s.active
        /\ n.reg = s.reg /\ n.keep = s.keep /\ n.fresh = s.fresh
        /\ n.host = s.host /\ n.text = s.text /\ n.typed = s.typed
        /\ n.macros = s.macros /\ n.char = s.char /\ n.cut = s.cut /\ n.caps = c
    BY <2>3 DEF HasFields, ForkFields, ForkTypes
  <2>5. ForkTypes(n)
    BY <2>1, <2>4 DEF ForkTypes
  <2>6. h = <<>>
    BY <1>2 DEF FirstHalfOf
  <2> QED
    BY <2>4, <2>5, <2>6 DEF QueuesOnly, OnTheSide, Joined
<1>3. CASE a.t # "macro" /\ a.t # "capsword"
  <2>1. n = s /\ h = <<>>
    BY <1>3 DEF NormalKey, FirstHalfOf
  <2> QED
    BY <2>1 DEF QueuesOnly, OnTheSide, Joined
<1> QED
  BY <1>1, <1>2, <1>3

LEMMA OtherReleased ==
    ASSUME NEW s, ForkTypes(s), NEW src, NEW a, a.t # "key", Slotted(s.board, a),
           NEW n, n = NormalKey(s, src, a, FALSE)
    PROVE  QueuesOnly(s, n, SecondHalfOf(s, a))
<1> DEFINE h == SecondHalfOf(s, a)
<1>1. CASE a.t = "macro"
  <2>1. n = Queue(s, a.slot, FALSE)
    BY <1>1 DEF NormalKey
  <2>2. QueueIs(s, n, h)
    BY <1>1, <2>1 DEF Queue, QueueIs, SecondHalfOf
  <2>3. h \in Seq(OpsOf(s.board))
    BY <1>1, SlotOps DEF SecondHalfOf, Slotted
  <2> QED
    BY <2>2, <2>3, QueueFacts
<1>2. CASE a.t # "macro"
  <2>1. n = s /\ h = <<>>
    BY <1>2 DEF NormalKey, SecondHalfOf
  <2> QED
    BY <2>1 DEF QueuesOnly, OnTheSide, Joined
<1> QED
  BY <1>1, <1>2

LEMMA QuietParts ==
    ASSUME NEW s, NEW G, ForkParts(s, G), NEW h \in Seq(OpsOf(s.board)), NEW n, QueuesOnly(s, n, h)
    PROVE  /\ ForkParts(n, G)
           /\ ModifiersShown(s) => ModifiersShown(n)
           /\ TextRight(s) => TextRight(n)
<1>1. ForkParts(n, G) /\ (ModifiersShown(s) => ModifiersShown(n))
  BY SideParts DEF QueuesOnly
<1>2. ASSUME TextRight(s) PROVE TextRight(n)
  <2>1. s.queue \in Seq(Seq(OpsOf(s.board)))
    BY DEF ForkParts, ForkTypes
  <2>2. IsChar(s.queue) => IsChar(n.queue)
    BY <2>1, StillChar DEF QueuesOnly, Joined
  <2> QED
    BY <1>2, <2>2 DEF QueuesOnly, OnTheSide, TextRight
<1> QED
  BY <1>1, <1>2

-----------------------------------------------------------------------------
(* Forks: what macros pressed has a release ahead.                       *)

\* Every key of a macro in n was one in s.
FewerMacroKeys(s, n) ==
    \A q \in n.reg : q.src = FromMacro =>
        \E r \in s.reg : r.src = FromMacro /\ r.code = q.code /\ (q.code = NoCode => q = r)

\* What releases a key releases every entry like it.
LEMMA SameKey ==
    ASSUME NEW q, NEW r, r.code = q.code, q.code = NoCode => q.mods = r.mods
    PROVE  /\ \A x : Same(q, x) <=> Same(r, x)
           /\ \A h, p : Releases(h, p, q) <=> Releases(h, p, r)
           /\ \A s, i : Coming(s, i, q) <=> Coming(s, i, r)
           /\ \A s, D : Promised(s, D, q) <=> Promised(s, D, r)
<1>1. \A x : Same(q, x) <=> Same(r, x)
  BY DEF Same
<1>2. \A h, p : Releases(h, p, q) <=> Releases(h, p, r)
  BY <1>1 DEF Releases
<1> QED
  BY <1>1, <1>2 DEF Coming, Promised

\* With less to release and no less ahead, it still comes.
LEMMA EndsKept ==
    ASSUME NEW s, NEW n, NEW D, NEW D2, D \subseteq D2, EndsAhead(s, D), FewerMacroKeys(s, n),
           n.macros = s.macros, n.queue = s.queue, n.char = s.char, n.lost = s.lost
    PROVE  EndsAhead(n, D2)
<1> SUFFICES ASSUME ~ n.lost PROVE MacroKeysEnd(n, D2) /\ PressesEnd(n, D2)
  BY DEF EndsAhead
<1>1. MacroKeysEnd(s, D) /\ PressesEnd(s, D)
  BY DEF EndsAhead
<1>2. \A a : Promised(s, D, a) => Promised(n, D2, a)
  BY DEF Promised
<1>3. \A i, a : Coming(s, i, a) <=> Coming(n, i, a)
  BY DEF Coming
<1>4. MacroKeysEnd(n, D2)
  <2> SUFFICES ASSUME NEW q \in n.reg, q.src = FromMacro
               PROVE  \/ Coming(n, 0, q) \/ Promised(n, D2, q)
                      \/ n.char # <<>> /\ Same(q, Coded(n.char[1].code, {}))
    BY DEF MacroKeysEnd
  <2>1. PICK r \in s.reg : r.src = FromMacro /\ r.code = q.code /\ (q.code = NoCode => q = r)
    BY DEF FewerMacroKeys
  <2>2. \/ Coming(s, 0, r) \/ Promised(s, D, r)
        \/ s.char # <<>> /\ Same(r, Coded(s.char[1].code, {}))
    BY <1>1, <2>1 DEF MacroKeysEnd
  <2>3. \/ Coming(s, 0, q) \/ Promised(s, D, q)
        \/ s.char # <<>> /\ Same(q, Coded(s.char[1].code, {}))
    BY <2>1, <2>2, SameKey
  <2> QED
    BY <1>2, <1>3, <2>3
<1>5. PressesEnd(n, D2)
  <2> SUFFICES ASSUME NEW i \in 1 .. Len(n.queue), NEW p \in 1 .. Len(n.queue[i]),
                      n.queue[i][p].op = "press"
               PROVE  /\ n.queue[i][p].a.t # "macro"
                      /\ n.queue[i][p].a.t = "key" =>
                           \/ Releases(n.queue[i], p, n.queue[i][p].a)
                           \/ Coming(n, i, n.queue[i][p].a) \/ Promised(n, D2, n.queue[i][p].a)
    BY DEF PressesEnd
  <2>1. /\ s.queue[i][p].a.t # "macro"
        /\ s.queue[i][p].a.t = "key" =>
             \/ Releases(s.queue[i], p, s.queue[i][p].a)
             \/ Coming(s, i, s.queue[i][p].a) \/ Promised(s, D, s.queue[i][p].a)
    BY <1>1 DEF PressesEnd
  <2> QED
    BY <1>2, <1>3, <2>1
<1> QED
  BY <1>4, <1>5

\* A half at the end of the queue.
LEMMA EndsAppended ==
    ASSUME NEW s, ForkTypes(s), NEW h \in Seq(OpsOf(s.board)), NEW n, QueuesOnly(s, n, h),
           NEW D, NEW D2, EndsAhead(s, D),
           \A a : Promised(s, D, a) => Promised(s, D2, a) \/ Releases(h, 0, a),
           \A p \in 1 .. Len(h) : h[p].op = "press" =>
                 /\ h[p].a.t # "macro"
                 /\ h[p].a.t = "key" => Releases(h, p, h[p].a) \/ Promised(s, D2, h[p].a)
    PROVE  EndsAhead(n, D2)
<1> SUFFICES ASSUME ~ n.lost PROVE MacroKeysEnd(n, D2) /\ PressesEnd(n, D2)
  BY DEF EndsAhead
<1>1. ~ s.lost
  BY DEF QueuesOnly, Joined
<1>2. /\ n.reg = s.reg /\ n.macros = s.macros /\ n.char = s.char
      /\ (h = <<>> /\ n.queue = s.queue) \/ n.queue = Append(s.queue, h)
      /\ n.lost = s.lost
  BY DEF QueuesOnly, OnTheSide, Joined
<1>3. MacroKeysEnd(s, D) /\ PressesEnd(s, D)
  BY <1>1 DEF EndsAhead
<1>4. \A a : Promised(s, D2, a) => Promised(n, D2, a)
  BY <1>2 DEF Promised
<1>5. s.queue \in Seq(Seq(OpsOf(s.board))) /\ Len(s.queue) \in Nat
  BY DEF ForkTypes
<1>6. CASE h = <<>> /\ n.queue = s.queue
  <2>1. \A a : ~ Releases(h, 0, a)
    BY <1>6 DEF Releases
  <2>2. \A a : Promised(s, D, a) => Promised(n, D2, a)
    BY <1>4, <2>1
  <2>3. \A i, a : Coming(s, i, a) <=> Coming(n, i, a)
    BY <1>6 DEF Coming
  <2>4. MacroKeysEnd(n, D2)
    BY <1>2, <1>3, <2>2, <2>3 DEF MacroKeysEnd
  <2>5. PressesEnd(n, D2)
    BY <1>3, <1>6, <2>2, <2>3 DEF PressesEnd
  <2> QED
    BY <2>4, <2>5
<1>7. CASE n.queue = Append(s.queue, h)
  <2> DEFINE q == s.queue
             L == Len(q)
  <2>1. /\ Len(n.queue) = L + 1 /\ n.queue[L + 1] = h
        /\ \A j \in 1 .. L : n.queue[j] = q[j]
    BY <1>5, <1>7, AppendProperties
  <2>2. \A a : \A i \in 0 .. L : Coming(s, i, a) => Coming(n, i, a)
    <3> SUFFICES ASSUME NEW i \in 0 .. L, NEW a, Coming(s, i, a) PROVE Coming(n, i, a)
      OBVIOUS
    <3>1. PICK j \in i + 1 .. L : Releases(q[j], 0, a)
      BY DEF Coming
    <3>2. j \in 1 .. L /\ j \in i + 1 .. L + 1
      BY <1>5, <3>1
    <3> QED
      BY <2>1, <3>1, <3>2 DEF Coming
  <2>3. \A a : \A i \in 0 .. L : Releases(h, 0, a) => Coming(n, i, a)
    <3> SUFFICES ASSUME NEW i \in 0 .. L, NEW a, Releases(h, 0, a) PROVE Coming(n, i, a)
      OBVIOUS
    <3>1. L + 1 \in i + 1 .. Len(n.queue)
      BY <1>5, <2>1
    <3> QED
      BY <2>1, <3>1 DEF Coming
  <2>4. \A a : \A i \in 0 .. L : Promised(s, D, a) => Promised(n, D2, a) \/ Coming(n, i, a)
    BY <1>4, <2>3
  <2>5. MacroKeysEnd(n, D2)
    <3>1. 0 \in 0 .. L
      BY <1>5
    <3> QED
      BY <1>2, <1>3, <2>2, <2>4, <3>1 DEF MacroKeysEnd
  <2>6. PressesEnd(n, D2)
    <3> SUFFICES ASSUME NEW i \in 1 .. Len(n.queue), NEW p \in 1 .. Len(n.queue[i]),
                        n.queue[i][p].op = "press"
                 PROVE  /\ n.queue[i][p].a.t # "macro"
                        /\ n.queue[i][p].a.t = "key" =>
                             \/ Releases(n.queue[i], p, n.queue[i][p].a)
                             \/ Coming(n, i, n.queue[i][p].a) \/ Promised(n, D2, n.queue[i][p].a)
      BY DEF PressesEnd
    <3>1. CASE i \in 1 .. L
      <4>1. n.queue[i] = q[i] /\ i \in 0 .. L
        BY <1>5, <2>1, <3>1
      <4>2. /\ q[i][p].a.t # "macro"
            /\ q[i][p].a.t = "key" =>
                 Releases(q[i], p, q[i][p].a) \/ Coming(s, i, q[i][p].a) \/ Promised(s, D, q[i][p].a)
        BY <1>3, <3>1, <4>1 DEF PressesEnd
      <4> QED
        BY <2>2, <2>4, <4>1, <4>2
    <3>2. CASE i = L + 1
      BY <1>4, <2>1, <3>2
    <3> QED
      BY <1>5, <2>1, <3>1, <3>2
  <2> QED
    BY <2>5, <2>6
<1> QED
  BY <1>2, <1>6, <1>7

\* The pause is where it was looked for.
LEMMA PauseIsThere ==
    ASSUME NEW X, NEW m \in Seq(X), PauseOf(m) # 0
    PROVE  m[PauseOf(m)] = Pause
<1> DEFINE I == {i \in 1 .. Len(m) : m[i] = Pause}
<1>1. PauseOf(m) = IF I # {} THEN Min(I) ELSE 0
  BY DEF SelectInSeq, PauseOf
<1>2. I # {} => Min(I) \in I
  BY LeastChunk
<1> QED
  BY <1>1, <1>2

\* A press in the first half has its release behind it or in the second half.
LEMMA FirstHalfEnds ==
    ASSUME NEW b \in ForkBoards, MacrosBalance, NEW m \in MacrosOf(b), m \in Seq(OpsOf(b)),
           NEW h, h = Half(m, TRUE), NEW p \in 1 .. Len(h), h[p].op = "press"
    PROVE  /\ h[p].a.t # "macro"
           /\ h[p].a.t = "key" => Releases(h, p, h[p].a) \/ Releases(Half(m, FALSE), 0, h[p].a)
<1> DEFINE at == PauseOf(m)
           n == IF at = 0 THEN Len(m) ELSE at - 1
<1>1. Len(h) = n /\ \A i \in 1 .. n : h[i] = m[i]
  BY FirstHalfOps
<1>2. at \in 0 .. Len(m) /\ Len(m) \in Nat
  BY PauseIs
<1> HIDE DEF at
<1>3. n \in 0 .. Len(m)
  BY <1>2
<1>4. (at = 0 => n = Len(m)) /\ (at # 0 => n = at - 1)
  OBVIOUS
<1> HIDE DEF n
<1>5. p \in 1 .. n
  BY <1>1, <1>3
<1>6. p \in 1 .. Len(m) /\ h[p] = m[p]
  <2>1. h[p] = m[p]
    BY <1>1, <1>5
  <2>2. p \in 1 .. Len(m)
    BY <1>2, <1>3, <1>5
  <2> QED
    BY <2>1, <2>2
<1>7. m[p].a.t # "macro" /\ (m[p].a.t = "key" => Releases(m, p, m[p].a))
  BY <1>6 DEF MacrosBalance
<1>8. ASSUME m[p].a.t = "key"
      PROVE  Releases(h, p, m[p].a) \/ Releases(Half(m, FALSE), 0, m[p].a)
  <2>1. PICK q \in p + 1 .. Len(m) : m[q].op = "release" /\ m[q].a.t = "key" /\ Same(m[p].a, m[q].a)
    BY <1>7, <1>8 DEF Releases
  <2>2. CASE q <= n
    <3>1. q \in p + 1 .. Len(h) /\ h[q] = m[q]
      <4>1. q \in 1 .. n
        BY <1>2, <1>6, <1>3, <2>1, <2>2
      <4>2. q \in p + 1 .. n
        BY <1>2, <1>6, <2>1, <4>1
      <4> QED
        BY <1>1, <4>1, <4>2
    <3> QED
      BY <2>1, <3>1 DEF Releases
  <2>3. CASE ~ (q <= n)
    <3>1. at # 0 /\ q >= at
      BY <1>2, <1>6, <1>3, <1>4, <2>1, <2>3
    <3>2. q # at
      <4>1. m[at] = Pause
        BY <3>1, PauseIsThere DEF at
      <4> QED
        BY <2>1, <4>1 DEF Pause
    <3>3. at < Len(m) /\ q - at + 1 \in 2 .. Len(m) - at + 1 /\ q - at + 1 \in 0 + 1 .. Len(m) - at + 1
          /\ at + (q - at + 1) - 1 = q
      BY <1>2, <1>6, <2>1, <3>1, <3>2
    <3> DEFINE g == Half(m, FALSE)
               z == q - at + 1
    <3>4. /\ Len(g) = Len(m) - at + 1
          /\ \A i \in 2 .. Len(m) - at + 1 : g[i] = m[at + i - 1]
      <4>1. Delay \in OpsOf(b)
        BY DEF OpsOf
      <4> QED
        BY <3>1, <3>3, <4>1, SecondHalfOps DEF at
    <3> HIDE DEF g
    <3>5. g[z] = m[q] /\ z \in 0 + 1 .. Len(g)
      BY <3>3, <3>4
    <3> HIDE DEF z
    <3>6. Releases(g, 0, m[p].a)
      BY <2>1, <3>5 DEF Releases
    <3> QED
      BY <3>6 DEF g
  <2> QED
    BY <2>2, <2>3
<1> QED
  BY <1>6, <1>7, <1>8

\* A press in the second half has its release behind it.
LEMMA SecondHalfEnds ==
    ASSUME NEW b \in ForkBoards, MacrosBalance, NEW m \in MacrosOf(b), m \in Seq(OpsOf(b)),
           NEW h, h = Half(m, FALSE), NEW p \in 1 .. Len(h), h[p].op = "press"
    PROVE  /\ h[p].a.t # "macro"
           /\ h[p].a.t = "key" => Releases(h, p, h[p].a)
<1> DEFINE at == PauseOf(m)
<1>1. at \in 0 .. Len(m) /\ Len(m) \in Nat
  BY PauseIs
<1>2. at # 0 /\ at < Len(m)
  <2> SUFFICES ASSUME ~ (at # 0 /\ at < Len(m)) PROVE FALSE
    OBVIOUS
  <2>1. h = <<>>
    BY HalvesAre
  <2>2. Len(<<>>) = 0
    OBVIOUS
  <2>3. 1 .. 0 = {}
    OBVIOUS
  <2>4. 1 .. Len(h) = {}
    BY <2>1, <2>2, <2>3
  <2> QED
    BY <2>4
<1>3. /\ Len(h) = Len(m) - at + 1 /\ h[1] = Delay
      /\ \A i \in 2 .. Len(m) - at + 1 : h[i] = m[at + i - 1]
  <2>1. Delay \in OpsOf(b)
    BY DEF OpsOf
  <2> QED
    BY <1>2, <2>1, SecondHalfOps
<1> HIDE DEF at
<1>4. p # 1
  <2>1. Delay.op = "delay"
    BY DEF Delay
  <2> QED
    BY <1>3, <2>1
<1> DEFINE z == at + p - 1
<1>5. z \in 1 .. Len(m) /\ h[p] = m[z]
  <2>1. p \in 1 .. Len(m) - at + 1
    BY <1>3
  <2>2. p \in 2 .. Len(m) - at + 1 /\ at + p - 1 \in 1 .. Len(m)
    BY <1>1, <1>2, <1>4, <2>1
  <2> QED
    BY <1>3, <2>2
<1>6. m[z].a.t # "macro" /\ (m[z].a.t = "key" => Releases(m, z, m[z].a))
  <2> HIDE DEF z
  <2> QED
    BY <1>5 DEF MacrosBalance
<1>7. ASSUME m[z].a.t = "key" PROVE Releases(h, p, m[z].a)
  <2>1. PICK q \in z + 1 .. Len(m) : m[q].op = "release" /\ m[q].a.t = "key" /\ Same(m[z].a, m[q].a)
    BY <1>6, <1>7 DEF Releases
  <2> DEFINE y == q - at + 1
  <2>2. y \in 2 .. Len(m) - at + 1 /\ at + y - 1 = q /\ y \in p + 1 .. Len(m) - at + 1
    <3>1. at \in Int /\ Len(m) \in Int /\ at < Len(m)
      BY <1>1, <1>2
    <3>2. p \in Int /\ p >= 1
      BY <1>1, <1>3
    <3>3. q \in Int /\ at + p <= q /\ q <= Len(m)
      BY <2>1, <3>1, <3>2
    <3> QED
      BY <3>1, <3>2, <3>3
  <2>3. h[y] = m[q]
    BY <1>3, <2>2
  <2> HIDE DEF y, z
  <2> QED
    BY <1>3, <2>1, <2>2, <2>3 DEF Releases
<1> QED
  BY <1>5, <1>6, <1>7

\* A press of a macro's key queues its first half, and owes the second.
LEMMA EndsAtPress ==
    ASSUME MacrosBalance, NEW s, ForkTypes(s), NEW a, Slotted(s.board, a),
           NEW n, QueuesOnly(s, n, FirstHalfOf(s, a)), NEW D, NEW D2, D \subseteq D2, EndsAhead(s, D),
           a.t = "macro" => a.slot \in D2
    PROVE  EndsAhead(n, D2)
<1> DEFINE h == FirstHalfOf(s, a)
<1>1. s.board \in ForkBoards
  BY DEF ForkTypes
<1>2. h \in Seq(OpsOf(s.board))
  BY SlotOps, EmptySeq DEF FirstHalfOf, Slotted
<1>3. \A x : Promised(s, D, x) => Promised(s, D2, x)
  BY DEF Promised
<1>4. ASSUME NEW p \in 1 .. Len(h), h[p].op = "press"
      PROVE  /\ h[p].a.t # "macro"
             /\ h[p].a.t = "key" => Releases(h, p, h[p].a) \/ Promised(s, D2, h[p].a)
  <2>1. CASE a.t = "macro"
    <3> DEFINE m == s.macros[a.slot]
    <3>1. m \in MacrosOf(s.board) /\ m \in Seq(OpsOf(s.board)) /\ h = Half(m, TRUE)
      BY <2>1, SlotOps DEF FirstHalfOf, Slotted
    <3>2. \A x : Releases(Half(m, FALSE), 0, x) => Promised(s, D2, x)
      BY <2>1 DEF Promised
    <3> HIDE DEF m, h
    <3> QED
      BY <1>1, <1>4, <3>1, <3>2, FirstHalfEnds
  <2>2. CASE a.t # "macro"
    BY <1>4, <2>2 DEF FirstHalfOf
  <2> QED
    BY <2>1, <2>2
<1> HIDE DEF h
<1> QED
  BY <1>2, <1>3, <1>4, EndsAppended DEF h

\* Its release queues the second half.
LEMMA EndsAtRelease ==
    ASSUME MacrosBalance, NEW s, ForkTypes(s), NEW a, Slotted(s.board, a),
           NEW n, QueuesOnly(s, n, SecondHalfOf(s, a)), NEW D, NEW D2, EndsAhead(s, D),
           \A slot \in D : slot \in D2 \/ (a.t = "macro" /\ slot = a.slot)
    PROVE  EndsAhead(n, D2)
<1> DEFINE h == SecondHalfOf(s, a)
<1>1. s.board \in ForkBoards
  BY DEF ForkTypes
<1>2. h \in Seq(OpsOf(s.board))
  BY SlotOps, EmptySeq DEF SecondHalfOf, Slotted
<1>3. ASSUME NEW x, Promised(s, D, x) PROVE Promised(s, D2, x) \/ Releases(h, 0, x)
  <2>1. PICK slot \in D : Releases(Half(s.macros[slot], FALSE), 0, x)
    BY <1>3 DEF Promised
  <2>2. CASE slot \in D2
    BY <2>1, <2>2 DEF Promised
  <2>3. CASE a.t = "macro" /\ slot = a.slot
    BY <2>1, <2>3 DEF SecondHalfOf
  <2> QED
    BY <2>2, <2>3
<1>4. ASSUME NEW p \in 1 .. Len(h), h[p].op = "press"
      PROVE  /\ h[p].a.t # "macro"
             /\ h[p].a.t = "key" => Releases(h, p, h[p].a)
  <2>1. CASE a.t = "macro"
    <3> DEFINE m == s.macros[a.slot]
    <3>1. m \in MacrosOf(s.board) /\ m \in Seq(OpsOf(s.board)) /\ h = Half(m, FALSE)
      BY <2>1, SlotOps DEF SecondHalfOf, Slotted
    <3> HIDE DEF m, h
    <3> QED
      BY <1>1, <1>4, <3>1, SecondHalfEnds
  <2>2. CASE a.t # "macro"
    BY <1>4, <2>2 DEF SecondHalfOf
  <2> QED
    BY <2>1, <2>2
<1> HIDE DEF h
<1> QED
  BY <1>2, <1>3, <1>4, EndsAppended DEF h

-----------------------------------------------------------------------------
(* Forks: the queue gets shorter.                                        *)

\* The queue u is what is left of q from half i on, whose first e ops played.
Left(q, i, e, u) ==
    /\ i \in 1 .. Len(q) /\ Len(q) \in Nat /\ Len(u) = Len(q) - i + 1
    /\ e \in {0, 1} /\ Len(q[i]) \in Nat
    /\ Len(u[1]) = Len(q[i]) - e /\ \A p \in 1 .. Len(q[i]) - e : u[1][p] = q[i][p + e]
    /\ \A j \in 2 .. Len(q) - i + 1 : u[j] = q[i + j - 1]
    /\ \A j \in 1 .. Len(q) : q[j] # <<>> => i <= j

\* The op that played released this.
JustReleased(o, a) == o.op = "release" /\ o.a.t = "key" /\ Same(a, o.a)

LEMMA NothingReleased ==
    ASSUME NEW p \in Nat, NEW a
    PROVE  ~ Releases(<<>>, p, a)
<1>1. Len(<<>>) = 0 /\ p + 1 .. 0 = {}
  OBVIOUS
<1> QED
  BY <1>1 DEF Releases

\* Releases that are behind the op that plays stay.
LEMMA LeftReleases ==
    ASSUME NEW q, NEW i, NEW e, NEW u, Left(q, i, e, u), NEW p \in Nat, NEW a, p + e <= Len(q[i])
    PROVE  Releases(q[i], p + e, a) => Releases(u[1], p, a)
<1> SUFFICES ASSUME Releases(q[i], p + e, a) PROVE Releases(u[1], p, a)
  OBVIOUS
<1>1. PICK z \in p + e + 1 .. Len(q[i]) : q[i][z].op = "release" /\ q[i][z].a.t = "key" /\ Same(a, q[i][z].a)
  BY DEF Releases
<1> DEFINE y == z - e
<1>2. y \in 1 .. Len(q[i]) - e /\ y + e = z /\ y \in p + 1 .. Len(q[i]) - e
  BY <1>1 DEF Left
<1>3. u[1][y] = q[i][z] /\ Len(u[1]) = Len(q[i]) - e
  BY <1>2 DEF Left
<1> HIDE DEF y
<1> QED
  BY <1>1, <1>2, <1>3 DEF Releases

LEMMA LeftComing ==
    ASSUME NEW s, NEW n, NEW i, NEW e, Left(s.queue, i, e, n.queue), NEW a
    PROVE  /\ Coming(s, 0, a) => Coming(n, 0, a) \/ (e = 1 /\ JustReleased(s.queue[i][1], a))
           /\ \A j \in i .. Len(s.queue) : Coming(s, j, a) => Coming(n, j - i + 1, a)
<1> DEFINE q == s.queue
           u == n.queue
<1>1. i \in 1 .. Len(q) /\ Len(q) \in Nat /\ Len(u) = Len(q) - i + 1
  BY DEF Left
<1>2. ASSUME NEW j \in i .. Len(q), Coming(s, j, a) PROVE Coming(n, j - i + 1, a)
  <2>1. PICK z \in j + 1 .. Len(q) : Releases(q[z], 0, a)
    BY <1>2 DEF Coming
  <2> DEFINE y == z - i + 1
  <2>2. y \in 2 .. Len(q) - i + 1 /\ i + y - 1 = z /\ y \in (j - i + 1) + 1 .. Len(u)
    BY <1>1, <2>1
  <2>3. u[y] = q[z]
    BY <2>2 DEF Left
  <2> HIDE DEF y
  <2> QED
    BY <2>1, <2>2, <2>3 DEF Coming
<1>3. ASSUME Coming(s, 0, a) PROVE Coming(n, 0, a) \/ (e = 1 /\ JustReleased(q[i][1], a))
  <2>1. PICK z \in 0 + 1 .. Len(q) : Releases(q[z], 0, a)
    BY <1>3 DEF Coming
  <2>2. q[z] # <<>>
    BY <2>1, NothingReleased
  <2>3. z \in 1 .. Len(q) /\ i <= z
    BY <1>1, <2>1, <2>2 DEF Left
  <2>4. CASE z = i
    <3>1. 1 \in 0 + 1 .. Len(u)
      BY <1>1
    <3>2. CASE e = 0
      <4>1. Releases(u[1], 0, a)
        <5>1. 0 + e <= Len(q[i]) /\ 0 + e = 0
          BY <3>2 DEF Left
        <5> QED
          BY <2>1, <2>4, <5>1, LeftReleases
      <4> QED
        BY <3>1, <4>1 DEF Coming
    <3>3. CASE e = 1
      <4>1. PICK x \in 0 + 1 .. Len(q[i]) : q[i][x].op = "release" /\ q[i][x].a.t = "key" /\ Same(a, q[i][x].a)
        BY <2>1, <2>4 DEF Releases
      <4>2. CASE x = 1
        BY <3>3, <4>1, <4>2 DEF JustReleased
      <4>3. CASE x # 1
        <5>1. Len(q[i]) \in Nat
          BY DEF Left
        <5>2. x \in 0 + e + 1 .. Len(q[i]) /\ 0 + e <= Len(q[i])
          BY <3>3, <4>1, <4>3, <5>1
        <5>3. Releases(q[i], 0 + e, a)
          BY <4>1, <5>2 DEF Releases
        <5>4. Releases(u[1], 0, a)
          BY <5>2, <5>3, LeftReleases
        <5> QED
          BY <3>1, <5>4 DEF Coming
      <4> QED
        BY <4>2, <4>3
    <3> QED
      BY <3>2, <3>3 DEF Left
  <2>5. CASE z # i
    <3> DEFINE y == z - i + 1
    <3>1. y \in 2 .. Len(q) - i + 1 /\ i + y - 1 = z /\ y \in 0 + 1 .. Len(u)
      BY <1>1, <2>3, <2>5
    <3>2. u[y] = q[z]
      BY <3>1 DEF Left
    <3> HIDE DEF y
    <3> QED
      BY <2>1, <3>1, <3>2 DEF Coming
  <2> QED
    BY <2>4, <2>5
<1> QED
  BY <1>2, <1>3

\* What the op that played pressed is released by what is left.
LEMMA LeftEnds ==
    ASSUME NEW s, NEW n, NEW i, Left(s.queue, i, 1, n.queue), NEW a, 1 <= Len(s.queue[i]),
           Releases(s.queue[i], 1, a) \/ Coming(s, i, a)
    PROVE  Coming(n, 0, a)
<1>1. i \in 1 .. Len(s.queue) /\ Len(s.queue) \in Nat /\ Len(n.queue) = Len(s.queue) - i + 1
  BY DEF Left
<1>2. CASE Releases(s.queue[i], 1, a)
  <2>1. Releases(n.queue[1], 0, a)
    <3>1. 0 + 1 <= Len(s.queue[i]) /\ 0 + 1 = 1 /\ 0 \in Nat
      OBVIOUS
    <3>2. Releases(s.queue[i], 0 + 1, a) => Releases(n.queue[1], 0, a)
      BY <3>1, LeftReleases
    <3> QED
      BY <1>2, <3>1, <3>2
  <2>2. 1 \in 0 + 1 .. Len(n.queue)
    BY <1>1
  <2> QED
    BY <2>1, <2>2 DEF Coming
<1>3. CASE Coming(s, i, a)
  <2>1. Coming(n, 1, a)
    <3>1. i \in i .. Len(s.queue) /\ i - i + 1 = 1
      BY <1>1
    <3>2. \A j \in i .. Len(s.queue) : Coming(s, j, a) => Coming(n, j - i + 1, a)
      BY LeftComing
    <3>3. Coming(n, i - i + 1, a)
      BY <1>3, <3>1, <3>2
    <3> QED
      BY <3>1, <3>3
  <2>2. 1 + 1 .. Len(n.queue) \subseteq 0 + 1 .. Len(n.queue)
    BY <1>1
  <2> QED
    BY <2>1, <2>2 DEF Coming
<1> QED
  BY <1>2, <1>3

LEMMA LeftPresses ==
    ASSUME NEW s, NEW n, NEW i, NEW e, Left(s.queue, i, e, n.queue), NEW D, PressesEnd(s, D),
           n.macros = s.macros
    PROVE  PressesEnd(n, D)
<1> DEFINE q == s.queue
           u == n.queue
<1>1. i \in 1 .. Len(q) /\ Len(q) \in Nat /\ Len(u) = Len(q) - i + 1 /\ e \in {0, 1}
  BY DEF Left
<1>2. \A a : Promised(s, D, a) <=> Promised(n, D, a)
  BY DEF Promised
<1> SUFFICES ASSUME NEW j \in 1 .. Len(u), NEW p \in 1 .. Len(u[j]), u[j][p].op = "press"
             PROVE  /\ u[j][p].a.t # "macro"
                    /\ u[j][p].a.t = "key" =>
                         Releases(u[j], p, u[j][p].a) \/ Coming(n, j, u[j][p].a) \/ Promised(n, D, u[j][p].a)
  BY DEF PressesEnd
<1> DEFINE z == i + j - 1
<1>3. z \in 1 .. Len(q) /\ z \in i .. Len(q) /\ z - i + 1 = j
  <2>1. j \in 1 .. Len(q) - i + 1
    BY <1>1
  <2> QED
    BY <1>1, <2>1
<1>4. ASSUME NEW a, Coming(s, z, a) PROVE Coming(n, j, a)
  <2>1. \A x \in i .. Len(q) : Coming(s, x, a) => Coming(n, x - i + 1, a)
    BY LeftComing
  <2> HIDE DEF z
  <2>2. Coming(n, z - i + 1, a)
    BY <1>3, <1>4, <2>1
  <2> QED
    BY <1>3, <2>2
<1>5. CASE j = 1
  <2>1. /\ Len(u[1]) = Len(q[i]) - e /\ Len(q[i]) \in Nat
        /\ \A x \in 1 .. Len(q[i]) - e : u[1][x] = q[i][x + e]
    BY DEF Left
  <2> DEFINE y == p + e
  <2>2. y \in 1 .. Len(q[i]) /\ u[j][p] = q[i][y] /\ y <= Len(q[i]) /\ p \in Nat /\ z = i
    BY <1>1, <1>5, <2>1
  <2>3. /\ q[i][y].a.t # "macro"
        /\ q[i][y].a.t = "key" =>
             Releases(q[i], y, q[i][y].a) \/ Coming(s, i, q[i][y].a) \/ Promised(s, D, q[i][y].a)
    <3> HIDE DEF y
    <3> QED
      BY <1>1, <2>2 DEF PressesEnd
  <2>4. \A a : Releases(q[i], y, a) => Releases(u[1], p, a)
    BY <2>2, LeftReleases
  <2> HIDE DEF y, z
  <2> QED
    BY <1>2, <1>4, <1>5, <2>2, <2>3, <2>4
<1>6. CASE j # 1
  <2>1. u[j] = q[z]
    <3>1. j \in 2 .. Len(q) - i + 1
      BY <1>1, <1>6
    <3> QED
      BY <3>1 DEF Left
  <2> HIDE DEF z
  <2>2. /\ q[z][p].a.t # "macro"
        /\ q[z][p].a.t = "key" =>
             Releases(q[z], p, q[z][p].a) \/ Coming(s, z, q[z][p].a) \/ Promised(s, D, q[z][p].a)
    BY <1>3, <2>1 DEF PressesEnd
  <2> QED
    BY <1>2, <1>4, <2>1, <2>2
<1> QED
  BY <1>5, <1>6

\* Taking the op that plays, and looking for it, leave that of the queue.
LEMMA PoppedIsLeft ==
    ASSUME NEW X, NEW q \in Seq(Seq(X)), NEW i, FirstHalf(q, i)
    PROVE  Left(q, i, 1, Popped(Unplayed(q))) /\ 1 <= Len(q[i])
<1>1. q[i] \in Seq(X) /\ 1 \in 1 .. Len(q[i])
  BY UnplayedFirst
<1>2. i \in 1 .. Len(q) /\ \A j \in 1 .. Len(q) : q[j] # <<>> => i <= j
  BY DEF FirstHalf
<1> DEFINE n == Popped(Unplayed(q))
<1>3. /\ n \in Seq(Seq(X)) /\ Len(n) = Len(q) - i + 1
      /\ Len(n[1]) = Len(q[i]) - 1 /\ \A p \in 1 .. Len(q[i]) - 1 : n[1][p] = q[i][p + 1]
      /\ \A j \in 2 .. Len(q) - i + 1 : n[j] = q[i + j - 1]
  BY PoppedIs
<1> HIDE DEF n
<1>4. Left(q, i, 1, n)
  BY <1>1, <1>2, <1>3 DEF Left
<1> QED
  BY <1>1, <1>4 DEF n

LEMMA UnplayedIsLeft ==
    ASSUME NEW X, NEW q \in Seq(Seq(X)), NEW i, FirstHalf(q, i)
    PROVE  Left(q, i, 0, Unplayed(q))
<1>1. q[i] \in Seq(X)
  BY UnplayedFirst
<1>2. i \in 1 .. Len(q) /\ \A j \in 1 .. Len(q) : q[j] # <<>> => i <= j
  BY DEF FirstHalf
<1> DEFINE n == Unplayed(q)
<1>3. /\ Len(n) = Len(q) - i + 1
      /\ \A j \in 1 .. Len(q) - i + 1 : n[j] = q[i + j - 1]
  BY UnplayedFirst
<1> HIDE DEF n
<1>4. n[1] = q[i]
  <2>1. 1 \in 1 .. Len(q) - i + 1 /\ i + 1 - 1 = i
    BY <1>2
  <2> QED
    BY <1>3, <2>1
<1>5. \A j \in 2 .. Len(q) - i + 1 : n[j] = q[i + j - 1]
  BY <1>3
<1>6. \A p \in 1 .. Len(q[i]) - 0 : n[1][p] = q[i][p + 0]
  BY <1>1, <1>4
<1>7. Len(n[1]) = Len(q[i]) - 0
  BY <1>1, <1>4
<1>8. Left(q, i, 0, n)
  BY <1>1, <1>2, <1>3, <1>5, <1>6, <1>7 DEF Left
<1> QED
  BY <1>8 DEF n

-----------------------------------------------------------------------------
(* Forks: a report has room.                                             *)

\* An injection into a finite set bounds the size.
LEMMA AtMostThere ==
    ASSUME NEW S, NEW T, IsFiniteSet(T), NEW f, f \in [S -> T], \A x, y \in S : f[x] = f[y] => x = y
    PROVE  /\ IsFiniteSet(S) /\ Cardinality(S) <= Cardinality(T)
           /\ Cardinality(S) \in Nat /\ Cardinality(T) \in Nat
<1>1. f \in Injection(S, T)
  BY DEF Injection, IsInjective
<1>2. IsFiniteSet(S) /\ Cardinality(S) <= Cardinality(T)
  BY <1>1, FS_Injection
<1> QED
  BY <1>2, FS_CardinalityType

\* An entry for e would not be there beside one that e refers to.
Expected(b, e) ==
    IF e.src = FromMacro THEN e.code \in MacroCodes(b) ELSE e.src \in CodeKeys(b)

\* With one entry for each key, the report has room for another.
LEMMA RoomThere ==
    ASSUME ReportsHaveRoom, NEW s, s.board \in ForkBoards, OneOfEach(s), NEW e, e.code # NoCode,
           Expected(s.board, e)
    PROVE  ~ (Cardinality({r \in Unmatched(s, e) : r.code # NoCode}) >= KeycodeSlots)
<1> DEFINE R == {r \in Unmatched(s, e) : r.code # NoCode}
           A == {r \in R : r.src # FromMacro}
           B == {r \in R : r.src = FromMacro}
           CK == CodeKeys(s.board)
           MC == MacroCodes(s.board)
           KT == IF e.src = FromMacro THEN CK ELSE CK \ {e.src}
           MT == IF e.src = FromMacro THEN MC \ {e.code} ELSE MC
           f == [r \in A |-> r.src]
           g == [r \in B |-> r.code]
<1>1. IsFiniteSet(CK) /\ IsFiniteSet(MC) /\ Cardinality(CK) + Cardinality(MC) <= KeycodeSlots
  BY DEF ReportsHaveRoom
<1>2. Cardinality(CK) \in Nat /\ Cardinality(MC) \in Nat
  BY <1>1, FS_CardinalityType
<1>3. /\ IsFiniteSet(KT) /\ IsFiniteSet(MT) /\ Cardinality(KT) + Cardinality(MT) < KeycodeSlots
      /\ Cardinality(KT) \in Nat /\ Cardinality(MT) \in Nat
  <2>1. CASE e.src = FromMacro
    <3>1. e.code \in MC /\ KT = CK /\ MT = MC \ {e.code}
      BY <2>1 DEF Expected
    <3> HIDE DEF CK, MC, KT, MT
    <3>2. IsFiniteSet(MT) /\ Cardinality(MT) = Cardinality(MC) - 1
      BY <1>1, <3>1, FS_RemoveElement
    <3>3. Cardinality(MT) \in Nat
      BY <3>2, FS_CardinalityType
    <3> QED
      BY <1>1, <1>2, <3>1, <3>2, <3>3, ForkSizes
  <2>2. CASE e.src # FromMacro
    <3>1. e.src \in CK /\ KT = CK \ {e.src} /\ MT = MC
      BY <2>2 DEF Expected
    <3> HIDE DEF CK, MC, KT, MT
    <3>2. IsFiniteSet(KT) /\ Cardinality(KT) = Cardinality(CK) - 1
      BY <1>1, <3>1, FS_RemoveElement
    <3>3. Cardinality(KT) \in Nat
      BY <3>2, FS_CardinalityType
    <3> QED
      BY <1>1, <1>2, <3>1, <3>2, <3>3, ForkSizes
  <2> QED
    BY <2>1, <2>2
<1>4. \A r \in R : r \in s.reg /\ ~ Matches(r, e) /\ r.code # NoCode
  BY DEF Unmatched
<1>5. f \in [A -> KT] /\ \A x, y \in A : f[x] = f[y] => x = y
  <2>1. ASSUME NEW r \in A PROVE r.src \in KT
    <3>1. r.src \in CK
      BY <1>4 DEF OneOfEach
    <3>2. r.src # e.src
      BY <1>4 DEF Matches
    <3> QED
      BY <3>1, <3>2
  <2>2. ASSUME NEW x \in A, NEW y \in A, x.src = y.src PROVE x = y
    BY <1>4, <2>2 DEF OneOfEach
  <2> HIDE DEF A, KT
  <2> QED
    BY <2>1, <2>2
<1>6. g \in [B -> MT] /\ \A x, y \in B : g[x] = g[y] => x = y
  <2>1. ASSUME NEW r \in B PROVE r.code \in MT
    <3>1. r.code \in MC
      BY <1>4 DEF OneOfEach
    <3>2. e.src = FromMacro => r.code # e.code
      BY <1>4 DEF Matches
    <3> QED
      BY <3>1, <3>2
  <2>2. ASSUME NEW x \in B, NEW y \in B, x.code = y.code PROVE x = y
    BY <1>4, <2>2 DEF OneOfEach
  <2> HIDE DEF B, MT
  <2> QED
    BY <2>1, <2>2
<1>7. R = A \union B
  OBVIOUS
<1> HIDE DEF f, g, KT, MT
<1>8. IsFiniteSet(A) /\ Cardinality(A) <= Cardinality(KT) /\ Cardinality(A) \in Nat
  <2> HIDE DEF A
  <2> QED
    BY <1>3, <1>5, AtMostThere
<1>9. IsFiniteSet(B) /\ Cardinality(B) <= Cardinality(MT) /\ Cardinality(B) \in Nat
  <2> HIDE DEF B
  <2> QED
    BY <1>3, <1>6, AtMostThere
<1> HIDE DEF A, B
<1>10. /\ Cardinality(A \union B) = Cardinality(A) + Cardinality(B) - Cardinality(A \intersect B)
       /\ Cardinality(A \intersect B) \in Nat
  <2>1. IsFiniteSet(A \intersect B)
    <3>1. A \intersect B \in SUBSET A
      OBVIOUS
    <3> QED
      BY <1>8, <3>1, FS_Subset
  <2> QED
    BY <1>8, <1>9, <2>1, FS_Union, FS_CardinalityType
<1>11. Cardinality(R) < KeycodeSlots
  <2> HIDE DEF R
  <2> QED
    BY <1>3, <1>7, <1>8, <1>9, <1>10, ForkSizes
<1> QED
  <2>1. Cardinality(R) \in Nat
    BY <1>7, <1>8, <1>9, FS_Union, FS_CardinalityType
  <2> HIDE DEF R
  <2>2. ~ (Cardinality(R) >= KeycodeSlots)
    BY <1>11, <2>1, ForkSizes
  <2> QED
    BY <2>2 DEF R

\* Where there is room the key is registered.
LEMMA RegisteredThere ==
    ASSUME NEW s, HasFields(s, ForkFields), NEW e, NEW n, n = RegisterKey(s, e),
           e.code = NoCode \/ ~ (Cardinality({r \in Unmatched(s, e) : r.code # NoCode}) >= KeycodeSlots)
    PROVE  n.reg = Unmodified(Unmatched(s, e)) \union {e}
<1> DEFINE R == Unmatched(s, e)
           m == [s EXCEPT !.reg = R]
           held == IF e.code = NoCode THEN e.mods ELSE {}
<1>1. m.reg = R
  BY DEF HasFields, ForkFields
<1>2. Keycodes(m) = {r \in R : r.code # NoCode}
  BY <1>1 DEF Keycodes
<1>3. n = IF e.code # NoCode /\ Cardinality({r \in R : r.code # NoCode}) >= KeycodeSlots THEN m
          ELSE [m EXCEPT !.reg = Unmodified(@) \union {e}, !.keep = @ \union held,
                         !.fresh = @ \union held]
  BY <1>2 DEF RegisterKey
<1> HIDE DEF held
<1> DEFINE U == Unmodified(R) \union {e}
<1>4. n = [m EXCEPT !.reg = Unmodified(@) \union {e}, !.keep = @ \union held,
                    !.fresh = @ \union held]
  BY <1>3
<1>5. HasFields(m, ForkFields)
  BY DEF HasFields, ForkFields
<1> HIDE DEF m, R
<1>6. n.reg = U
  BY <1>1, <1>4, <1>5 DEF HasFields, ForkFields
<1> QED
  BY <1>6 DEF R

\* What stays of a key that was registered, and what is new.
Joining(s, n, e) == n.reg = Unmodified(Unmatched(s, e)) \union {e}

\* An entry that is expected leaves one for each key.
LEMMA OneOfEachKept ==
    ASSUME NEW s, NEW n, NEW e, OneOfEach(s), n.board = s.board, Joining(s, n, e),
           \A r \in s.reg : HasFields(r, {"src", "code", "mods"}),
           e.code # NoCode => Expected(s.board, e)
    PROVE  OneOfEach(n)
<1> DEFINE Part(r) == IF r.code = NoCode THEN r ELSE [r EXCEPT !.mods = {}]
<1>1. \A q \in n.reg : q = e \/ \E r \in Unmatched(s, e) : q = Part(r)
  BY DEF Joining, Unmodified
<1>2. \A r \in Unmatched(s, e) : r \in s.reg /\ ~ Matches(r, e)
  BY DEF Unmatched
<1>3. \A r \in s.reg : Part(r).src = r.src /\ Part(r).code = r.code
  BY DEF HasFields
<1> HIDE DEF Part
<1> SUFFICES ASSUME NEW q \in n.reg, q.code # NoCode
             PROVE  /\ q.src # FromMacro => q.src \in CodeKeys(n.board)
                    /\ q.src = FromMacro => q.code \in MacroCodes(n.board)
                    /\ \A p \in n.reg : p.code # NoCode /\ p.src = q.src
                                           /\ (q.src = FromMacro => p.code = q.code) => p = q
  BY DEF OneOfEach
<1>4. (q.src # FromMacro => q.src \in CodeKeys(n.board))
      /\ (q.src = FromMacro => q.code \in MacroCodes(n.board))
  <2>1. CASE q = e
    BY <2>1 DEF Expected
  <2>2. CASE \E r \in Unmatched(s, e) : q = Part(r)
    BY <1>2, <1>3, <2>2 DEF OneOfEach
  <2> QED
    BY <1>1, <2>1, <2>2
<1>5. ASSUME NEW p \in n.reg, p.code # NoCode, p.src = q.src, q.src = FromMacro => p.code = q.code
      PROVE  p = q
  <2>1. CASE q = e /\ p = e
    BY <2>1
  <2>2. ASSUME NEW r \in Unmatched(s, e), NEW t \in Unmatched(s, e), q = Part(r), p = Part(t) PROVE p = q
    <3>1. r = t
      BY <1>2, <1>3, <1>5, <2>2 DEF OneOfEach
    <3> QED
      BY <2>2, <3>1
  <2>3. ASSUME NEW r \in Unmatched(s, e), q = e, p = Part(r) PROVE FALSE
    BY <1>2, <1>3, <1>5, <2>3 DEF Matches
  <2>4. ASSUME NEW r \in Unmatched(s, e), p = e, q = Part(r) PROVE FALSE
    BY <1>2, <1>3, <1>5, <2>4 DEF Matches
  <2> QED
    BY <1>1, <2>1, <2>2, <2>3, <2>4
<1> QED
  BY <1>4, <1>5

\* Fewer keys are no more.
LEMMA OneOfEachLess ==
    ASSUME NEW s, NEW n, OneOfEach(s), n.board = s.board, n.reg \subseteq s.reg
    PROVE  OneOfEach(n)
BY DEF OneOfEach

-----------------------------------------------------------------------------
(* Forks: the inductive invariant, and a key that goes down.             *)

ForksSound(s, G) ==
    /\ ForkParts(s, G)
    /\ TextRight(s)
    /\ KeepersFireKeys => ModifiersShown(s)
    /\ MacrosBalance => EndsAhead(s, DueSlots(s, G))
    /\ ReportsHaveRoom => OneOfEach(s) /\ HeldStay(s)

\* With room, a key that goes down is registered.
LEMMA KeyJoined ==
    ASSUME NEW s, ForkTypes(s), NEW src, NEW a, a.t = "key", NEW n, n = NormalKey(s, src, a, TRUE),
           NEW e, e = Event(src, a),
           e.code = NoCode \/ ~ (Cardinality({r \in Unmatched(s, e) : r.code # NoCode}) >= KeycodeSlots)
    PROVE  Joining(s, n, e)
<1> DEFINE c == Checked(s.caps, a.code)
           m == [s EXCEPT !.caps = c]
           p == RegisterKey(m, e)
<1>1. n = Shown(p, ResolveModifiers(p, TRUE), FALSE)
  BY DEF NormalKey, Sent
<1> HIDE DEF c
<1>2. HasFields(m, ForkFields) /\ m.reg = s.reg
  BY DEF HasFields, ForkFields, ForkTypes
<1>3. Unmatched(m, e) = Unmatched(s, e)
  BY <1>2 DEF Unmatched
<1> HIDE DEF m
<1>4. p.reg = Unmodified(Unmatched(s, e)) \union {e}
  <2>1. p.reg = Unmodified(Unmatched(m, e)) \union {e}
    BY <1>2, <1>3, RegisteredThere
  <2> QED
    BY <1>3, <2>1
<1>5. \A r \in s.reg : HasFields(r, {"src", "code", "mods"})
  BY DEF ForkTypes
<1>6. HasFields(p, ForkFields)
  BY <1>2, <1>5, RegisterFacts DEF Untouched
<1> DEFINE mods == ResolveModifiers(p, TRUE)
<1>7. n = Shown(p, mods, FALSE)
  BY <1>1
<1> HIDE DEF mods, p
<1>8. ReportedAs(p, mods, n)
  BY <1>6, <1>7, ReportFacts
<1>9. n.reg = p.reg
  BY <1>8 DEF ReportedAs
<1> QED
  BY <1>4, <1>9 DEF Joining

\* A key registers as the key of another, with the room there is.
LEMMA OneOfEachPressed ==
    ASSUME ReportsHaveRoom, NEW s, ForkTypes(s), OneOfEach(s), NEW src, NEW a, a.t = "key",
           NEW n, n = NormalKey(s, src, a, TRUE), n.board = s.board,
           a.code # NoCode => Expected(s.board, Event(src, a))
    PROVE  OneOfEach(n) /\ Event(src, a) \in n.reg
<1> DEFINE e == Event(src, a)
<1>1. e.code = a.code
  BY EventFacts
<1>2. /\ s.board \in ForkBoards
      /\ \A r \in s.reg : HasFields(r, {"src", "code", "mods"})
  BY DEF ForkTypes
<1> HIDE DEF e
<1>3. e.code = NoCode \/ ~ (Cardinality({r \in Unmatched(s, e) : r.code # NoCode}) >= KeycodeSlots)
  BY <1>1, <1>2, RoomThere DEF e
<1>4. Joining(s, n, e)
  BY <1>3, KeyJoined DEF e
<1>5. OneOfEach(n)
  BY <1>1, <1>2, <1>4, OneOfEachKept DEF e
<1> QED
  BY <1>4, <1>5 DEF Joining, e

\* Everything but the keys that are down.
DownChanges(s, n) ==
    /\ HasFields(n, ForkFields)
    /\ n.board = s.board /\ n.layer = s.layer /\ n.bits = s.bits /\ n.active = s.active
    /\ n.reg = s.reg /\ n.keep = s.keep /\ n.fresh = s.fresh /\ n.caps = s.caps
    /\ n.macros = s.macros /\ n.queue = s.queue /\ n.char = s.char
    /\ n.text = s.text /\ n.cut = s.cut /\ n.lost = s.lost
    /\ n.host = s.host /\ n.typed = s.typed

LEMMA DownParts ==
    ASSUME NEW s, NEW n, NEW G, NEW H, ForkParts(s, G), DownChanges(s, n),
           n.down \subseteq DOMAIN s.board.keys, s.down \union G \subseteq n.down \union H
    PROVE  /\ ForkParts(n, H)
           /\ \A k : InPlace(n, k) = InPlace(s, k)
           /\ ModifiersShown(s) => ModifiersShown(n)
           /\ TextRight(s) => TextRight(n)
<1>1. ActiveForks(n) = ActiveForks(s) /\ \A k : InPlace(n, k) = InPlace(s, k)
  BY SameForks DEF DownChanges
<1>2. ForkTypes(n)
  BY DEF ForkTypes, ForkParts, DownChanges
<1>3. ForksOfKeys(n, H) /\ KeysOfKeys(n, H)
  BY <1>1 DEF ForksOfKeys, KeysOfKeys, ForkParts, DownChanges
<1>4. CodesShown(n) /\ NothingShown(n) /\ CapsRight(n)
  BY DEF DownChanges, ForkParts, CodesShown, Codes, Keycodes, NothingShown, CapsRight
<1>5. FreshRight(n)
  BY <1>1 DEF DownChanges, ForkParts, FreshRight, Suppressed
<1>6. ModifiersShown(s) => ModifiersShown(n)
  BY SameResolved DEF DownChanges, ModifiersShown
<1>7. TextRight(s) => TextRight(n)
  BY DEF TextRight, DownChanges
<1> QED
  BY <1>1, <1>2, <1>3, <1>4, <1>5, <1>6, <1>7 DEF ForkParts

\* Before the action of a key fires: its fork is on, and what the fork suppresses is released.
Prepared(s, k, a, x) ==
    /\ ForkParts(x, {}) /\ TextRight(x)
    /\ x.board = s.board /\ x.down = s.down /\ x.reg = s.reg
    /\ x.macros = s.macros /\ x.queue = s.queue /\ x.char = s.char /\ x.lost = s.lost
    /\ InPlace(x, k) = a /\ \A j : j # k => InPlace(x, j) = InPlace(s, j)
    /\ KeepersFireKeys /\ a.t # "key" => ModifiersShown(x)

\* A fork that has no modifiers to release changes none, unless it fires a keycode.
LEMMA NoneDropped ==
    ASSUME NEW s, NEW x, NEW c, NEW a, ChainIsRight(s, a, c), KeepersFireKeys, c.a.t # "key",
           x.reg = s.reg, x.keep = (IF c.first = 0 THEN s.keep ELSE c.keep),
           Stock(x) = IF c.first = 0 THEN Stock(s) ELSE Stock(s) \union c.suppress,
           (HeldModifiers(x) \intersect c.suppress) \ (x.keep \union Readded(c.a)) = {}
    PROVE  ResolveModifiers(x, FALSE) = ResolveModifiers(s, FALSE)
<1>1. HeldModifiers(x) = HeldModifiers(s) /\ Keycodes(x) = Keycodes(s)
  BY DEF HeldModifiers, Keycodes
<1>2. Readded(c.a) = {}
  BY DEF Readded
<1>3. Suppressed(x) = Stock(x) \ x.keep /\ Suppressed(s) = Stock(s) \ s.keep
  BY DEF Suppressed, Stock
<1>4. HeldModifiers(x) \ Suppressed(x) = HeldModifiers(s) \ Suppressed(s)
  <2>1. CASE c.first = 0
    BY <1>1, <1>3, <2>1
  <2>2. CASE c.first # 0
    <3>1. c.keep \subseteq s.keep /\ s.keep \ c.keep \subseteq c.suppress
      BY DEF ChainIsRight
    <3> QED
      BY <1>1, <1>2, <1>3, <2>2, <3>1
  <2> QED
    BY <2>1, <2>2
<1> QED
  BY <1>1, <1>4 DEF ResolveModifiers

LEMMA PreparedRight ==
    ASSUME NEW s, ForkParts(s, {}), TextRight(s), KeepersFireKeys => ModifiersShown(s),
           NEW k, k \in s.down, Untried(s, k), NEW c, ChainIsRight(s, s.board.keys[k], c),
           NEW y, y = Started(s, k, c),
           NEW dropped, dropped = (HeldModifiers(y) \intersect c.suppress) \ (y.keep \union Readded(c.a)),
           NEW x, x = IF dropped = {} THEN y ELSE Sent(y, TRUE)
    PROVE  Prepared(s, k, c.a, x)
<1>1. /\ ForkParts(y, {}) /\ ForksChange(s, y)
      /\ InPlace(y, k) = c.a /\ \A j : j # k => InPlace(y, j) = InPlace(s, j)
      /\ y.keep = (IF c.first = 0 THEN s.keep ELSE c.keep)
      /\ Stock(y) = IF c.first = 0 THEN Stock(s) ELSE Stock(s) \union c.suppress
  BY StartedForks
<1>2. /\ y.board = s.board /\ y.down = s.down /\ y.reg = s.reg
      /\ y.macros = s.macros /\ y.queue = s.queue /\ y.char = s.char /\ y.lost = s.lost
      /\ y.text = s.text /\ y.cut = s.cut /\ y.host = s.host
  BY <1>1 DEF ForksChange
<1>3. CASE dropped = {}
  <2>1. x = y
    BY <1>3
  <2>2. TextRight(x)
    BY <1>2, <2>1 DEF TextRight
  <2>3. ASSUME KeepersFireKeys, c.a.t # "key" PROVE ModifiersShown(x)
    <3>1. ResolveModifiers(y, FALSE) = ResolveModifiers(s, FALSE)
      BY <1>1, <1>2, <1>3, <2>3, NoneDropped
    <3> QED
      BY <1>2, <2>1, <2>3, <3>1 DEF ModifiersShown
  <2> QED
    BY <1>1, <1>2, <2>1, <2>2, <2>3 DEF Prepared
<1>4. CASE dropped # {}
  <2>1. x = Sent(y, TRUE)
    BY <1>4
  <2>2. y.reg # {}
    <3> SUFFICES ASSUME y.reg = {} PROVE FALSE
      OBVIOUS
    <3>1. HeldModifiers(y) = {}
      BY DEF HeldModifiers, Mods, Keycodes
    <3> QED
      BY <1>4, <3>1
  <2>3. AllShown(y, x, {}) /\ x.reg = y.reg
    BY <1>1, <2>1, <2>2, PressSent
  <2>4. ForkParts(x, {}) /\ ModifiersShown(x) /\ Untouched(y, x) /\ x.text = FALSE
    BY <2>3 DEF AllShown
  <2>5. \A j : InPlace(x, j) = InPlace(y, j)
    <3>1. x.board = y.board /\ x.active = y.active
      BY <2>4 DEF Untouched
    <3> QED
      BY <3>1, SameForks
  <2>6. /\ x.board = s.board /\ x.down = s.down /\ x.reg = s.reg
        /\ x.macros = s.macros /\ x.queue = s.queue /\ x.char = s.char /\ x.lost = s.lost
    BY <1>2, <2>3, <2>4 DEF Untouched
  <2>7. InPlace(x, k) = c.a /\ \A j : j # k => InPlace(x, j) = InPlace(s, j)
    BY <1>1, <2>5
  <2>8. TextRight(x)
    BY <2>4 DEF TextRight
  <2> QED
    BY <2>4, <2>6, <2>7, <2>8 DEF Prepared
<1> QED
  BY <1>3, <1>4

\* A key that fires a code is one that a report has room for.
LEMMA CodeKeyThere ==
    ASSUME NEW s, s.board \in ForkBoards, NEW k \in DOMAIN s.board.keys, NEW c,
           ChainIsRight(s, s.board.keys[k], c), c.a.t = "key", c.a.code # NoCode
    PROVE  Expected(s.board, Event(k, c.a))
<1>1. k # FromMacro
  BY ForkBoardsAreWhole
<1>2. k \in CodeKeys(s.board)
  BY DEF CodeKeys, HasCode, ChainIsRight
<1>3. Event(k, c.a).src = k
  BY EventFacts
<1> QED
  BY <1>1, <1>2, <1>3 DEF Expected

\* The slots of the keys that are down.
LEMMA DueKept ==
    ASSUME NEW s, NEW n, NEW G, NEW H,
           \A k \in s.down \union G : k \in n.down \union H /\ InPlace(n, k) = InPlace(s, k)
    PROVE  DueSlots(s, G) \subseteq DueSlots(n, H)
BY DEF DueSlots

\* A key goes down (try_start_forks at a press).
LEMMA PressStep ==
    ASSUME NEW s, ForksSound(s, {}), NEW k \in DOMAIN s.board.keys, k \notin s.down,
           NEW n, n = PressReplaced([s EXCEPT !.down = @ \union {k}], k, s.board.keys[k])
    PROVE  ForksSound(n, {})
<1> DEFINE a == s.board.keys[k]
           m == [s EXCEPT !.down = @ \union {k}]
           c == Bound(m, a)
           y == Started(m, k, c)
           dropped == (HeldModifiers(y) \intersect c.suppress) \ (y.keep \union Readded(c.a))
           x == IF dropped = {} THEN y ELSE Sent(y, TRUE)
           e == Event(k, c.a)
<1>1. n = NormalKey(x, k, c.a, TRUE)
  BY DEF PressReplaced
<1>2. ForkTypes(s) /\ HasFields(s, ForkFields) /\ s.board \in ForkBoards /\ ForkParts(s, {})
      /\ \A r \in s.reg : HasFields(r, {"src", "code", "mods"})
  BY DEF ForksSound, ForkParts, ForkTypes
<1>3. DownChanges(s, m) /\ m.down = s.down \union {k}
  BY <1>2 DEF DownChanges, HasFields, ForkFields
<1> HIDE DEF m
<1>4. s.down \subseteq DOMAIN s.board.keys /\ k # FromMacro /\ FromMacro \notin s.down
  BY <1>2, ForkBoardsAreWhole DEF ForkTypes
<1>5. /\ ForkParts(m, {}) /\ TextRight(m) /\ (KeepersFireKeys => ModifiersShown(m))
      /\ \A j : InPlace(m, j) = InPlace(s, j)
  <2>1. m.down \subseteq DOMAIN s.board.keys /\ s.down \union {} \subseteq m.down \union {}
    BY <1>3, <1>4
  <2> QED
    BY <1>2, <1>3, <2>1, DownParts DEF ForksSound
<1>6. m.board = s.board /\ m.reg = s.reg /\ m.active = s.active /\ m.macros = s.macros
      /\ m.queue = s.queue /\ m.char = s.char /\ m.lost = s.lost
  BY <1>3 DEF DownChanges
<1>7. Untried(m, k)
  <2>1. ActiveForks(m) = ActiveForks(s)
    BY <1>6, SameForks
  <2>2. \A i \in ActiveForks(s) : s.active[i].src # k
    BY <1>2 DEF ForkParts, ForksOfKeys
  <2>3. \A r \in s.reg : r.src # k
    BY <1>2, <1>4 DEF ForkParts, KeysOfKeys
  <2> QED
    BY <1>6, <2>1, <2>2, <2>3 DEF Untried
<1>8. ChainIsRight(m, a, c)
  <2>1. a \in ActionsOf(m.board)
    BY <1>6 DEF ActionsOf, Range
  <2>2. Slotted(m.board, a)
    BY <1>2, <1>6, <2>1, ForkBoardsAreWhole DEF Slotted
  <2> QED
    BY <1>2, <1>6, <2>2, BoundIsRight
<1> HIDE DEF c
<1>9. Prepared(m, k, c.a, x)
  <2>1. k \in m.down /\ a = m.board.keys[k]
    BY <1>3, <1>6
  <2> HIDE DEF y, a
  <2>2. ChainIsRight(m, m.board.keys[k], c)
    BY <1>8, <2>1
  <2> QED
    BY <1>5, <1>7, <2>1, <2>2, PreparedRight DEF y
<1> HIDE DEF x
<1>10. /\ ForkParts(x, {}) /\ TextRight(x)
       /\ x.board = s.board /\ x.down = s.down \union {k} /\ x.reg = s.reg
       /\ x.macros = s.macros /\ x.queue = s.queue /\ x.char = s.char /\ x.lost = s.lost
       /\ InPlace(x, k) = c.a /\ \A j : j # k => InPlace(x, j) = InPlace(s, j)
       /\ (KeepersFireKeys /\ c.a.t # "key" => ModifiersShown(x))
  BY <1>3, <1>5, <1>6, <1>9 DEF Prepared
<1>11. k \in x.down /\ ForkTypes(x)
  BY <1>10 DEF ForkParts
<1>12. DueSlots(s, {}) \subseteq DueSlots(x, {}) /\ (c.a.t = "macro" => c.a.slot \in DueSlots(x, {}))
  <2>1. \A j \in s.down : j # k /\ j \in x.down
    BY <1>10
  <2>2. DueSlots(s, {}) \subseteq DueSlots(x, {})
    BY <1>10, <2>1, DueKept
  <2>3. ASSUME c.a.t = "macro" PROVE c.a.slot \in DueSlots(x, {})
    BY <1>10, <1>11, <2>3 DEF DueSlots
  <2> QED
    BY <2>2, <2>3
<1>13. ReportsHaveRoom => OneOfEach(x)
  BY <1>10, OneOfEachLess DEF ForksSound
<1>14. /\ e.src = k /\ e.code = c.a.code
  BY EventFacts
<1> HIDE DEF e
<1>15. CASE c.a.t = "key"
  <2>1. AllShown(x, n, {}) /\ Registered(x, n, e)
    BY <1>1, <1>10, <1>11, <1>15, KeyPressed DEF e
  <2>2. ForkParts(n, {}) /\ ModifiersShown(n) /\ Untouched(x, n) /\ n.text = FALSE
    BY <2>1 DEF AllShown
  <2>3. /\ n.board = x.board /\ n.active = x.active /\ n.down = x.down /\ n.macros = x.macros
        /\ n.queue = x.queue /\ n.char = x.char /\ n.lost = x.lost
    BY <2>2 DEF Untouched
  <2>4. \A j : InPlace(n, j) = InPlace(x, j)
    BY <2>3, SameForks
  <2>5. MacrosBalance => EndsAhead(n, DueSlots(n, {}))
    <3> SUFFICES ASSUME MacrosBalance PROVE EndsAhead(n, DueSlots(n, {}))
      OBVIOUS
    <3>1. DueSlots(x, {}) \subseteq DueSlots(n, {})
      <4>1. \A j \in x.down : j \in n.down /\ InPlace(n, j) = InPlace(x, j)
        BY <2>3, <2>4
      <4> QED
        BY <4>1, DueKept
    <3>2. FewerMacroKeys(s, n)
      <4> SUFFICES ASSUME NEW q \in n.reg, q.src = FromMacro
                   PROVE  \E r \in s.reg : /\ r.src = FromMacro /\ r.code = q.code
                                           /\ q.code = NoCode => q = r
        BY DEF FewerMacroKeys
      <4>1. q # e
        BY <1>4, <1>14
      <4>2. \E r \in x.reg : q.src = r.src /\ q.code = r.code /\ (q.code = NoCode => q = r)
        BY <2>1, <4>1 DEF Registered
      <4> QED
        BY <1>10, <4>2
    <3>3. EndsAhead(s, DueSlots(s, {}))
      BY DEF ForksSound
    <3>4. n.macros = s.macros /\ n.queue = s.queue /\ n.char = s.char /\ n.lost = s.lost
      BY <1>10, <2>3
    <3>5. DueSlots(s, {}) \subseteq DueSlots(n, {})
      BY <1>12, <3>1
    <3> QED
      BY <3>2, <3>3, <3>4, <3>5, EndsKept
  <2>6. ASSUME ReportsHaveRoom PROVE OneOfEach(n) /\ HeldStay(n)
    <3>1. c.a.code # NoCode => Expected(x.board, Event(k, c.a))
      BY <1>2, <1>6, <1>8, <1>10, <1>15, CodeKeyThere DEF ChainIsRight
    <3>2. OneOfEach(n) /\ e \in n.reg
      BY <1>1, <1>11, <1>13, <1>15, <2>3, <2>6, <3>1, OneOfEachPressed DEF e
    <3>3. ASSUME NEW j \in n.down, InPlace(n, j).t = "key" PROVE \E q \in n.reg : q.src = j
      <4>1. CASE j = k
        BY <1>14, <3>2, <4>1
      <4>2. CASE j # k
        <5>1. j \in s.down /\ InPlace(s, j).t = "key" /\ j # FromMacro
          BY <1>4, <1>10, <2>3, <2>4, <3>3, <4>2
        <5>2. PICK r \in s.reg : r.src = j
          BY <2>6, <5>1 DEF ForksSound, HeldStay
        <5>3. ~ Matches(r, e)
          BY <1>14, <4>2, <5>1, <5>2 DEF Matches
        <5> QED
          BY <1>10, <2>1, <5>2, <5>3 DEF Registered
      <4> QED
        BY <4>1, <4>2
    <3> QED
      BY <3>2, <3>3 DEF HeldStay
  <2> QED
    BY <2>2, <2>5, <2>6 DEF ForksSound, TextRight
<1>16. CASE c.a.t # "key"
  <2>1. Slotted(x.board, c.a)
    BY <1>6, <1>8, <1>10 DEF ChainIsRight
  <2> DEFINE h == FirstHalfOf(x, c.a)
  <2>2. QueuesOnly(x, n, h)
    BY <1>1, <1>11, <1>16, <2>1, OtherPressed
  <2>3. h \in Seq(OpsOf(x.board))
    BY <1>11, <2>1, SlotOps, EmptySeq DEF FirstHalfOf, Slotted
  <2> HIDE DEF h
  <2>4. ForkParts(n, {}) /\ (ModifiersShown(x) => ModifiersShown(n)) /\ TextRight(n)
    BY <1>10, <2>2, <2>3, QuietParts
  <2>5. n.board = x.board /\ n.active = x.active /\ n.down = x.down /\ n.reg = x.reg
    BY <2>2 DEF QueuesOnly, OnTheSide
  <2>6. \A j : InPlace(n, j) = InPlace(x, j)
    BY <2>5, SameForks
  <2>7. MacrosBalance => EndsAhead(n, DueSlots(n, {}))
    <3> SUFFICES ASSUME MacrosBalance PROVE EndsAhead(n, DueSlots(n, {}))
      OBVIOUS
    <3>1. DueSlots(x, {}) \subseteq DueSlots(n, {})
      <4>1. \A j \in x.down : j \in n.down /\ InPlace(n, j) = InPlace(x, j)
        BY <2>5, <2>6
      <4> QED
        BY <4>1, DueKept
    <3>2. EndsAhead(s, DueSlots(s, {}))
      BY DEF ForksSound
    <3>3. FewerMacroKeys(s, x)
      BY <1>10 DEF FewerMacroKeys
    <3>4. EndsAhead(x, DueSlots(x, {}))
      BY <1>10, <1>12, <3>2, <3>3, EndsKept
    <3>5. c.a.t = "macro" => c.a.slot \in DueSlots(n, {})
      BY <1>12, <3>1
    <3> QED
      BY <1>11, <2>1, <2>2, <3>1, <3>4, <3>5, EndsAtPress DEF h
  <2>8. ASSUME ReportsHaveRoom PROVE OneOfEach(n) /\ HeldStay(n)
    <3>1. OneOfEach(n)
      BY <1>13, <2>5, <2>8, OneOfEachLess
    <3>2. ASSUME NEW j \in n.down, InPlace(n, j).t = "key" PROVE \E q \in n.reg : q.src = j
      <4>1. j # k
        BY <1>10, <1>16, <2>6, <3>2
      <4>2. j \in s.down /\ InPlace(s, j).t = "key"
        BY <1>10, <2>5, <2>6, <3>2, <4>1
      <4> QED
        BY <1>10, <2>5, <2>8, <4>2 DEF ForksSound, HeldStay
    <3> QED
      BY <3>1, <3>2 DEF HeldStay
  <2> QED
    BY <1>10, <1>16, <2>4, <2>7, <2>8 DEF ForksSound
<1> QED
  BY <1>15, <1>16

-----------------------------------------------------------------------------
(* Forks: a key that goes up.                                            *)

\* The end of key k's fork, with the report of what it no longer suppresses.
ForkEnded(s, k, n) ==
    /\ ForkParts(n, {}) /\ (ModifiersShown(s) => ModifiersShown(n)) /\ (TextRight(s) => TextRight(n))
    /\ n.board = s.board /\ n.down = s.down /\ n.reg = s.reg
    /\ n.macros = s.macros /\ n.queue = s.queue /\ n.char = s.char /\ n.lost = s.lost
    /\ \A j : j # k => InPlace(n, j) = InPlace(s, j)

LEMMA FinishedRight ==
    ASSUME NEW s, NEW k, ForkParts(s, {k}), k \notin s.down, \A r \in s.reg : r.src # k,
           NEW n, n = Finished(s, k)
    PROVE  ForkEnded(s, k, n)
<1>1. PICK y : y = [s EXCEPT !.active =
                      [i \in DOMAIN @ |-> IF @[i].on /\ @[i].src = k THEN Inactive ELSE @[i]]]
  OBVIOUS
<1>2. n = IF ResolveModifiers(y, FALSE) = ResolveModifiers(s, FALSE) THEN y ELSE Report(y)
  BY <1>1 DEF Finished, Report
<1>3. /\ ForkParts(y, {}) /\ ForksChange(s, y)
      /\ \A j : j # k => InPlace(y, j) = InPlace(s, j)
      /\ y.keep = s.keep /\ y.fresh = s.fresh
  BY <1>1, ForksEnded
<1>4. /\ y.board = s.board /\ y.down = s.down /\ y.reg = s.reg /\ y.cut = s.cut
      /\ y.macros = s.macros /\ y.queue = s.queue /\ y.char = s.char /\ y.lost = s.lost
      /\ y.text = s.text /\ y.host = s.host
  BY <1>3 DEF ForksChange
<1>5. CASE ResolveModifiers(y, FALSE) = ResolveModifiers(s, FALSE)
  <2>1. n = y
    BY <1>2, <1>5
  <2>2. ModifiersShown(s) => ModifiersShown(n)
    BY <1>4, <1>5, <2>1 DEF ModifiersShown
  <2>3. TextRight(s) => TextRight(n)
    BY <1>4, <2>1 DEF TextRight
  <2> QED
    BY <1>3, <1>4, <2>1, <2>2, <2>3 DEF ForkEnded
<1>6. CASE ResolveModifiers(y, FALSE) # ResolveModifiers(s, FALSE)
  <2>1. n = Report(y)
    BY <1>2, <1>6
  <2>2. Lessened(y, y)
    BY <1>3 DEF Lessened, Untouched, ForksChange
  <2>3. AllShown(y, n, {}) /\ n.reg = y.reg
    BY <1>3, <2>1, <2>2, ReportSent
  <2>4. ForkParts(n, {}) /\ ModifiersShown(n) /\ Untouched(y, n) /\ n.text = FALSE
    BY <2>3 DEF AllShown
  <2>5. n.board = y.board /\ n.down = y.down /\ n.active = y.active
        /\ n.macros = y.macros /\ n.queue = y.queue /\ n.char = y.char /\ n.lost = y.lost
    BY <2>4 DEF Untouched
  <2>6. \A j : InPlace(n, j) = InPlace(y, j)
    BY <2>5, SameForks
  <2>7. TextRight(n)
    BY <2>4 DEF TextRight
  <2> QED
    BY <1>3, <1>4, <2>3, <2>4, <2>5, <2>6, <2>7 DEF ForkEnded
<1> QED
  BY <1>5, <1>6

\* A key goes up (try_start_forks at a release, try_finish_forks).
LEMMA ReleaseStep ==
    ASSUME NEW s, ForksSound(s, {}), NEW k \in DOMAIN s.board.keys, k \in s.down,
           NEW n, n = ReleaseReplaced([s EXCEPT !.down = @ \ {k}], k, s.board.keys[k])
    PROVE  ForksSound(n, {})
<1> DEFINE m == [s EXCEPT !.down = @ \ {k}]
           a == Replacement(m, k, s.board.keys[k])
           e == Event(k, a)
<1>1. PICK x : x = KeyUp(m, k, a)
  OBVIOUS
<1>2. n = Finished(x, k)
  BY <1>1 DEF ReleaseReplaced, KeyUp
<1>3. ForkTypes(s) /\ HasFields(s, ForkFields) /\ s.board \in ForkBoards /\ ForkParts(s, {})
  BY DEF ForksSound, ForkParts, ForkTypes
<1>4. DownChanges(s, m) /\ m.down = s.down \ {k}
  BY <1>3 DEF DownChanges, HasFields, ForkFields
<1> HIDE DEF m
<1>5. s.down \subseteq DOMAIN s.board.keys /\ k # FromMacro /\ FromMacro \notin s.down
  BY <1>3, ForkBoardsAreWhole DEF ForkTypes
<1>6. /\ ForkParts(m, {k}) /\ TextRight(m) /\ (KeepersFireKeys => ModifiersShown(m))
      /\ \A j : InPlace(m, j) = InPlace(s, j)
  <2>1. m.down \subseteq DOMAIN s.board.keys /\ s.down \union {} \subseteq m.down \union {k}
    BY <1>4, <1>5
  <2> QED
    BY <1>3, <1>4, <2>1, DownParts DEF ForksSound
<1>7. m.board = s.board /\ m.reg = s.reg /\ m.active = s.active /\ m.macros = s.macros
      /\ m.queue = s.queue /\ m.char = s.char /\ m.lost = s.lost
  BY <1>4 DEF DownChanges
<1>8. a = InPlace(m, k)
  BY <1>7 DEF InPlace
<1>9. ForkTypes(m) /\ ForksOfKeys(m, {k})
  BY <1>6 DEF ForkParts
<1>10. Slotted(m.board, a)
  BY <1>7, <1>8, <1>9, SlotsInPlace
<1>11. k \notin m.down
  BY <1>4
<1> HIDE DEF a
<1>12. DueSlots(s, {}) \subseteq DueSlots(m, {k})
  BY <1>4, <1>6, DueKept
<1>13. ReportsHaveRoom => OneOfEach(m)
  BY <1>7, OneOfEachLess DEF ForksSound
\* What the release of the action leaves.
<1> DEFINE Over == /\ ForkParts(x, {k}) /\ (KeepersFireKeys => ModifiersShown(x)) /\ TextRight(x)
                   /\ x.board = m.board /\ x.down = m.down /\ x.active = m.active
                   /\ \A r \in x.reg : r \in m.reg /\ r.src # k
                   /\ \A r \in m.reg : (r.src \in m.down => r \in x.reg)
                   /\ MacrosBalance => EndsAhead(x, DueSlots(x, {}))
<1>14. CASE Over
  <2>1. k \notin x.down
    BY <1>11, <1>14
  <2>2. ForkEnded(x, k, n)
    BY <1>2, <1>14, <2>1, FinishedRight
  <2>3. /\ ForkParts(n, {}) /\ (KeepersFireKeys => ModifiersShown(n)) /\ TextRight(n)
        /\ n.board = x.board /\ n.down = x.down /\ n.reg = x.reg
        /\ n.macros = x.macros /\ n.queue = x.queue /\ n.char = x.char /\ n.lost = x.lost
        /\ \A j : j # k => InPlace(n, j) = InPlace(x, j)
    BY <1>14, <2>2 DEF ForkEnded
  <2>4. \A j : InPlace(x, j) = InPlace(m, j)
    BY <1>14, SameForks
  <2>5. ASSUME MacrosBalance PROVE EndsAhead(n, DueSlots(n, {}))
    <3>1. \A j \in x.down : j # k
      BY <2>1
    <3>2. DueSlots(x, {}) \subseteq DueSlots(n, {})
      <4>1. \A j \in x.down \union {} : j \in n.down \union {} /\ InPlace(n, j) = InPlace(x, j)
        BY <2>3, <3>1
      <4> QED
        BY <4>1, DueKept
    <3>3. FewerMacroKeys(x, n)
      BY <2>3 DEF FewerMacroKeys
    <3>4. EndsAhead(x, DueSlots(x, {}))
      BY <1>14, <2>5
    <3> QED
      BY <2>3, <3>2, <3>3, <3>4, EndsKept
  <2>6. ASSUME ReportsHaveRoom PROVE OneOfEach(n) /\ HeldStay(n)
    <3>1. n.board = m.board /\ n.reg \subseteq m.reg
      BY <1>14, <2>3
    <3>2. OneOfEach(n)
      BY <1>13, <2>6, <3>1, OneOfEachLess
    <3>3. ASSUME NEW j \in n.down, InPlace(n, j).t = "key" PROVE \E q \in n.reg : q.src = j
      <4>1. j # k /\ j \in s.down /\ j \in m.down
        BY <1>4, <1>11, <1>14, <2>3
      <4>2. InPlace(s, j).t = "key"
        BY <1>6, <2>3, <2>4, <3>3, <4>1
      <4>3. PICK r \in s.reg : r.src = j
        BY <2>6, <4>1, <4>2 DEF ForksSound, HeldStay
      <4> QED
        BY <1>7, <1>14, <2>3, <4>1, <4>3
    <3> QED
      BY <3>2, <3>3 DEF HeldStay
  <2> QED
    BY <2>3, <2>5, <2>6 DEF ForksSound
<1>15. CASE a.t = "key"
  <2>1. AllShown(m, x, {k}) /\ x.reg = Unmatched(m, e)
    BY <1>1, <1>6, <1>15, KeyReleased
  <2>2. ForkParts(x, {k}) /\ ModifiersShown(x) /\ Untouched(m, x) /\ x.text = FALSE
    BY <2>1 DEF AllShown
  <2>3. /\ x.board = m.board /\ x.active = m.active /\ x.down = m.down /\ x.macros = m.macros
        /\ x.queue = m.queue /\ x.char = m.char /\ x.lost = m.lost
    BY <2>2 DEF Untouched
  <2>4. e.src = k
    BY EventFacts
  <2> HIDE DEF e
  <2>5. \A r \in x.reg : r \in m.reg /\ r.src # k
    BY <1>5, <2>1, <2>4 DEF Unmatched, Matches
  <2>6. \A r \in m.reg : r.src \in m.down => r \in x.reg
    BY <1>4, <1>5, <1>11, <2>1, <2>4 DEF Unmatched, Matches
  <2>7. ASSUME MacrosBalance PROVE EndsAhead(x, DueSlots(x, {}))
    <3>1. EndsAhead(s, DueSlots(s, {}))
      BY <2>7 DEF ForksSound
    <3>2. DueSlots(s, {}) \subseteq DueSlots(x, {})
      <4> SUFFICES ASSUME NEW j \in s.down, InPlace(s, j).t = "macro"
                   PROVE  j \in x.down /\ InPlace(x, j) = InPlace(s, j)
        BY DEF DueSlots
      <4>1. InPlace(x, j) = InPlace(s, j)
        BY <1>6, <2>3, SameForks
      <4>2. j # k
        BY <1>6, <1>8, <1>15
      <4> QED
        BY <1>4, <2>3, <4>1, <4>2
    <3>3. FewerMacroKeys(s, x)
      BY <1>7, <2>5 DEF FewerMacroKeys
    <3> QED
      BY <1>7, <2>3, <3>1, <3>2, <3>3, EndsKept
  <2>8. Over
    BY <2>2, <2>3, <2>5, <2>6, <2>7 DEF TextRight
  <2> QED
    BY <1>14, <2>8
<1>16. CASE a.t # "key"
  <2> DEFINE h == SecondHalfOf(m, a)
  <2>1. QueuesOnly(m, x, h)
    BY <1>1, <1>9, <1>10, <1>16, OtherReleased DEF KeyUp
  <2>2. h \in Seq(OpsOf(m.board))
    BY <1>9, <1>10, SlotOps, EmptySeq DEF SecondHalfOf, Slotted
  <2> HIDE DEF h
  <2>3. ForkParts(x, {k}) /\ (ModifiersShown(m) => ModifiersShown(x)) /\ TextRight(x)
    BY <1>6, <2>1, <2>2, QuietParts
  <2>4. x.board = m.board /\ x.active = m.active /\ x.down = m.down /\ x.reg = m.reg
    BY <2>1 DEF QueuesOnly, OnTheSide
  <2>5. \A r \in x.reg : r.src # k
    BY <1>5, <1>6, <1>8, <1>16, <2>4 DEF ForkParts, KeysOfKeys
  <2>6. ASSUME MacrosBalance PROVE EndsAhead(x, DueSlots(x, {}))
    <3>1. EndsAhead(s, DueSlots(s, {}))
      BY <2>6 DEF ForksSound
    <3>2. FewerMacroKeys(s, m)
      BY <1>7 DEF FewerMacroKeys
    <3>3. EndsAhead(m, DueSlots(s, {}))
      BY <1>7, <3>1, <3>2, EndsKept
    <3>4. \A slot \in DueSlots(s, {}) : slot \in DueSlots(x, {}) \/ (a.t = "macro" /\ slot = a.slot)
      <4> SUFFICES ASSUME NEW j \in s.down, InPlace(s, j).t = "macro"
                   PROVE  \/ InPlace(s, j).slot \in DueSlots(x, {})
                          \/ a.t = "macro" /\ InPlace(s, j).slot = a.slot
        BY DEF DueSlots
      <4>1. InPlace(x, j) = InPlace(s, j)
        BY <1>6, <2>4, SameForks
      <4>2. CASE j = k
        BY <1>6, <1>8, <4>2
      <4>3. CASE j # k
        BY <1>4, <2>4, <4>1, <4>3 DEF DueSlots
      <4> QED
        BY <4>2, <4>3
    <3> QED
      BY <1>9, <1>10, <2>1, <2>6, <3>3, <3>4, EndsAtRelease DEF h
  <2>7. Over
    BY <1>6, <2>3, <2>4, <2>5, <2>6
  <2> QED
    BY <1>14, <2>7
<1> QED
  BY <1>15, <1>16

-----------------------------------------------------------------------------
(* Forks: the layer, the bits, caps word and edits.                      *)

\* Keys that are down keep what they registered.
LEMMA HeldKept ==
    ASSUME NEW s, NEW n, s.board \in ForkBoards, s.down \subseteq DOMAIN s.board.keys, HeldStay(s),
           n.board = s.board, n.active = s.active, n.down = s.down,
           \A r \in s.reg : r.src # FromMacro => \E q \in n.reg : q.src = r.src
    PROVE  HeldStay(n)
<1>1. \A k : InPlace(n, k) = InPlace(s, k)
  BY SameForks
<1>2. FromMacro \notin s.down
  BY ForkBoardsAreWhole
<1> QED
  BY <1>1, <1>2 DEF HeldStay

\* Nothing but what is on the side of keys, forks and macros changes.
LEMMA SideStep ==
    ASSUME NEW s, ForksSound(s, {}), NEW n, ForkTypes(n), OnTheSide(s, n),
           n.macros = s.macros, n.queue = s.queue, n.char = s.char, n.lost = s.lost, n.cut = s.cut
    PROVE  ForksSound(n, {})
<1>1. ForkParts(n, {}) /\ (ModifiersShown(s) => ModifiersShown(n))
  BY SideParts DEF ForksSound
<1>2. TextRight(n)
  BY DEF ForksSound, TextRight, OnTheSide
<1>3. \A k : InPlace(n, k) = InPlace(s, k)
  BY SameForks DEF OnTheSide
<1>4. ASSUME MacrosBalance PROVE EndsAhead(n, DueSlots(n, {}))
  <2>1. DueSlots(s, {}) \subseteq DueSlots(n, {})
    BY <1>3, DueKept DEF OnTheSide
  <2>2. FewerMacroKeys(s, n)
    BY DEF FewerMacroKeys, OnTheSide
  <2> QED
    BY <1>4, <2>1, <2>2, EndsKept DEF ForksSound
<1>5. ReportsHaveRoom => OneOfEach(n) /\ HeldStay(n)
  BY <1>3 DEF ForksSound, OneOfEach, HeldStay, OnTheSide
<1> QED
  BY <1>1, <1>2, <1>4, <1>5 DEF ForksSound

LEMMA LayerStep ==
    ASSUME NEW s, ForksSound(s, {}), NEW n, n = [s EXCEPT !.layer = 3 - @]
    PROVE  ForksSound(n, {})
<1>1. ForkTypes(s) /\ HasFields(s, ForkFields)
  BY DEF ForksSound, ForkParts, ForkTypes
<1> DEFINE l == 3 - s.layer
<1>2. n = [s EXCEPT !.layer = l]
  BY <1>1 DEF HasFields, ForkFields
<1> HIDE DEF l
<1>3. /\ HasFields(n, ForkFields) /\ OnTheSide(s, n) /\ n.caps = s.caps
      /\ n.macros = s.macros /\ n.queue = s.queue /\ n.char = s.char /\ n.lost = s.lost /\ n.cut = s.cut
  BY <1>1, <1>2 DEF HasFields, ForkFields, OnTheSide
<1>4. ForkTypes(n)
  BY <1>1, <1>3 DEF ForkTypes, OnTheSide
<1> QED
  BY <1>3, <1>4, SideStep

LEMMA BitStep ==
    ASSUME NEW s, ForksSound(s, {}), NEW bits, NEW n, n = [s EXCEPT !.bits = bits]
    PROVE  ForksSound(n, {})
<1>1. ForkTypes(s) /\ HasFields(s, ForkFields)
  BY DEF ForksSound, ForkParts, ForkTypes
<1>2. /\ HasFields(n, ForkFields) /\ OnTheSide(s, n) /\ n.caps = s.caps
      /\ n.macros = s.macros /\ n.queue = s.queue /\ n.char = s.char /\ n.lost = s.lost /\ n.cut = s.cut
  BY <1>1 DEF HasFields, ForkFields, OnTheSide
<1>3. ForkTypes(n)
  BY <1>1, <1>2 DEF ForkTypes, OnTheSide
<1> QED
  BY <1>2, <1>3, SideStep

LEMMA CapsStep ==
    ASSUME NEW s, ForksSound(s, {}), NEW n, n = [s EXCEPT !.caps.late = TRUE]
    PROVE  ForksSound(n, {})
<1>1. ForkTypes(s) /\ HasFields(s, ForkFields) /\ HasFields(s.caps, {"on", "late", "shift"})
  BY DEF ForksSound, ForkParts, ForkTypes
<1> DEFINE c == [s.caps EXCEPT !.late = TRUE]
<1>2. n = [s EXCEPT !.caps = c]
  BY <1>1 DEF HasFields, ForkFields
<1>3. HasFields(c, {"on", "late", "shift"})
  BY <1>1 DEF HasFields
<1> HIDE DEF c
<1>4. /\ HasFields(n, ForkFields) /\ OnTheSide(s, n) /\ n.caps = c
      /\ n.macros = s.macros /\ n.queue = s.queue /\ n.char = s.char /\ n.lost = s.lost /\ n.cut = s.cut
  BY <1>1, <1>2 DEF HasFields, ForkFields, OnTheSide
<1>5. ForkTypes(n)
  BY <1>1, <1>3, <1>4 DEF ForkTypes, OnTheSide
<1> QED
  BY <1>4, <1>5, SideStep

\* A host edits a macro.
LEMMA EditStep ==
    ASSUME NEW s, ForksSound(s, {}), NEW slot \in DOMAIN s.macros, NEW ops \in MacroEdits,
           NEW n, n = Edited(s, slot, ops)
    PROVE  ForksSound(n, {})
<1>1. ForkTypes(s) /\ HasFields(s, ForkFields) /\ ForkParts(s, {})
  BY DEF ForksSound, ForkParts, ForkTypes
<1> DEFINE ms == [s.macros EXCEPT ![slot] = ops]
           lost == s.lost \/ s.queue # <<>> \/ s.down # {}
           cut == s.cut \/ (s.text /\ s.char = <<>> /\ s.queue # <<>>)
<1>2. n = [s EXCEPT !.macros = ms, !.queue = <<>>, !.lost = lost, !.cut = cut]
  BY <1>1 DEF Edited, HasFields, ForkFields
<1>3. lost \in BOOLEAN /\ cut \in BOOLEAN
  BY <1>1 DEF ForkTypes
<1>4. DOMAIN ms = DOMAIN s.macros /\ \A i \in DOMAIN ms : ms[i] = s.macros[i] \/ ms[i] = ops
  OBVIOUS
<1>5. ~lost => ~s.lost /\ s.queue = <<>> /\ s.down = {}
  BY DEF ForkTypes
<1>6. (s.cut => cut) /\ (s.text /\ s.char = <<>> /\ s.queue # <<>> => cut)
  BY <1>1 DEF ForkTypes
<1> HIDE DEF ms, lost, cut
<1>7. /\ HasFields(n, ForkFields) /\ OnTheSide(s, n) /\ n.caps = s.caps
      /\ n.macros = ms /\ n.queue = <<>> /\ n.char = s.char /\ n.lost = lost /\ n.cut = cut
  BY <1>1, <1>2 DEF HasFields, ForkFields, OnTheSide
<1>8. ForkTypes(n)
  <2>1. \A i \in DOMAIN n.macros : n.macros[i] \in MacrosOf(n.board)
    BY <1>1, <1>4, <1>7 DEF ForkTypes, OnTheSide, MacrosOf
  <2>2. n.queue \in Seq(Seq(OpsOf(n.board)))
    BY <1>7, EmptySeq
  <2>3. n.text \in BOOLEAN /\ n.cut \in BOOLEAN /\ n.lost \in BOOLEAN
    BY <1>1, <1>3, <1>7 DEF ForkTypes, OnTheSide
  <2> QED
    BY <1>1, <1>4, <1>7, <2>1, <2>2, <2>3 DEF ForkTypes, OnTheSide
<1>9. ForkParts(n, {}) /\ (ModifiersShown(s) => ModifiersShown(n))
  BY <1>1, <1>7, <1>8, SideParts
<1>10. TextRight(n)
  <2> SUFFICES ASSUME n.text, n.char = <<>> PROVE n.cut
    BY DEF TextRight
  <2>1. s.text /\ s.char = <<>> /\ (IsChar(s.queue) \/ s.cut)
    BY <1>7 DEF ForksSound, TextRight, OnTheSide
  <2>2. ASSUME s.queue = <<>> PROVE ~ IsChar(s.queue)
    <3>1. s.queue \in Seq(Seq(OpsOf(s.board)))
      BY <1>1 DEF ForkTypes
    <3>2. \A i : ~ FirstHalf(s.queue, i)
      BY <2>2 DEF FirstHalf
    <3> QED
      BY <3>1, <3>2, IsCharIs
  <2> QED
    BY <1>6, <1>7, <2>1, <2>2
<1>11. ASSUME MacrosBalance PROVE EndsAhead(n, DueSlots(n, {}))
  <2> SUFFICES ASSUME ~ n.lost PROVE MacroKeysEnd(n, DueSlots(n, {})) /\ PressesEnd(n, DueSlots(n, {}))
    BY DEF EndsAhead
  <2>1. ~ s.lost /\ s.queue = <<>> /\ s.down = {}
    BY <1>5, <1>7
  <2>2. DueSlots(s, {}) = {}
    BY <2>1 DEF DueSlots
  <2>3. MacroKeysEnd(s, {})
    BY <1>11, <2>1, <2>2 DEF ForksSound, EndsAhead
  <2>4. \A a : ~ Coming(s, 0, a) /\ ~ Promised(s, {}, a)
    BY <2>1 DEF Coming, Promised
  <2>5. MacroKeysEnd(n, DueSlots(n, {}))
    BY <1>7, <2>3, <2>4 DEF MacroKeysEnd, OnTheSide
  <2>6. PressesEnd(n, DueSlots(n, {}))
    <3>1. 1 .. Len(n.queue) = {}
      BY <1>7
    <3> QED
      BY <3>1 DEF PressesEnd
  <2> QED
    BY <2>5, <2>6
<1>12. ReportsHaveRoom => OneOfEach(n) /\ HeldStay(n)
  <2>1. \A k : InPlace(n, k) = InPlace(s, k)
    BY <1>7, SameForks DEF OnTheSide
  <2> QED
    BY <1>7, <2>1 DEF ForksSound, OneOfEach, HeldStay, OnTheSide
<1> QED
  BY <1>9, <1>10, <1>11, <1>12 DEF ForksSound

-----------------------------------------------------------------------------
(* Forks: an op is taken from the queue.                                 *)

\* Halves that have run out make no difference.
LEMMA NothingComes ==
    ASSUME NEW s, s.queue \in Seq(Seq(OpsOf(s.board))), Unplayed(s.queue) = <<>>
    PROVE  (\A i \in Nat : \A a : ~ Coming(s, i, a)) /\ ~ IsChar(s.queue)
<1>1. \A i : ~ FirstHalf(s.queue, i)
  BY UnplayedFirst
<1>2. \A j \in 1 .. Len(s.queue) : s.queue[j] = <<>>
  BY <1>1, UnplayedIs
<1>3. ASSUME NEW i \in Nat, NEW a, Coming(s, i, a) PROVE FALSE
  <2>1. PICK j \in i + 1 .. Len(s.queue) : Releases(s.queue[j], 0, a)
    BY <1>3 DEF Coming
  <2>2. s.queue[j] = <<>>
    BY <1>2, <2>1
  <2> QED
    BY <2>1, <2>2, NothingReleased
<1>4. ~ IsChar(s.queue)
  BY <1>1, IsCharIs
<1> QED
  BY <1>3, <1>4

\* The queue gets shorter at the front.
QueueMoved(s, u, n) ==
    /\ ForkTypes(n) /\ OnTheSide(s, n) /\ n.queue = u /\ n.macros = s.macros /\ n.char = s.char
    /\ n.lost = s.lost /\ n.cut = s.cut /\ n.caps = s.caps

LEMMA QueueMoves ==
    ASSUME NEW s, ForkTypes(s), NEW u \in Seq(Seq(OpsOf(s.board))),
           NEW n, n = [s EXCEPT !.queue = u]
    PROVE  QueueMoved(s, u, n)
<1>1. HasFields(s, ForkFields)
  BY DEF ForkTypes
<1>2. /\ HasFields(n, ForkFields) /\ OnTheSide(s, n) /\ n.caps = s.caps /\ n.queue = u
      /\ n.macros = s.macros /\ n.char = s.char /\ n.lost = s.lost /\ n.cut = s.cut
  BY <1>1 DEF HasFields, ForkFields, OnTheSide
<1>3. ForkTypes(n)
  BY <1>1, <1>2 DEF ForkTypes, OnTheSide
<1> QED
  BY <1>2, <1>3 DEF QueueMoved

\* The queue is empty: no op is found.
LEMMA QueueRunsOut ==
    ASSUME NEW s, ForksSound(s, {}), s.char = <<>>, Unplayed(s.queue) = <<>>,
           NEW n, n = [s EXCEPT !.queue = <<>>]
    PROVE  ForksSound(n, {})
<1>1. ForkTypes(s) /\ ForkParts(s, {}) /\ s.queue \in Seq(Seq(OpsOf(s.board)))
  BY DEF ForksSound, ForkParts, ForkTypes
<1>2. <<>> \in Seq(Seq(OpsOf(s.board)))
  BY EmptySeq
<1>3. /\ ForkTypes(n) /\ OnTheSide(s, n) /\ n.queue = <<>> /\ n.macros = s.macros /\ n.char = s.char
      /\ n.lost = s.lost /\ n.cut = s.cut
  <2>1. QueueMoved(s, <<>>, n)
    BY <1>1, <1>2, QueueMoves
  <2> QED
    BY <2>1 DEF QueueMoved
<1>4. ForkParts(n, {}) /\ (ModifiersShown(s) => ModifiersShown(n))
  BY <1>1, <1>3, SideParts
<1>5. (\A i \in Nat : \A a : ~ Coming(s, i, a)) /\ ~ IsChar(s.queue)
  BY <1>1, NothingComes
<1>6. TextRight(n)
  BY <1>3, <1>5 DEF ForksSound, TextRight, OnTheSide
<1>7. \A k : InPlace(n, k) = InPlace(s, k)
  BY <1>3, SameForks DEF OnTheSide
<1>8. ASSUME MacrosBalance PROVE EndsAhead(n, DueSlots(n, {}))
  <2> SUFFICES ASSUME ~ n.lost PROVE MacroKeysEnd(n, DueSlots(n, {})) /\ PressesEnd(n, DueSlots(n, {}))
    BY DEF EndsAhead
  <2>1. MacroKeysEnd(s, DueSlots(s, {}))
    BY <1>3, <1>8 DEF ForksSound, EndsAhead
  <2>2. DueSlots(n, {}) = DueSlots(s, {})
    BY <1>3, <1>7 DEF DueSlots, OnTheSide
  <2>3. \A a : Promised(n, DueSlots(n, {}), a) <=> Promised(s, DueSlots(s, {}), a)
    BY <1>3, <2>2 DEF Promised
  <2>4. \A a : ~ Coming(s, 0, a)
    BY <1>5
  <2>5. MacroKeysEnd(n, DueSlots(n, {}))
    BY <1>3, <2>1, <2>3, <2>4 DEF MacroKeysEnd, OnTheSide
  <2>6. PressesEnd(n, DueSlots(n, {}))
    <3>1. 1 .. Len(n.queue) = {}
      BY <1>3
    <3> QED
      BY <3>1 DEF PressesEnd
  <2> QED
    BY <2>5, <2>6
<1>9. ReportsHaveRoom => OneOfEach(n) /\ HeldStay(n)
  BY <1>3, <1>7 DEF ForksSound, OneOfEach, HeldStay, OnTheSide
<1> QED
  BY <1>4, <1>6, <1>8, <1>9 DEF ForksSound

\* Op o was taken from the queue, and has yet to play.
EndsBut(s, o, D) ==
    /\ PressesEnd(s, D)
    /\ \A r \in s.reg : r.src = FromMacro => Coming(s, 0, r) \/ Promised(s, D, r) \/ JustReleased(o, r)
    /\ o.op = "press" => /\ o.a.t # "macro"
                         /\ o.a.t = "key" => Coming(s, 0, o.a) \/ Promised(s, D, o.a)

Taken(s, o) ==
    /\ ForkParts(s, {})
    /\ s.char = <<>> /\ o \in OpsOf(s.board)
    /\ o.op # "char" => TextRight(s)
    /\ KeepersFireKeys => ModifiersShown(s)
    /\ MacrosBalance /\ ~ s.lost => EndsBut(s, o, DueSlots(s, {}))
    /\ ReportsHaveRoom => OneOfEach(s) /\ HeldStay(s)

\* Macros::next_op takes the op that plays.
LEMMA TakenRight ==
    ASSUME NEW s, ForksSound(s, {}), s.char = <<>>, Unplayed(s.queue) # <<>>,
           NEW n, n = [s EXCEPT !.queue = Popped(Unplayed(@))]
    PROVE  Taken(n, Head(Head(Unplayed(s.queue))))
<1> DEFINE q == s.queue
           u == Popped(Unplayed(q))
           o == Head(Head(Unplayed(q)))
<1>1. ForkTypes(s) /\ ForkParts(s, {}) /\ q \in Seq(Seq(OpsOf(s.board))) /\ HasFields(s, ForkFields)
  BY DEF ForksSound, ForkParts, ForkTypes
<1>2. PICK i : FirstHalf(q, i)
  BY <1>1, UnplayedIs
<1>3. o = q[i][1] /\ o \in OpsOf(s.board)
  BY <1>1, <1>2, UnplayedFirst
<1>4. u \in Seq(Seq(OpsOf(s.board)))
  BY <1>1, <1>2, PoppedIs
<1>5. Left(q, i, 1, u) /\ 1 <= Len(q[i]) /\ 1 \in 1 .. Len(q[i])
  BY <1>1, <1>2, PoppedIsLeft, UnplayedFirst
<1>6. n = [s EXCEPT !.queue = u]
  BY <1>1 DEF HasFields, ForkFields
<1>7. IsChar(q) => o.op = "char"
  <2>1. ASSUME IsChar(q) PROVE o.op = "char"
    BY <2>1 DEF IsChar
  <2> QED
    BY <2>1
<1> HIDE DEF u, o
<1>8. /\ ForkTypes(n) /\ OnTheSide(s, n) /\ n.queue = u /\ n.macros = s.macros /\ n.char = s.char
      /\ n.lost = s.lost /\ n.cut = s.cut
  <2>1. QueueMoved(s, u, n)
    BY <1>1, <1>4, <1>6, QueueMoves DEF u
  <2> QED
    BY <2>1 DEF QueueMoved
<1>9. ForkParts(n, {}) /\ (ModifiersShown(s) => ModifiersShown(n))
  BY <1>1, <1>8, SideParts
<1>10. o.op # "char" => TextRight(n)
  BY <1>7, <1>8 DEF ForksSound, TextRight, OnTheSide
<1>11. \A k : InPlace(n, k) = InPlace(s, k)
  <2>1. n.board = s.board /\ n.active = s.active
    BY <1>8 DEF OnTheSide
  <2> QED
    BY <2>1, SameForks
<1>12. ReportsHaveRoom => OneOfEach(n) /\ HeldStay(n)
  BY <1>8, <1>11 DEF ForksSound, OneOfEach, HeldStay, OnTheSide
<1>13. ASSUME MacrosBalance, ~ n.lost PROVE EndsBut(n, o, DueSlots(n, {}))
  <2> DEFINE D == DueSlots(n, {})
  <2>1. D = DueSlots(s, {})
    BY <1>8, <1>11 DEF DueSlots, OnTheSide
  <2>2. MacroKeysEnd(s, D) /\ PressesEnd(s, D)
    BY <1>8, <1>13, <2>1 DEF ForksSound, EndsAhead
  <2> HIDE DEF D
  <2>3. \A a : Promised(n, D, a) <=> Promised(s, D, a)
    BY <1>8 DEF Promised
  <2>4. PressesEnd(n, D)
    BY <1>5, <1>8, <2>2, LeftPresses
  <2>5. ASSUME NEW r \in n.reg, r.src = FromMacro
        PROVE  Coming(n, 0, r) \/ Promised(n, D, r) \/ JustReleased(o, r)
    <3>1. Coming(s, 0, r) \/ Promised(s, D, r)
      BY <1>8, <2>2, <2>5 DEF MacroKeysEnd, OnTheSide
    <3>2. Coming(s, 0, r) => Coming(n, 0, r) \/ JustReleased(q[i][1], r)
      BY <1>5, <1>8, LeftComing
    <3> QED
      BY <1>3, <2>3, <3>1, <3>2
  <2>6. ASSUME o.op = "press"
        PROVE  o.a.t # "macro" /\ (o.a.t = "key" => Coming(n, 0, o.a) \/ Promised(n, D, o.a))
    <3>1. i \in 1 .. Len(q)
      BY <1>2 DEF FirstHalf
    <3>2. /\ o.a.t # "macro"
          /\ o.a.t = "key" => Releases(q[i], 1, o.a) \/ Coming(s, i, o.a) \/ Promised(s, D, o.a)
      BY <1>3, <1>5, <2>2, <2>6, <3>1 DEF PressesEnd
    <3>3. Releases(q[i], 1, o.a) \/ Coming(s, i, o.a) => Coming(n, 0, o.a)
      BY <1>5, <1>8, LeftEnds
    <3> QED
      BY <2>3, <3>2, <3>3
  <2> QED
    BY <2>4, <2>5, <2>6 DEF EndsBut, D
<1>14. Taken(n, o)
  BY <1>3, <1>8, <1>9, <1>10, <1>12, <1>13 DEF Taken, ForksSound, OnTheSide
<1> QED
  BY <1>14 DEF o

\* An op that releases nothing leaves what is ahead ahead.
LEMMA TakenEnds ==
    ASSUME NEW s, NEW o, Taken(s, o), MacrosBalance, o.op # "release" \/ o.a.t # "key"
    PROVE  EndsAhead(s, DueSlots(s, {}))
BY DEF Taken, EndsBut, EndsAhead, MacroKeysEnd, JustReleased

\* The actions of ops name slots of the board.
LEMMA OpSlots ==
    ASSUME NEW b \in ForkBoards, NEW o \in OpsOf(b), o.op \in {"press", "release", "tap"}
    PROVE  Slotted(b, o.a)
<1>1. o.a \in ActionsOf(b)
  BY DEF ActionsOf
<1> QED
  BY <1>1, ForkBoardsAreWhole DEF Slotted

\* A key that an op presses is one that a report has room for.
LEMMA OpCodes ==
    ASSUME NEW b \in ForkBoards, NEW o \in OpsOf(b), o.op \in {"press", "tap"}, o.a.t = "key",
           o.a.code # NoCode
    PROVE  Expected(b, Event(FromMacro, o.a))
<1>1. o.a.code \in MacroCodes(b)
  BY DEF MacroCodes, HasCode
<1> QED
  BY <1>1, EventFacts DEF Expected

-----------------------------------------------------------------------------
(* Forks: an op plays.                                                   *)

\* After a report of a macro's key: keys that are down are as they were.
LEMMA MacroKeyStep ==
    ASSUME NEW s, NEW o, Taken(s, o), NEW n, AllShown(s, n, {}),
           \A r \in s.reg : r.src # FromMacro => \E q \in n.reg : q.src = r.src,
           ReportsHaveRoom => OneOfEach(n),
           MacrosBalance /\ ~ s.lost => MacroKeysEnd(n, DueSlots(s, {}))
    PROVE  ForksSound(n, {})
<1>1. ForkParts(n, {}) /\ ModifiersShown(n) /\ Untouched(s, n) /\ n.text = FALSE
  BY DEF AllShown
<1>2. /\ n.board = s.board /\ n.active = s.active /\ n.down = s.down /\ n.macros = s.macros
      /\ n.queue = s.queue /\ n.char = s.char /\ n.lost = s.lost
  BY <1>1 DEF Untouched
<1>3. \A k : InPlace(n, k) = InPlace(s, k)
  BY <1>2, SameForks
<1>4. ASSUME MacrosBalance PROVE EndsAhead(n, DueSlots(n, {}))
  <2> SUFFICES ASSUME ~ n.lost PROVE MacroKeysEnd(n, DueSlots(n, {})) /\ PressesEnd(n, DueSlots(n, {}))
    BY DEF EndsAhead
  <2>1. DueSlots(n, {}) = DueSlots(s, {})
    BY <1>2, <1>3 DEF DueSlots
  <2>2. PressesEnd(s, DueSlots(s, {}))
    BY <1>2, <1>4 DEF Taken, EndsBut
  <2>3. PressesEnd(n, DueSlots(s, {}))
    <3>1. \A i, a : Coming(n, i, a) <=> Coming(s, i, a)
      BY <1>2 DEF Coming
    <3>2. \A D, a : Promised(n, D, a) <=> Promised(s, D, a)
      BY <1>2 DEF Promised
    <3> QED
      BY <1>2, <2>2, <3>1, <3>2 DEF PressesEnd
  <2> QED
    BY <1>2, <1>4, <2>1, <2>3
<1>5. ASSUME ReportsHaveRoom PROVE OneOfEach(n) /\ HeldStay(n)
  <2>1. HeldStay(s) /\ s.board \in ForkBoards /\ s.down \subseteq DOMAIN s.board.keys
    BY <1>5 DEF Taken, ForkParts, ForkTypes
  <2> QED
    BY <1>2, <1>5, <2>1, HeldKept
<1> QED
  BY <1>1, <1>4, <1>5 DEF ForksSound, TextRight

\* What is ahead of a key stays ahead.
LEMMA StillAhead ==
    ASSUME NEW s, NEW n, Untouched(s, n), NEW D, NEW r, NEW q, r.code = q.code,
           q.code = NoCode => q.mods = r.mods, Coming(s, 0, r) \/ Promised(s, D, r)
    PROVE  Coming(n, 0, q) \/ Promised(n, D, q)
<1>1. Coming(s, 0, q) \/ Promised(s, D, q)
  BY SameKey
<1>2. n.queue = s.queue /\ n.macros = s.macros
  BY DEF Untouched
<1> QED
  BY <1>1, <1>2 DEF Coming, Promised

\* A macro releases keys by what they are.
LEMMA EventMatches ==
    ASSUME NEW e, e.src = FromMacro
    PROVE  /\ Matches(e, e)
           /\ \A r : r.src = FromMacro => (Matches(r, e) <=> Same(r, e))
BY DEF Matches, Same

\* fire_macro presses an action.
LEMMA PlayPress ==
    ASSUME NEW s, NEW o, Taken(s, o), o.op = "press",
           NEW n, n = NormalKey(s, FromMacro, o.a, TRUE)
    PROVE  ForksSound(n, {})
<1> DEFINE e == Event(FromMacro, o.a)
<1>1. e.src = FromMacro /\ e.code = o.a.code /\ e.mods = o.a.mods
  BY EventFacts
<1> HIDE DEF e
<1>2. ForkParts(s, {}) /\ ForkTypes(s) /\ s.board \in ForkBoards /\ o \in OpsOf(s.board) /\ TextRight(s)
  BY DEF Taken, ForkParts, ForkTypes
<1>3. CASE o.a.t = "key"
  <2>1. AllShown(s, n, {}) /\ Registered(s, n, e)
    BY <1>2, <1>3, KeyPressed DEF e
  <2>2. Untouched(s, n) /\ n.board = s.board
    BY <2>1 DEF AllShown, Untouched
  <2>3. \A r \in s.reg : r.src # FromMacro => \E q \in n.reg : q.src = r.src
    <3>1. \A r \in s.reg : r.src # FromMacro => ~ Matches(r, e)
      BY <1>1 DEF Matches
    <3> QED
      BY <2>1, <3>1 DEF Registered
  <2>4. ReportsHaveRoom => OneOfEach(n)
    BY <1>2, <1>3, <2>2, OpCodes, OneOfEachPressed DEF Taken
  <2>5. ASSUME MacrosBalance, ~ s.lost PROVE MacroKeysEnd(n, DueSlots(s, {}))
    <3> DEFINE D == DueSlots(s, {})
    <3>1. EndsBut(s, o, D)
      BY <2>5 DEF Taken
    <3> HIDE DEF D
    <3> SUFFICES ASSUME NEW q \in n.reg, q.src = FromMacro PROVE Coming(n, 0, q) \/ Promised(n, D, q)
      BY DEF MacroKeysEnd, D
    <3>2. CASE q = e
      <4>1. Coming(s, 0, o.a) \/ Promised(s, D, o.a)
        BY <1>3, <3>1 DEF EndsBut
      <4> QED
        BY <1>1, <2>2, <3>2, <4>1, StillAhead
    <3>3. CASE q # e
      <4>1. PICK r \in s.reg : r.src = FromMacro /\ r.code = q.code /\ (q.code = NoCode => q = r)
        BY <2>1, <3>3 DEF Registered
      <4>2. Coming(s, 0, r) \/ Promised(s, D, r)
        BY <3>1, <4>1 DEF EndsBut, JustReleased
      <4> QED
        BY <2>2, <4>1, <4>2, StillAhead
    <3> QED
      BY <3>2, <3>3
  <2> QED
    BY <2>1, <2>3, <2>4, <2>5, MacroKeyStep
<1>4. CASE o.a.t # "key"
  <2>1. Slotted(s.board, o.a)
    BY <1>2, OpSlots
  <2> DEFINE h == FirstHalfOf(s, o.a)
  <2>2. QueuesOnly(s, n, h)
    BY <1>2, <1>4, <2>1, OtherPressed
  <2>3. QueuesOnly(s, n, FirstHalfOf(s, o.a))
    BY <2>2
  <2>4. h \in Seq(OpsOf(s.board))
    BY <1>2, <2>1, SlotOps, EmptySeq DEF FirstHalfOf, Slotted
  <2> HIDE DEF h
  <2>5. ForkParts(n, {}) /\ (ModifiersShown(s) => ModifiersShown(n)) /\ TextRight(n)
    BY <1>2, <2>2, <2>4, QuietParts
  <2>6. n.board = s.board /\ n.active = s.active /\ n.down = s.down /\ n.reg = s.reg
    BY <2>2 DEF QueuesOnly, OnTheSide
  <2>7. \A j : InPlace(n, j) = InPlace(s, j)
    BY <2>6, SameForks
  <2>8. ASSUME MacrosBalance PROVE EndsAhead(n, DueSlots(n, {}))
    <3>1. CASE s.lost
      <4>1. n.lost
        BY <2>2, <3>1 DEF QueuesOnly, Joined
      <4> QED
        BY <4>1 DEF EndsAhead
    <3>2. CASE ~ s.lost
      <4>1. o.a.t # "macro"
        BY <2>8, <3>2 DEF Taken, EndsBut
      <4>2. EndsAhead(s, DueSlots(s, {}))
        BY <2>8, TakenEnds
      <4>3. DueSlots(s, {}) \subseteq DueSlots(n, {})
        <5>1. \A k \in s.down : k \in n.down /\ InPlace(n, k) = InPlace(s, k)
          BY <2>6, <2>7
        <5> QED
          BY <5>1, DueKept
      <4> QED
        BY <1>2, <2>1, <2>8, <2>3, <4>1, <4>2, <4>3, EndsAtPress, ZenonT(60)
    <3> QED
      BY <3>1, <3>2
  <2>9. ASSUME ReportsHaveRoom PROVE OneOfEach(n) /\ HeldStay(n)
    <3>1. OneOfEach(s) /\ HeldStay(s)
      BY <2>9 DEF Taken
    <3>2. OneOfEach(n)
      BY <2>6, <3>1, OneOfEachLess
    <3>3. HeldStay(n)
      BY <2>6, <2>7, <3>1 DEF HeldStay
    <3> QED
      BY <3>2, <3>3
  <2> QED
    BY <2>5, <2>8, <2>9 DEF ForksSound, Taken
<1> QED
  BY <1>3, <1>4

\* fire_macro releases one.
LEMMA PlayRelease ==
    ASSUME NEW s, NEW o, Taken(s, o), o.op = "release",
           NEW n, n = KeyUp(s, FromMacro, o.a)
    PROVE  ForksSound(n, {})
<1> DEFINE e == Event(FromMacro, o.a)
<1>1. e.src = FromMacro /\ e.code = o.a.code /\ e.mods = o.a.mods
  BY EventFacts
<1>2. ForkParts(s, {}) /\ ForkTypes(s) /\ s.board \in ForkBoards /\ o \in OpsOf(s.board) /\ TextRight(s)
  BY DEF Taken, ForkParts, ForkTypes
<1>3. CASE o.a.t = "key"
  <2>1. AllShown(s, n, {}) /\ n.reg = Unmatched(s, e)
    BY <1>2, <1>3, KeyReleased
  <2> HIDE DEF e
  <2>2. Untouched(s, n) /\ n.board = s.board
    BY <2>1 DEF AllShown, Untouched
  <2>3. \A r \in s.reg : r.src # FromMacro => r \in n.reg
    BY <1>1, <2>1 DEF Unmatched, Matches
  <2>4. n.reg \subseteq s.reg
    BY <2>1 DEF Unmatched
  <2>5. ReportsHaveRoom => OneOfEach(n)
    BY <2>2, <2>4, OneOfEachLess DEF Taken
  <2>6. ASSUME MacrosBalance, ~ s.lost PROVE MacroKeysEnd(n, DueSlots(s, {}))
    <3> DEFINE D == DueSlots(s, {})
    <3>1. EndsBut(s, o, D)
      BY <2>6 DEF Taken
    <3> HIDE DEF D
    <3> SUFFICES ASSUME NEW q \in n.reg, q.src = FromMacro PROVE Coming(n, 0, q) \/ Promised(n, D, q)
      BY DEF MacroKeysEnd, D
    <3>2. q \in s.reg /\ ~ Matches(q, e)
      BY <2>1 DEF Unmatched
    <3>3. ~ JustReleased(o, q)
      BY <1>1, <3>2 DEF Matches, JustReleased, Same
    <3>4. Coming(s, 0, q) \/ Promised(s, D, q)
      BY <3>1, <3>2, <3>3 DEF EndsBut
    <3> QED
      BY <2>2, <3>4, StillAhead
  <2> QED
    BY <2>1, <2>3, <2>5, <2>6, MacroKeyStep
<1>4. CASE o.a.t # "key"
  <2>1. Slotted(s.board, o.a)
    BY <1>2, OpSlots
  <2> DEFINE h == SecondHalfOf(s, o.a)
  <2>2. QueuesOnly(s, n, h)
    BY <1>2, <1>4, <2>1, OtherReleased DEF KeyUp
  <2>3. h \in Seq(OpsOf(s.board))
    BY <1>2, <2>1, SlotOps, EmptySeq DEF SecondHalfOf, Slotted
  <2> HIDE DEF h
  <2>4. ForkParts(n, {}) /\ (ModifiersShown(s) => ModifiersShown(n)) /\ TextRight(n)
    BY <1>2, <2>2, <2>3, QuietParts
  <2>5. n.board = s.board /\ n.active = s.active /\ n.down = s.down /\ n.reg = s.reg
    BY <2>2 DEF QueuesOnly, OnTheSide
  <2>6. \A j : InPlace(n, j) = InPlace(s, j)
    BY <2>5, SameForks
  <2>7. ASSUME MacrosBalance PROVE EndsAhead(n, DueSlots(n, {}))
    <3>1. EndsAhead(s, DueSlots(s, {}))
      BY <1>4, <2>7, TakenEnds
    <3>2. DueSlots(s, {}) \subseteq DueSlots(n, {})
      BY <2>5, <2>6, DueKept
    <3> QED
      BY <1>2, <2>1, <2>2, <2>7, <3>1, <3>2, EndsAtRelease DEF h
  <2>8. ASSUME ReportsHaveRoom PROVE OneOfEach(n) /\ HeldStay(n)
    <3>1. OneOfEach(s) /\ HeldStay(s)
      BY <2>8 DEF Taken
    <3>2. OneOfEach(n)
      BY <2>5, <3>1, OneOfEachLess
    <3>3. HeldStay(n)
      BY <2>5, <2>6, <3>1 DEF HeldStay
    <3> QED
      BY <3>2, <3>3
  <2> QED
    BY <2>4, <2>7, <2>8 DEF ForksSound, Taken
<1> QED
  BY <1>3, <1>4

\* The press of an op.
KeyDown(s, src, a) == NormalKey(s, src, a, TRUE)

LEMMA KeyWentDown ==
    ASSUME NEW s, ForkParts(s, {}), NEW a, a.t = "key", NEW n, n = KeyDown(s, FromMacro, a)
    PROVE  AllShown(s, n, {}) /\ Registered(s, n, Event(FromMacro, a))
BY KeyPressed DEF KeyDown

LEMMA OtherWentDown ==
    ASSUME NEW s, ForkTypes(s), NEW src, NEW a, a.t # "key", Slotted(s.board, a),
           NEW n, n = KeyDown(s, src, a)
    PROVE  QueuesOnly(s, n, FirstHalfOf(s, a))
BY OtherPressed DEF KeyDown

LEMMA OneOfEachDown ==
    ASSUME ReportsHaveRoom, NEW s, ForkTypes(s), OneOfEach(s), NEW src, NEW a, a.t = "key",
           NEW n, n = KeyDown(s, src, a), n.board = s.board,
           a.code # NoCode => Expected(s.board, Event(src, a))
    PROVE  OneOfEach(n)
BY OneOfEachPressed DEF KeyDown

\* fire_macro taps an action.
LEMMA PlayTap ==
    ASSUME NEW s, NEW o, Taken(s, o), o.op = "tap",
           NEW x, x = KeyDown(s, FromMacro, o.a), NEW n, n = KeyUp(x, FromMacro, o.a)
    PROVE  ForksSound(n, {})
<1> DEFINE e == Event(FromMacro, o.a)
<1>1. e.src = FromMacro /\ e.code = o.a.code /\ e.mods = o.a.mods
  BY EventFacts
<1>2. ForkParts(s, {}) /\ ForkTypes(s) /\ s.board \in ForkBoards /\ o \in OpsOf(s.board) /\ TextRight(s)
  BY DEF Taken, ForkParts, ForkTypes
<1>3. CASE o.a.t = "key"
  <2>1. AllShown(s, x, {}) /\ Registered(s, x, e)
    BY <1>2, <1>3, KeyWentDown
  <2>2. ForkParts(x, {}) /\ Untouched(s, x) /\ x.board = s.board
    BY <2>1 DEF AllShown, Untouched
  <2>3. AllShown(x, n, {}) /\ n.reg = Unmatched(x, e)
    BY <1>3, <2>2, KeyReleased
  <2>4. ReportsHaveRoom => OneOfEach(x)
    BY <1>2, <1>3, <2>2, OpCodes, OneOfEachDown DEF Taken
  <2> HIDE DEF e
  <2>5. Untouched(x, n) /\ n.board = x.board
    BY <2>3 DEF AllShown, Untouched
  <2>6. AllShown(s, n, {})
    BY <2>2, <2>3 DEF AllShown, Untouched
  <2>7. Untouched(s, n)
    BY <2>6 DEF AllShown
  <2>8. n.reg \subseteq x.reg /\ \A r \in n.reg : ~ Matches(r, e)
    BY <2>3 DEF Unmatched
  <2>9. ReportsHaveRoom => OneOfEach(n)
    BY <2>4, <2>5, <2>8, OneOfEachLess
  <2>10. \A r \in s.reg : r.src # FromMacro => \E q \in n.reg : q.src = r.src
    <3>1. \A r \in s.reg : r.src # FromMacro => ~ Matches(r, e)
      BY <1>1 DEF Matches
    <3>2. \A r \in s.reg : r.src # FromMacro => \E q \in x.reg : q.src = r.src
      BY <2>1, <3>1 DEF Registered
    <3>3. \A q \in x.reg : q.src # FromMacro => q \in n.reg
      BY <1>1, <2>3 DEF Unmatched, Matches
    <3> QED
      BY <3>2, <3>3
  <2>11. ASSUME MacrosBalance, ~ s.lost PROVE MacroKeysEnd(n, DueSlots(s, {}))
    <3> DEFINE D == DueSlots(s, {})
    <3>1. EndsBut(s, o, D)
      BY <2>11 DEF Taken
    <3> HIDE DEF D
    <3> SUFFICES ASSUME NEW q \in n.reg, q.src = FromMacro PROVE Coming(n, 0, q) \/ Promised(n, D, q)
      BY DEF MacroKeysEnd, D
    <3>2. q # e
      BY <1>1, <2>8, EventMatches
    <3>3. PICK r \in s.reg : r.src = FromMacro /\ r.code = q.code /\ (q.code = NoCode => q = r)
      BY <2>1, <2>8, <3>2 DEF Registered
    <3>4. Coming(s, 0, r) \/ Promised(s, D, r)
      BY <3>1, <3>3 DEF EndsBut, JustReleased
    <3> QED
      BY <2>7, <3>3, <3>4, StillAhead
  <2> QED
    BY <2>6, <2>9, <2>10, <2>11, MacroKeyStep
<1>4. CASE o.a.t # "key"
  <2>1. Slotted(s.board, o.a)
    BY <1>2, OpSlots
  <2> DEFINE h == FirstHalfOf(s, o.a)
             g == SecondHalfOf(x, o.a)
  <2>2. QueuesOnly(s, x, h)
    BY <1>2, <1>4, <2>1, OtherWentDown
  <2>3. h \in Seq(OpsOf(s.board))
    BY <1>2, <2>1, SlotOps, EmptySeq DEF FirstHalfOf, Slotted
  <2>4. x.board = s.board /\ x.active = s.active /\ x.down = s.down /\ x.reg = s.reg /\ ForkTypes(x)
    BY <2>2 DEF QueuesOnly, OnTheSide
  <2>5. QueuesOnly(x, n, g)
    BY <1>4, <2>1, <2>4, OtherReleased DEF KeyUp
  <2>6. g \in Seq(OpsOf(x.board))
    BY <2>1, <2>4, SlotOps, EmptySeq DEF SecondHalfOf, Slotted
  <2> HIDE DEF h, g
  <2>7. ForkParts(x, {}) /\ (ModifiersShown(s) => ModifiersShown(x)) /\ TextRight(x)
    BY <1>2, <2>2, <2>3, QuietParts
  <2>8. ForkParts(n, {}) /\ (ModifiersShown(x) => ModifiersShown(n)) /\ TextRight(n)
    BY <2>5, <2>6, <2>7, QuietParts
  <2>9. n.board = s.board /\ n.active = s.active /\ n.down = s.down /\ n.reg = s.reg
    BY <2>4, <2>5 DEF QueuesOnly, OnTheSide
  <2>10. \A j : InPlace(n, j) = InPlace(s, j)
    BY <2>9, SameForks
  <2>11. ASSUME MacrosBalance PROVE EndsAhead(n, DueSlots(n, {}))
    <3> DEFINE D == DueSlots(s, {})
               D2 == D \union {slot \in {o.a.slot} : o.a.t = "macro"}
    <3>1. EndsAhead(s, D)
      BY <2>11, TakenEnds
    <3>2. D \subseteq D2 /\ (o.a.t = "macro" => o.a.slot \in D2)
      OBVIOUS
    <3>3. \A slot \in D2 : slot \in D \/ (o.a.t = "macro" /\ slot = o.a.slot)
      OBVIOUS
    <3>4. D \subseteq DueSlots(n, {})
      BY <2>9, <2>10, DueKept
    <3> HIDE DEF D, D2
    <3>5. EndsAhead(x, D2)
      BY <1>2, <2>1, <2>2, <2>11, <3>1, <3>2, EndsAtPress DEF h
    <3>6. Slotted(x.board, o.a)
      BY <2>1, <2>4
    <3> DEFINE D3 == DueSlots(n, {})
    <3>7. \A slot \in D2 : slot \in D3 \/ (o.a.t = "macro" /\ slot = o.a.slot)
      BY <3>3, <3>4
    <3> HIDE DEF D3
    <3>8. EndsAhead(n, D3)
      BY <2>4, <2>5, <2>11, <3>5, <3>6, <3>7, EndsAtRelease DEF g
    <3> QED
      BY <3>8 DEF D3
  <2>12. ASSUME ReportsHaveRoom PROVE OneOfEach(n) /\ HeldStay(n)
    <3>1. OneOfEach(s) /\ HeldStay(s)
      BY <2>12 DEF Taken
    <3>2. OneOfEach(n)
      BY <2>9, <3>1, OneOfEachLess
    <3>3. HeldStay(n)
      BY <2>9, <2>10, <3>1 DEF HeldStay
    <3> QED
      BY <3>2, <3>3
  <2> QED
    BY <2>7, <2>8, <2>11, <2>12 DEF ForksSound, Taken
<1> QED
  BY <1>3, <1>4

\* A key that there is room for joins the others.
LEMMA OneOfEachJoined ==
    ASSUME ReportsHaveRoom, NEW s, ForkTypes(s), OneOfEach(s), NEW e, Expected(s.board, e),
           NEW n, n.board = s.board, n.reg = RegisterKey(s, e).reg
    PROVE  OneOfEach(n)
<1>1. /\ s.board \in ForkBoards /\ HasFields(s, ForkFields)
      /\ \A r \in s.reg : HasFields(r, {"src", "code", "mods"})
  BY DEF ForkTypes
<1>2. e.code = NoCode \/ ~ (Cardinality({r \in Unmatched(s, e) : r.code # NoCode}) >= KeycodeSlots)
  BY <1>1, RoomThere
<1>3. PICK p : p = RegisterKey(s, e)
  OBVIOUS
<1>4. Joining(s, n, e)
  BY <1>1, <1>2, <1>3, RegisteredThere DEF Joining
<1> QED
  BY <1>1, <1>4, OneOfEachKept

\* The first half of a character.
LEMMA PlayChar ==
    ASSUME NEW s, NEW o, Taken(s, o), o.op = "char", NEW m, m = [s EXCEPT !.char = <<o>>],
           NEW e, e = Event(FromMacro, Coded(o.code, {})),
           NEW n, n = CharShown(RegisterKey(m, e), o.mods)
    PROVE  ForksSound(n, {})
<1>1. /\ ForkParts(s, {}) /\ ForkTypes(s) /\ s.board \in ForkBoards /\ o \in OpsOf(s.board)
      /\ HasFields(s, ForkFields)
  BY DEF Taken, ForkParts, ForkTypes
<1>2. e.src = FromMacro /\ e.code = o.code /\ e.mods = {} /\ HasFields(e, {"src", "code", "mods"})
  BY EventFacts DEF Coded
<1>3. /\ HasFields(m, ForkFields) /\ OnTheSide(s, m) /\ m.caps = s.caps /\ m.char = <<o>>
      /\ m.macros = s.macros /\ m.queue = s.queue /\ m.lost = s.lost /\ m.cut = s.cut
  BY <1>1 DEF HasFields, ForkFields, OnTheSide
<1>4. ForkTypes(m)
  BY <1>1, <1>3 DEF ForkTypes, OnTheSide
<1>5. ForkParts(m, {})
  BY <1>1, <1>3, <1>4, SideParts
<1>6. ForkParts(n, {}) /\ Untouched(m, n) /\ n.text /\ Registered(m, n, e)
  BY <1>2, <1>5, CharPressed
<1>7. /\ n.board = s.board /\ n.active = s.active /\ n.down = s.down /\ n.macros = s.macros
      /\ n.queue = s.queue /\ n.char = <<o>> /\ n.lost = s.lost /\ m.reg = s.reg /\ m.board = s.board
  BY <1>3, <1>6 DEF Untouched, OnTheSide
<1>8. n.char # <<>> /\ n.char[1] = o
  <2>1. <<o>> # <<>> /\ <<o>>[1] = o
    OBVIOUS
  <2> QED
    BY <1>7, <2>1, Zenon
<1>9. ModifiersShown(n) /\ TextRight(n)
  BY <1>6, <1>8 DEF ModifiersShown, TextRight
<1>10. \A k : InPlace(n, k) = InPlace(s, k)
  BY <1>7, SameForks
<1>11. ASSUME MacrosBalance PROVE EndsAhead(n, DueSlots(n, {}))
  <2> DEFINE D == DueSlots(s, {})
  <2> SUFFICES ASSUME ~ n.lost PROVE MacroKeysEnd(n, D) /\ PressesEnd(n, D)
    <3>1. DueSlots(n, {}) = D
      BY <1>7, <1>10 DEF DueSlots
    <3> QED
      BY <3>1 DEF EndsAhead
  <2>1. EndsBut(s, o, D)
    BY <1>7, <1>11 DEF Taken
  <2> HIDE DEF D
  <2>2. \A i, a : Coming(n, i, a) <=> Coming(s, i, a)
    BY <1>7 DEF Coming
  <2>3. \A a : Promised(n, D, a) <=> Promised(s, D, a)
    BY <1>7 DEF Promised
  <2>4. PressesEnd(n, D)
    <3>1. PressesEnd(s, D)
      BY <2>1 DEF EndsBut
    <3> QED
      BY <1>7, <2>2, <2>3, <3>1 DEF PressesEnd
  <2>5. ASSUME NEW q \in n.reg, q.src = FromMacro
        PROVE  Coming(n, 0, q) \/ Promised(n, D, q) \/ Same(q, Coded(n.char[1].code, {}))
    <3>1. CASE q = e
      BY <1>2, <1>8, <3>1 DEF Same, Coded
    <3>2. CASE q # e
      <4>1. PICK r \in s.reg : r.src = FromMacro /\ r.code = q.code /\ (q.code = NoCode => q = r)
        BY <1>6, <1>7, <2>5, <3>2 DEF Registered
      <4>2. Coming(s, 0, r) \/ Promised(s, D, r)
        BY <2>1, <4>1 DEF EndsBut, JustReleased
      <4>3. Coming(s, 0, q) \/ Promised(s, D, q)
        BY <4>1, <4>2, SameKey
      <4> QED
        BY <2>2, <2>3, <4>3
    <3> QED
      BY <3>1, <3>2
  <2> QED
    BY <1>8, <2>4, <2>5 DEF MacroKeysEnd
<1>12. ASSUME ReportsHaveRoom PROVE OneOfEach(n) /\ HeldStay(n)
  <2>1. OneOfEach(s) /\ HeldStay(s)
    BY <1>12 DEF Taken
  <2>2. Expected(s.board, e)
    <3>1. o.code \in MacroCodes(s.board)
      BY <1>1 DEF MacroCodes
    <3> QED
      BY <1>2, <3>1 DEF Expected
  <2>3. OneOfEach(m) /\ n.board = m.board /\ Expected(m.board, e)
    BY <1>7, <2>1, <2>2, OneOfEachLess
  <2>4. TextShown(RegisterKey(m, e), o.mods, n)
    <3>1. PICK p : p = RegisterKey(m, e)
      OBVIOUS
    <3>2. \A r \in m.reg : HasFields(r, {"src", "code", "mods"})
      BY <1>4 DEF ForkTypes
    <3>3. HasFields(p, ForkFields)
      BY <1>3, <3>1, <3>2, RegisterFacts DEF Untouched
    <3>4. n = CharShown(p, o.mods)
      BY <3>1
    <3> QED
      BY <3>1, <3>3, <3>4, TextFacts
  <2>5. n.reg = RegisterKey(m, e).reg
    BY <2>4 DEF TextShown
  <2>6. OneOfEach(n)
    BY <1>4, <1>12, <2>3, <2>5, OneOfEachJoined
  <2>7. HeldStay(n)
    <3>1. s.down \subseteq DOMAIN s.board.keys
      BY <1>1 DEF ForkTypes
    <3>2. \A r \in s.reg : r.src # FromMacro => ~ Matches(r, e)
      BY <1>2 DEF Matches
    <3>3. \A r \in s.reg : r.src # FromMacro => \E q \in n.reg : q.src = r.src
      BY <1>6, <1>7, <3>2 DEF Registered
    <3> QED
      BY <1>1, <1>7, <2>1, <3>1, <3>3, HeldKept
  <2> QED
    BY <2>6, <2>7
<1> QED
  BY <1>6, <1>9, <1>11, <1>12 DEF ForksSound

-----------------------------------------------------------------------------
(* Forks: a character ends.                                              *)

\* The end of a character, before the held modifiers come back.
CharOut(s, y) ==
    /\ ForkParts(y, {}) /\ y.text /\ y.char = <<>>
    /\ y.board = s.board /\ y.active = s.active /\ y.down = s.down
    /\ y.macros = s.macros /\ y.queue = s.queue /\ y.lost = s.lost
    /\ \A r \in y.reg : r \in s.reg
                        /\ (r.src = FromMacro => Coming(s, 0, r) \/ Promised(s, DueSlots(s, {}), r)
                                                 \/ ~ MacrosBalance \/ s.lost)
    /\ \A r \in s.reg : r.src # FromMacro => r \in y.reg

LEMMA CharGoesOut ==
    ASSUME NEW s, ForksSound(s, {}), NEW o, s.char = <<o>>,
           NEW m, m = [s EXCEPT !.char = <<>>],
           NEW e, e = Event(FromMacro, Coded(o.code, {})),
           NEW y, y = CharShown(UnregisterKey(m, e), o.mods)
    PROVE  CharOut(s, y)
<1>1. ForkParts(s, {}) /\ ForkTypes(s) /\ HasFields(s, ForkFields)
  BY DEF ForksSound, ForkParts, ForkTypes
<1>2. e.src = FromMacro /\ e.code = o.code /\ e.mods = {}
  BY EventFacts DEF Coded
<1>3. /\ HasFields(m, ForkFields) /\ OnTheSide(s, m) /\ m.caps = s.caps /\ m.char = <<>>
      /\ m.macros = s.macros /\ m.queue = s.queue /\ m.lost = s.lost /\ m.cut = s.cut
  BY <1>1 DEF HasFields, ForkFields, OnTheSide
<1>4. ForkTypes(m)
  BY <1>1, <1>3 DEF ForkTypes, OnTheSide
<1>5. ForkParts(m, {})
  BY <1>1, <1>3, <1>4, SideParts
<1>6. ForkParts(y, {}) /\ Untouched(m, y) /\ y.text /\ y.reg = Unmatched(m, e)
  BY <1>5, CharReleased
<1>7. /\ y.board = s.board /\ y.active = s.active /\ y.down = s.down /\ y.macros = s.macros
      /\ y.queue = s.queue /\ y.char = <<>> /\ y.lost = s.lost /\ m.reg = s.reg
  BY <1>3, <1>6 DEF Untouched, OnTheSide
<1>8. y.reg = {r \in s.reg : ~ Matches(r, e)}
  BY <1>6, <1>7 DEF Unmatched
<1>9. ASSUME NEW r \in y.reg, r.src = FromMacro, MacrosBalance, ~ s.lost
      PROVE  Coming(s, 0, r) \/ Promised(s, DueSlots(s, {}), r)
  <2>1. MacroKeysEnd(s, DueSlots(s, {}))
    BY <1>9 DEF ForksSound, EndsAhead
  <2>2. r \in s.reg /\ ~ Matches(r, e)
    BY <1>8, <1>9
  <2>3. <<o>>[1] = o
    OBVIOUS
  <2>4. ~ Same(r, Coded(s.char[1].code, {}))
    BY <1>2, <1>9, <2>2, <2>3 DEF Matches, Same, Coded
  <2> QED
    BY <1>9, <2>1, <2>2, <2>4 DEF MacroKeysEnd
<1>10. \A r \in s.reg : r.src # FromMacro => r \in y.reg
  BY <1>2, <1>8 DEF Matches
<1> QED
  BY <1>6, <1>7, <1>8, <1>9, <1>10 DEF CharOut

\* What is ahead stays ahead when halves that have run out go.
LEMMA EndsAtLook ==
    ASSUME NEW s, ForkTypes(s), s.char = <<>>, NEW D, EndsAhead(s, D),
           NEW n, QueueMoved(s, Unplayed(s.queue), n)
    PROVE  EndsAhead(n, D)
<1> SUFFICES ASSUME ~ n.lost PROVE MacroKeysEnd(n, D) /\ PressesEnd(n, D)
  BY DEF EndsAhead
<1>1. n.queue = Unplayed(s.queue) /\ n.macros = s.macros /\ n.reg = s.reg /\ n.lost = s.lost
  BY DEF QueueMoved, OnTheSide
<1>2. MacroKeysEnd(s, D) /\ PressesEnd(s, D)
  BY <1>1 DEF EndsAhead
<1>3. s.queue \in Seq(Seq(OpsOf(s.board)))
  BY DEF ForkTypes
<1>4. \A a : Promised(n, D, a) <=> Promised(s, D, a)
  BY <1>1 DEF Promised
<1>5. CASE n.queue = <<>>
  <2>1. \A a : ~ Coming(s, 0, a)
    BY <1>1, <1>3, <1>5, NothingComes
  <2>2. MacroKeysEnd(n, D)
    BY <1>1, <1>2, <1>4, <2>1 DEF MacroKeysEnd
  <2>3. 1 .. Len(n.queue) = {}
    BY <1>5
  <2> QED
    BY <2>2, <2>3 DEF PressesEnd
<1>6. CASE n.queue # <<>>
  <2>1. PICK i : FirstHalf(s.queue, i)
    BY <1>1, <1>3, <1>6, UnplayedIs
  <2>2. Left(s.queue, i, 0, n.queue)
    BY <1>1, <1>3, <2>1, UnplayedIsLeft
  <2>3. PressesEnd(n, D)
    BY <1>1, <1>2, <2>2, LeftPresses
  <2>4. ASSUME NEW a, Coming(s, 0, a) PROVE Coming(n, 0, a)
    <3>1. PICK e : e = 0
      OBVIOUS
    <3>2. Left(s.queue, i, e, n.queue) /\ e # 1
      BY <2>2, <3>1
    <3> QED
      BY <2>4, <3>2, LeftComing
  <2> QED
    BY <1>1, <1>2, <1>4, <2>3, <2>4 DEF MacroKeysEnd
<1> QED
  BY <1>5, <1>6

\* With the character out, everything but the text is as it should be.
LEMMA CharOutRight ==
    ASSUME NEW s, ForksSound(s, {}), NEW y, CharOut(s, y)
    PROVE  /\ MacrosBalance => EndsAhead(y, DueSlots(y, {}))
           /\ ReportsHaveRoom => OneOfEach(y) /\ HeldStay(y)
<1>1. ForkTypes(s) /\ s.board \in ForkBoards /\ s.down \subseteq DOMAIN s.board.keys
  BY DEF ForksSound, ForkParts, ForkTypes
<1>2. /\ y.board = s.board /\ y.active = s.active /\ y.down = s.down
      /\ y.macros = s.macros /\ y.queue = s.queue /\ y.lost = s.lost /\ y.reg \subseteq s.reg
  BY DEF CharOut
<1>3. \A k : InPlace(y, k) = InPlace(s, k)
  BY <1>2, SameForks
<1>4. ASSUME MacrosBalance PROVE EndsAhead(y, DueSlots(y, {}))
  <2> DEFINE D == DueSlots(s, {})
  <2> SUFFICES ASSUME ~ y.lost PROVE MacroKeysEnd(y, D) /\ PressesEnd(y, D)
    <3>1. DueSlots(y, {}) = D
      BY <1>2, <1>3 DEF DueSlots
    <3> QED
      BY <3>1 DEF EndsAhead
  <2>1. PressesEnd(s, D)
    BY <1>2, <1>4 DEF ForksSound, EndsAhead
  <2>2. \A r \in y.reg : r.src = FromMacro => Coming(s, 0, r) \/ Promised(s, D, r)
    BY <1>2, <1>4 DEF CharOut
  <2> HIDE DEF D
  <2>3. \A i, a : Coming(y, i, a) <=> Coming(s, i, a)
    BY <1>2 DEF Coming
  <2>4. \A a : Promised(y, D, a) <=> Promised(s, D, a)
    BY <1>2 DEF Promised
  <2>5. PressesEnd(y, D)
    BY <1>2, <2>1, <2>3, <2>4 DEF PressesEnd
  <2> QED
    BY <2>2, <2>3, <2>4, <2>5 DEF MacroKeysEnd
<1>5. ASSUME ReportsHaveRoom PROVE OneOfEach(y) /\ HeldStay(y)
  <2>1. OneOfEach(s) /\ HeldStay(s)
    BY <1>5 DEF ForksSound
  <2>2. OneOfEach(y)
    BY <1>2, <2>1, OneOfEachLess
  <2>3. \A r \in s.reg : r.src # FromMacro => \E q \in y.reg : q.src = r.src
    BY DEF CharOut
  <2> QED
    BY <1>1, <1>2, <2>1, <2>2, <2>3, HeldKept
<1> QED
  BY <1>4, <1>5

\* The report that gives the held modifiers back.
LEMMA CharReported ==
    ASSUME NEW y, ForkParts(y, {}), y.char = <<>>,
           MacrosBalance => EndsAhead(y, DueSlots(y, {})),
           ReportsHaveRoom => OneOfEach(y) /\ HeldStay(y),
           NEW z, QueueMoved(y, Unplayed(y.queue), z), NEW n, n = Report(z)
    PROVE  ForksSound(n, {})
<1>1. ForkTypes(z) /\ OnTheSide(y, z) /\ HasFields(z, ForkFields)
  BY DEF QueueMoved, ForkTypes
<1>2. ForkParts(z, {})
  BY <1>1, SideParts
<1>3. Lessened(z, z)
  BY <1>1 DEF Lessened, Untouched
<1>4. AllShown(z, n, {}) /\ n.reg = z.reg
  BY <1>2, <1>3, ReportSent
<1>5. ForkParts(n, {}) /\ ModifiersShown(n) /\ TextRight(n) /\ Untouched(z, n)
  BY <1>4 DEF AllShown, TextRight
<1>6. /\ z.board = y.board /\ z.active = y.active /\ z.down = y.down /\ z.reg = y.reg
      /\ n.board = z.board /\ n.active = z.active /\ n.down = z.down /\ n.reg = z.reg
      /\ n.macros = z.macros /\ n.queue = z.queue /\ n.char = z.char /\ n.lost = z.lost
      /\ z.char = <<>>
  BY <1>1, <1>4, <1>5 DEF OnTheSide, Untouched, QueueMoved
<1>7. \A k : InPlace(z, k) = InPlace(y, k) /\ InPlace(n, k) = InPlace(y, k)
  BY <1>6, SameForks
<1>8. ASSUME MacrosBalance PROVE EndsAhead(n, DueSlots(n, {}))
  <2> DEFINE D == DueSlots(y, {})
  <2>1. DueSlots(n, {}) = D
    BY <1>6, <1>7 DEF DueSlots
  <2>2. EndsAhead(y, D) /\ ForkTypes(y)
    BY <1>8 DEF ForkParts
  <2> HIDE DEF D
  <2>3. EndsAhead(z, D)
    BY <2>2, EndsAtLook
  <2>4. \A i, a : Coming(n, i, a) <=> Coming(z, i, a)
    BY <1>6 DEF Coming
  <2>5. \A a : Promised(n, D, a) <=> Promised(z, D, a)
    BY <1>6 DEF Promised
  <2>6. EndsAhead(n, D)
    BY <1>6, <2>3, <2>4, <2>5 DEF EndsAhead, MacroKeysEnd, PressesEnd
  <2> QED
    BY <2>1, <2>6
<1>9. ASSUME ReportsHaveRoom PROVE OneOfEach(n) /\ HeldStay(n)
  <2>1. OneOfEach(y) /\ HeldStay(y)
    BY <1>9
  <2>2. OneOfEach(n)
    BY <1>6, <2>1, OneOfEachLess
  <2>3. HeldStay(n)
    BY <1>6, <1>7, <2>1 DEF HeldStay
  <2> QED
    BY <2>2, <2>3
<1> QED
  BY <1>5, <1>8, <1>9 DEF ForksSound

\* fire_macro after the 10ms of a character.
LEMMA CharStep ==
    ASSUME NEW s, ForksSound(s, {}), s.char # <<>>, NEW n, n = CharEnds(s)
    PROVE  ForksSound(n, {})
<1>1. ForkParts(s, {}) /\ ForkTypes(s)
  BY DEF ForksSound, ForkParts
<1>2. PICK o : s.char = <<o>>
  BY <1>1 DEF ForkTypes
<1>3. PICK m : m = [s EXCEPT !.char = <<>>]
  OBVIOUS
<1>4. PICK e : e = Event(FromMacro, Coded(o.code, {}))
  OBVIOUS
<1>5. PICK y : y = CharShown(UnregisterKey(m, e), o.mods)
  OBVIOUS
<1>6. Head(s.char) = o
  BY <1>2
<1>7. n = IF IsChar(y.queue) THEN y ELSE Report([y EXCEPT !.queue = Unplayed(@)])
  BY <1>3, <1>4, <1>5, <1>6 DEF CharEnds, CharShown, Report
<1>8. CharOut(s, y)
  BY <1>2, <1>3, <1>4, <1>5, CharGoesOut
<1>9. /\ MacrosBalance => EndsAhead(y, DueSlots(y, {}))
      /\ ReportsHaveRoom => OneOfEach(y) /\ HeldStay(y)
  BY <1>8, CharOutRight
<1>10. ForkParts(y, {}) /\ ForkTypes(y) /\ HasFields(y, ForkFields) /\ y.text /\ y.char = <<>>
  BY <1>8 DEF CharOut, ForkParts, ForkTypes
<1>11. CASE IsChar(y.queue)
  <2>1. n = y
    BY <1>7, <1>11
  <2>2. ModifiersShown(y) /\ TextRight(y)
    BY <1>10, <1>11 DEF ModifiersShown, TextRight
  <2> QED
    BY <1>9, <1>10, <2>1, <2>2 DEF ForksSound
<1>12. CASE ~ IsChar(y.queue)
  <2>1. y.queue \in Seq(Seq(OpsOf(y.board)))
    BY <1>10 DEF ForkTypes
  <2>2. Unplayed(y.queue) \in Seq(Seq(OpsOf(y.board)))
    <3>1. CASE \E i : FirstHalf(y.queue, i)
      BY <2>1, <3>1, UnplayedFirst
    <3>2. CASE \A i : ~ FirstHalf(y.queue, i)
      BY <2>1, <3>2, UnplayedIs, EmptySeq
    <3> QED
      BY <3>1, <3>2
  <2>3. PICK z : z = [y EXCEPT !.queue = Unplayed(y.queue)]
    OBVIOUS
  <2>4. QueueMoved(y, Unplayed(y.queue), z)
    BY <1>10, <2>2, <2>3, QueueMoves
  <2>5. n = Report(z)
    BY <1>7, <1>12, <2>3
  <2> QED
    BY <1>9, <1>10, <2>4, <2>5, CharReported
<1> QED
  BY <1>11, <1>12

-----------------------------------------------------------------------------
(* Forks: all steps.                                                     *)

\* What Played does with the op that plays, on the queue that is left.
PlayedAs(o, t, n) ==
    /\ o.op = "tap" => n = KeyUp(KeyDown(t, FromMacro, o.a), FromMacro, o.a)
    /\ o.op = "press" => n = KeyDown(t, FromMacro, o.a)
    /\ o.op = "release" => n = KeyUp(t, FromMacro, o.a)
    /\ o.op = "char" => n = CharShown(RegisterKey([t EXCEPT !.char = <<o>>],
                                      Event(FromMacro, Coded(o.code, {}))), o.mods)
    /\ o.op \notin {"tap", "press", "release", "char"} => n = t

LEMMA PlayedIs ==
    ASSUME NEW s, NEW o, o = Head(Head(Unplayed(s.queue))),
           NEW t, t = [s EXCEPT !.queue = Popped(Unplayed(@))], NEW n, n = Played(s)
    PROVE  PlayedAs(o, t, n)
BY DEF Played, KeyUp, KeyDown, CharShown, PlayedAs

\* An op that is none of these plays nothing.
LEMMA PlayNothing ==
    ASSUME NEW s, NEW o, Taken(s, o), o.op # "char", o.op # "release"
    PROVE  ForksSound(s, {})
BY TakenEnds DEF Taken, ForksSound

\* fire_macro plays an op.
LEMMA PlayStep ==
    ASSUME NEW s, ForksSound(s, {}), s.char = <<>>, Unplayed(s.queue) # <<>>,
           NEW n, n = Played(s)
    PROVE  ForksSound(n, {})
<1>1. PICK o : o = Head(Head(Unplayed(s.queue)))
  OBVIOUS
<1>2. PICK t : t = [s EXCEPT !.queue = Popped(Unplayed(@))]
  OBVIOUS
<1>3. Taken(t, o)
  BY <1>1, <1>2, TakenRight
<1>4. PlayedAs(o, t, n)
  BY <1>1, <1>2, PlayedIs
<1>5. CASE o.op = "tap"
  <2>1. PICK x : x = KeyDown(t, FromMacro, o.a)
    OBVIOUS
  <2>2. n = KeyUp(x, FromMacro, o.a)
    BY <1>4, <1>5, <2>1 DEF PlayedAs
  <2> QED
    BY <1>3, <1>5, <2>1, <2>2, PlayTap
<1>6. CASE o.op = "press"
  <2>1. n = NormalKey(t, FromMacro, o.a, TRUE)
    BY <1>4, <1>6 DEF PlayedAs, KeyDown
  <2> QED
    BY <1>3, <1>6, <2>1, PlayPress
<1>7. CASE o.op = "release"
  <2>1. n = KeyUp(t, FromMacro, o.a)
    BY <1>4, <1>7 DEF PlayedAs
  <2> QED
    BY <1>3, <1>7, <2>1, PlayRelease
<1>8. CASE o.op = "char"
  <2>1. PICK m : m = [t EXCEPT !.char = <<o>>]
    OBVIOUS
  <2>2. PICK e : e = Event(FromMacro, Coded(o.code, {}))
    OBVIOUS
  <2>3. n = CharShown(RegisterKey(m, e), o.mods)
    BY <1>4, <1>8, <2>1, <2>2 DEF PlayedAs
  <2> QED
    BY <1>3, <1>8, <2>1, <2>2, <2>3, PlayChar
<1>9. CASE o.op \notin {"tap", "press", "release", "char"}
  <2>1. n = t
    BY <1>4, <1>9 DEF PlayedAs
  <2> QED
    BY <1>3, <1>9, <2>1, PlayNothing
<1> QED
  BY <1>5, <1>6, <1>7, <1>8, <1>9

\* The parts start sound.
LEMMA ForksInitially ==
    ASSUME NEW s \in ForkStarts
    PROVE  ForksSound(s, {})
<1>1. PICK b \in ForkBoards :
        s = [board |-> b, layer |-> 1, bits |-> {}, down |-> {}, reg |-> {}, keep |-> {}, fresh |-> {},
             active |-> [i \in DOMAIN b.forks |-> Inactive], caps |-> CapsOff,
             macros |-> b.macros, queue |-> <<>>, char |-> <<>>, text |-> FALSE, cut |-> FALSE, lost |-> FALSE,
             host |-> [mods |-> {}, codes |-> {}], typed |-> [code |-> NoCode, mods |-> {}, held |-> {}]]
  BY DEF ForkStarts
<1>2. /\ HasFields(s, ForkFields) /\ s.board = b /\ s.down = {} /\ s.reg = {} /\ s.fresh = {}
      /\ s.active = [i \in DOMAIN b.forks |-> Inactive] /\ s.caps = CapsOff /\ s.macros = b.macros
      /\ s.queue = <<>> /\ s.char = <<>> /\ s.text = FALSE /\ s.cut = FALSE /\ s.lost = FALSE
      /\ s.host = [mods |-> {}, codes |-> {}] /\ s.typed = [code |-> NoCode, mods |-> {}, held |-> {}]
  BY <1>1 DEF HasFields, ForkFields
<1>3. \A i \in DOMAIN s.active : s.active[i] = Inactive /\ ~ s.active[i].on
  BY <1>2 DEF Inactive
<1>4. ActiveForks(s) = {}
  BY <1>3 DEF ActiveForks
<1>5. \A slot \in DOMAIN s.macros : s.macros[slot] \in MacrosOf(b)
  BY <1>2 DEF MacrosOf, Range
<1>6. HasFields(s.caps, {"on", "late", "shift"})
  BY <1>2 DEF CapsOff, HasFields
<1>7. ForkTypes(s)
  <2>1. s.queue \in Seq(Seq(OpsOf(s.board)))
    BY <1>2, EmptySeq
  <2>2. \A i \in DOMAIN s.active : IsActive(s.board, s.active[i])
    BY <1>3 DEF IsActive
  <2>3. s.active = [i \in DOMAIN s.board.forks |-> s.active[i]]
    BY <1>2
  <2> QED
    BY <1>2, <1>5, <1>6, <2>1, <2>2, <2>3 DEF ForkTypes
<1>8. Codes(s) = {} /\ ResolveModifiers(s, FALSE) = {}
  BY <1>2, NothingResolved DEF Codes, Keycodes
<1>9. HasFields(s.host, {"mods", "codes"}) /\ s.host.mods = {} /\ s.host.codes = {}
  BY <1>2 DEF HasFields
<1>10. s.typed.mods = {}
  BY <1>2
<1>11. ForkParts(s, {})
  <2>1. ForksOfKeys(s, {}) /\ KeysOfKeys(s, {})
    BY <1>2, <1>4 DEF ForksOfKeys, KeysOfKeys
  <2>2. CodesShown(s) /\ NothingShown(s) /\ CapsRight(s) /\ FreshRight(s)
    BY <1>2, <1>8, <1>9, <1>10 DEF CodesShown, NothingShown, CapsRight, FreshRight
  <2> QED
    BY <1>7, <2>1, <2>2 DEF ForkParts
<1>12. ModifiersShown(s) /\ TextRight(s)
  BY <1>2, <1>8, <1>9 DEF ModifiersShown, TextRight
<1>13. EndsAhead(s, DueSlots(s, {}))
  <2>1. 1 .. Len(s.queue) = {}
    BY <1>2
  <2> QED
    BY <1>2, <2>1 DEF EndsAhead, MacroKeysEnd, PressesEnd
<1>14. OneOfEach(s) /\ HeldStay(s)
  BY <1>2 DEF OneOfEach, HeldStay
<1> QED
  BY <1>11, <1>12, <1>13, <1>14 DEF ForksSound

ForksHold == ForksSound(fk, {})

\* Every step of forks and macros keeps them so.
LEMMA ForksStep ==
    ASSUME ForksHold, ForksNext
    PROVE  ForksHold'
<1>1. ForkTypes(fk)
  BY DEF ForksHold, ForksSound, ForkParts
<1>2. ASSUME NEW k \in DOMAIN fk.board.keys, ForkKey(k) PROVE ForksHold'
  <2>1. CASE k \in fk.down
    BY <1>2, <2>1, ReleaseStep DEF ForkKey, ForksHold
  <2>2. CASE k \notin fk.down
    BY <1>2, <2>2, PressStep DEF ForkKey, ForksHold
  <2> QED
    BY <2>1, <2>2
<1>3. CASE LayerFlips
  BY <1>3, LayerStep DEF LayerFlips, ForksHold
<1>4. CASE BitFlips
  <2>1. PICK bits : fk' = [fk EXCEPT !.bits = bits]
    BY <1>4, <1>1 DEF BitFlips
  <2> QED
    BY <2>1, BitStep DEF ForksHold
<1>5. CASE CapsTimesOut
  BY <1>5, CapsStep DEF CapsTimesOut, ForksHold
<1>6. CASE MacroPlays
  <2>1. CASE Unplayed(fk.queue) = <<>>
    BY <1>6, <2>1, QueueRunsOut DEF MacroPlays, Idle, ForksHold
  <2>2. CASE Unplayed(fk.queue) # <<>>
    BY <1>6, <2>2, PlayStep DEF MacroPlays, Idle, ForksHold
  <2> QED
    BY <2>1, <2>2
<1>7. CASE CharacterEnds
  BY <1>7, CharStep DEF CharacterEnds, ForksHold
<1>8. CASE MacroEdited
  BY <1>8, EditStep DEF MacroEdited, ForksHold
<1> QED
  BY <1>2, <1>3, <1>4, <1>5, <1>6, <1>7, <1>8 DEF ForksNext

-----------------------------------------------------------------------------
(* Forks: the properties.                                                *)

\* What holds on every board.
LEMMA ForksLeaveNothing ==
    ASSUME ForksHold
    PROVE  ForksEndWithKey /\ FreshModifierCounts /\ CapsWordShiftsLetters /\ TextGivesModifiersBack
<1>1. ForkParts(fk, {}) /\ TextRight(fk)
  BY DEF ForksHold, ForksSound
<1>2. \A i \in ActiveForks(fk) : fk.active[i].src \in fk.down
  BY <1>1 DEF ForkParts, ForksOfKeys
<1>3. \A r \in fk.reg \ MacroKeys : r.src \in fk.down
  BY <1>1 DEF ForkParts, KeysOfKeys, MacroKeys
<1>4. ASSUME fk.down = {}, MacroKeys = {}, ~ fk.text PROVE fk.host = [mods |-> {}, codes |-> {}]
  <2>1. fk.reg = {}
    BY <1>3, <1>4
  <2>2. fk.host.mods = {} /\ fk.host.codes = {} /\ HasFields(fk.host, {"mods", "codes"})
    BY <1>1, <1>4, <2>1 DEF ForkParts, NothingShown, CodesShown, Codes, Keycodes
  <2> QED
    BY <2>2 DEF HasFields
<1>5. ForksEndWithKey
  BY <1>2, <1>3, <1>4 DEF ForksEndWithKey
<1>6. FreshModifierCounts /\ CapsWordShiftsLetters /\ TextGivesModifiersBack
  BY <1>1 DEF ForkParts, FreshRight, CapsRight, TextRight, FreshModifierCounts, CapsWordShiftsLetters,
              TextGivesModifiersBack
<1> QED
  BY <1>5, <1>6

\* What holds where keepers fire keycodes, macros balance and reports have room.
LEMMA ReportsAreCurrent ==
    ASSUME ForksHold, KeepersFireKeys
    PROVE  ReportIsCurrent
BY DEF ForksHold, ForksSound, ForkParts, CodesShown, Codes, ModifiersShown, ReportIsCurrent

LEMMA MacrosDoEnd ==
    ASSUME ForksHold, MacrosBalance
    PROVE  MacrosEnd
<1> SUFFICES ASSUME fk.queue = <<>>, Idle, ~ fk.lost,
                    {k \in fk.down : Replacement(fk, k, fk.board.keys[k]).t = "macro"} = {}
             PROVE  MacroKeys = {}
  BY DEF MacrosEnd
<1>1. MacroKeysEnd(fk, DueSlots(fk, {}))
  BY DEF ForksHold, ForksSound, EndsAhead
<1>2. \A k \in fk.down : InPlace(fk, k).t # "macro"
  BY DEF InPlace
<1>3. DueSlots(fk, {}) = {}
  BY <1>2 DEF DueSlots
<1>4. \A a : ~ Promised(fk, DueSlots(fk, {}), a)
  BY <1>3 DEF Promised
<1>5. \A a : ~ Coming(fk, 0, a)
  <2>1. 1 .. Len(fk.queue) = {}
    OBVIOUS
  <2> QED
    BY <2>1 DEF Coming
<1>6. fk.char = <<>>
  BY DEF Idle
<1> QED
  BY <1>1, <1>4, <1>5, <1>6 DEF MacroKeysEnd, MacroKeys

LEMMA KeysHeldStay ==
    ASSUME ForksHold, ReportsHaveRoom
    PROVE  HeldKeysStay
BY DEF ForksHold, ForksSound, HeldStay, InPlace, HeldKeysStay

LEMMA ForksAllSound ==
    ASSUME ForksHold, KeepersFireKeys, MacrosBalance, ReportsHaveRoom
    PROVE  ReplacedKeysAreSound
BY ForksLeaveNothing, ReportsAreCurrent, MacrosDoEnd, KeysHeldStay
   DEF ReplacedKeysAreSound, ForksAreSound, MacrosAreSound

-----------------------------------------------------------------------------
(* Morse patterns: powers of two.                                          *)

\* A power of two counts the subsets of a set, which is how the provers learn what it is.
LEMMA PowerCounts ==
    ASSUME NEW n \in Nat
    PROVE  /\ IsFiniteSet(SUBSET (1 .. n)) /\ Cardinality(SUBSET (1 .. n)) = 2^n
           /\ 2^n \in Nat
<1>1. IsFiniteSet(1 .. n) /\ Cardinality(1 .. n) = n
  BY FS_Interval
<1>2. IsFiniteSet(SUBSET (1 .. n)) /\ Cardinality(SUBSET (1 .. n)) = 2^n
  BY <1>1, FS_SUBSET
<1> QED
  BY <1>2, FS_CardinalityType

LEMMA PowerZero == 2^0 = 1
OBVIOUS

\* Half of the subsets hold the last element.
LEMMA PowerDoubles ==
    ASSUME NEW n \in Nat
    PROVE  2^(n + 1) = 2 * 2^n
<1> DEFINE S == SUBSET (1 .. n)
           m == n + 1
           T == {x \in SUBSET (1 .. m) : m \in x}
           f == [x \in S |-> x \union {m}]
<1>1. m \in Nat /\ m \notin 1 .. n /\ 1 .. m = (1 .. n) \union {m}
  OBVIOUS
<1>2. IsFiniteSet(S) /\ Cardinality(S) = 2^n /\ 2^n \in Nat
  BY PowerCounts
<1>3. IsFiniteSet(SUBSET (1 .. m)) /\ Cardinality(SUBSET (1 .. m)) = 2^m /\ 2^m \in Nat
  BY <1>1, PowerCounts
<1> HIDE DEF m
<1>4. SUBSET (1 .. m) = S \union T /\ S \intersect T = {}
  <2>1. \A x \in S : x \in SUBSET (1 .. m) /\ m \notin x
    BY <1>1
  <2>2. \A x \in SUBSET (1 .. m) : m \notin x => x \in S
    BY <1>1
  <2> QED
    BY <2>1, <2>2
<1>5. f \in Bijection(S, T)
  <2>1. f \in [S -> T]
    BY <1>1
  <2>2. ASSUME NEW x \in S, NEW y \in S, f[x] = f[y] PROVE x = y
    <3>1. x = f[x] \ {m} /\ y = f[y] \ {m}
      BY <1>1
    <3> QED
      BY <2>2, <3>1
  <2>3. ASSUME NEW y \in T PROVE \E x \in S : f[x] = y
    <3>1. y \ {m} \in S /\ y = (y \ {m}) \union {m}
      BY <1>1
    <3> QED
      BY <3>1
  <2> HIDE DEF f, T, S
  <2> QED
    BY <2>1, <2>2, <2>3 DEF Bijection, Injection, Surjection, IsInjective
<1>6. IsFiniteSet(T) /\ Cardinality(T) = 2^n
  BY <1>2, <1>5, FS_Bijection DEF ExistsBijection
<1>7. Cardinality(S \union T) = Cardinality(S) + Cardinality(T) - 0
  <2> HIDE DEF S, T
  <2>1. Cardinality(S \union T) = Cardinality(S) + Cardinality(T) - Cardinality(S \intersect T)
    BY <1>2, <1>6, FS_Union
  <2>2. Cardinality(S \intersect T) = 0
    BY <1>4, FS_EmptySet
  <2> QED
    BY <2>1, <2>2
<1>8. 2^m = 2^n + 2^n
  <2>1. 2^m = Cardinality(S \union T)
    BY <1>3, <1>4
  <2>2. Cardinality(S \union T) = 2^n + 2^n - 0
    BY <1>2, <1>6, <1>7
  <2> HIDE DEF S, T
  <2> QED
    BY <1>2, <2>1, <2>2
<1> QED
  BY <1>2, <1>8 DEF m

LEMMA PowerIsPositive ==
    ASSUME NEW n \in Nat
    PROVE  2^n \in Nat /\ 2^n >= 1
<1>1. 2^n \in Nat
  BY PowerCounts
<1>2. IsFiniteSet(SUBSET (1 .. n)) /\ Cardinality(SUBSET (1 .. n)) = 2^n
  BY PowerCounts
<1>3. SUBSET (1 .. n) # {}
  OBVIOUS
<1>4. 2^n # 0
  BY <1>2, <1>3, FS_EmptySet
<1> QED
  BY <1>1, <1>4

LEMMA PowersGrow ==
    ASSUME NEW m \in Nat, NEW n \in Nat, m <= n
    PROVE  2^m <= 2^n
<1>1. SUBSET (1 .. m) \in SUBSET SUBSET (1 .. n)
  OBVIOUS
<1>2. Cardinality(SUBSET (1 .. m)) <= Cardinality(SUBSET (1 .. n))
  BY <1>1, PowerCounts, FS_Subset
<1> QED
  BY <1>2, PowerCounts

LEMMA PowersDiffer ==
    ASSUME NEW m \in Nat, NEW n \in Nat, m < n
    PROVE  2 * 2^m <= 2^n /\ 2^m < 2^n
<1>1. 2 * 2^m <= 2^n
  BY PowerDoubles, PowersGrow
<1> QED
  BY <1>1, PowerIsPositive

\* Division, from its quotient and remainder.
LEMMA DivIs ==
    ASSUME NEW a \in Nat, NEW q \in Nat, q >= 1, NEW d \in Nat, NEW r \in Nat, r < q, a = q * d + r
    PROVE  a \div q = d
OBVIOUS

LEMMA DivOf ==
    ASSUME NEW a \in Nat, NEW q \in Nat, q >= 1
    PROVE  \E r \in Nat : r < q /\ a = q * (a \div q) + r /\ a \div q \in Nat
<1>1. a % q \in 0 .. q - 1
  OBVIOUS
<1>2. a \div q \in Nat
  OBVIOUS
<1>3. a = q * (a \div q) + (a % q)
  OBVIOUS
<1> QED
  BY <1>1, <1>2, <1>3

LEMMA TwiceProduct ==
    ASSUME NEW q \in Nat, NEW d \in Nat
    PROVE  (2 * q) * d = 2 * (q * d) /\ q * d \in Nat
OBVIOUS

\* A bit that is shifted in is shifted out again.
LEMMA ShiftedBack ==
    ASSUME NEW a \in Nat, NEW q \in Nat, q >= 1, NEW b \in {0, 1}
    PROVE  (2 * a + b) \div (2 * q) = a \div q
<1>1. PICK r \in Nat : r < q /\ a = q * (a \div q) + r /\ a \div q \in Nat
  BY DivOf
<1> DEFINE d == a \div q
<1>2. d \in Nat /\ a = q * d + r
  BY <1>1
<1> HIDE DEF d
<1>3. 2 * a + b = (2 * q) * d + (2 * r + b)
  <2>1. (2 * q) * d = 2 * (q * d) /\ q * d \in Nat
    BY <1>2, TwiceProduct
  <2> DEFINE x == q * d
  <2>2. a = x + r /\ x \in Nat
    BY <1>2, <2>1
  <2> HIDE DEF x
  <2>3. 2 * a + b = 2 * x + (2 * r + b)
    BY <2>2
  <2> QED
    BY <2>1, <2>3 DEF x
<1>4. 2 * q \in Nat /\ 2 * q >= 1 /\ 2 * r + b \in Nat /\ 2 * r + b < 2 * q /\ 2 * a + b \in Nat
  BY <1>1
<1> QED
  BY <1>2, <1>3, <1>4, DivIs DEF d

-----------------------------------------------------------------------------
(* Morse patterns: the pattern of a sequence of steps.                     *)

\* Induction over a set of numbers.
LEMMA UpToN ==
    ASSUME NEW n \in Nat, NEW S, S \subseteq Nat, 0 \in S, \A i \in 0 .. n - 1 : i \in S => i + 1 \in S
    PROVE  \A i \in 0 .. n : i \in S
<1> DEFINE None == {i \in 0 .. n : i \notin S}
<1> SUFFICES ASSUME None # {} PROVE FALSE
  OBVIOUS
<1> DEFINE m == Min(None)
<1>1. m \in None /\ \A i \in None : m <= i
  BY LeastChunk
<1> HIDE DEF m
<1>2. m \in 0 .. n /\ m \notin S /\ m # 0
  BY <1>1
<1>3. m - 1 \in 0 .. n - 1 /\ m - 1 \notin None
  BY <1>1, <1>2
<1>4. m - 1 \in S
  BY <1>3
<1> QED
  BY <1>2, <1>3, <1>4

Bit(x) == IF x = "tap" THEN 0 ELSE 1

\* The patterns of the first n steps of s, one after the other.
PatternsOf(s, n, c) == c = [i \in 0 .. n |-> IF i = 0 THEN Empty ELSE FollowedBy(c[i - 1], s[i])]

LEMMA PatternsExist ==
    ASSUME NEW s, NEW n \in Nat
    PROVE  \E c : PatternsOf(s, n, c)
<1> DEFINE S == {i \in Nat : \E c : PatternsOf(s, i, c)}
<1>1. 0 \in S
  <2> DEFINE c == [i \in 0 .. 0 |-> Empty]
  <2>1. \A i \in 0 .. 0 : i = 0
    OBVIOUS
  <2>2. c = [i \in 0 .. 0 |-> IF i = 0 THEN Empty ELSE FollowedBy(c[i - 1], s[i])]
    BY <2>1
  <2> QED
    BY <2>2 DEF PatternsOf
<1>2. ASSUME NEW k \in 0 .. n - 1, k \in S PROVE k + 1 \in S
  <2>1. PICK c : PatternsOf(s, k, c)
    BY <1>2
  <2> DEFINE m == k + 1
             d == [i \in 0 .. m |-> IF i = m THEN FollowedBy(c[k], s[m]) ELSE c[i]]
  <2>2. \A i \in 0 .. m : d[i] = IF i = 0 THEN Empty ELSE FollowedBy(d[i - 1], s[i])
    <3> SUFFICES ASSUME NEW i \in 0 .. m
                 PROVE  d[i] = IF i = 0 THEN Empty ELSE FollowedBy(d[i - 1], s[i])
      OBVIOUS
    <3>1. CASE i = m
      <4>1. i # 0 /\ i - 1 = k /\ k \in 0 .. m /\ k # m
        BY <3>1
      <4>2. d[i] = FollowedBy(c[k], s[i]) /\ d[k] = c[k]
        BY <3>1, <4>1
      <4> QED
        BY <4>1, <4>2
    <3>2. CASE i # m
      <4>1. i \in 0 .. k /\ d[i] = c[i]
        BY <3>2
      <4>2. c[i] = IF i = 0 THEN Empty ELSE FollowedBy(c[i - 1], s[i])
        BY <2>1, <4>1 DEF PatternsOf
      <4>3. i # 0 => i - 1 \in 0 .. m /\ i - 1 # m
        BY <4>1
      <4>4. i # 0 => d[i - 1] = c[i - 1]
        BY <4>3
      <4> QED
        BY <4>1, <4>2, <4>4
    <3> QED
      BY <3>1, <3>2
  <2>3. d = [i \in 0 .. m |-> d[i]]
    OBVIOUS
  <2> HIDE DEF d
  <2>4. d = [i \in 0 .. m |-> IF i = 0 THEN Empty ELSE FollowedBy(d[i - 1], s[i])]
    BY <2>2, <2>3
  <2>5. PatternsOf(s, m, d) /\ m \in Nat
    BY <2>4 DEF PatternsOf
  <2> QED
    BY <2>5
<1> HIDE DEF S
<1>3. n \in S
  <2>1. S \subseteq Nat
    BY DEF S
  <2>2. \A i \in 0 .. n - 1 : i \in S => i + 1 \in S
    BY <1>2
  <2>3. \A i \in 0 .. n : i \in S
    BY <1>1, <2>1, <2>2, UpToN
  <2> QED
    BY <2>3
<1> QED
  BY <1>3 DEF S

LEMMA EncodedIsLast ==
    ASSUME NEW s, Len(s) \in Nat
    PROVE  \E c : PatternsOf(s, Len(s), c) /\ Encoded(s) = c[Len(s)]
<1> DEFINE L == Len(s)
           c == CHOOSE c : PatternsOf(s, L, c)
<1>1. PatternsOf(s, L, c)
  BY PatternsExist
<1>2. Encoded(s) = c[L]
  BY DEF Encoded, PatternsOf
<1> QED
  BY <1>1, <1>2

\* A pattern of i steps is a 1 and the i bits of the steps, none of which the shifts lose.
LEMMA PatternSteps ==
    ASSUME NEW s \in Seq(Steps), NEW n \in Nat, n <= Len(s), n < Width, NEW c, PatternsOf(s, n, c)
    PROVE  /\ c[0] = 1
           /\ \A i \in 0 .. n : c[i] \in Nat /\ 2^i <= c[i] /\ c[i] < 2 * 2^i
           /\ \A i \in 0 .. n - 1 : c[i + 1] = 2 * c[i] + Bit(s[i + 1])
<1> DEFINE S == {i \in Nat : i <= n => c[i] \in Nat /\ 2^i <= c[i] /\ c[i] < 2 * 2^i}
<1>1. c[0] = 1
  BY DEF PatternsOf, Empty
<1>2. 0 \in S
  BY <1>1, PowerZero
<1>3. ASSUME NEW i \in 0 .. n - 1, i \in S
      PROVE  /\ c[i + 1] = 2 * c[i] + Bit(s[i + 1])
             /\ i + 1 \in S
  <2>1. i \in Nat /\ i + 1 \in 0 .. n /\ i + 1 # 0 /\ (i + 1) - 1 = i /\ Width \in Nat /\ i + 2 <= Width
    BY PatternBits
  <2>2. c[i] \in Nat /\ 2^i <= c[i] /\ c[i] < 2 * 2^i
    BY <1>3, <2>1
  <2>3. c[i + 1] = FollowedBy(c[i], s[i + 1])
    BY <2>1 DEF PatternsOf
  <2>4. 2^(i + 1) = 2 * 2^i /\ 2^(i + 2) = 2 * 2^(i + 1) /\ 2^(i + 2) <= 2^Width /\ 2^i \in Nat /\ 2^Width \in Nat
    <3>1. (i + 1) + 1 = i + 2
      BY <2>1
    <3> QED
      BY <2>1, <3>1, PowerDoubles, PowersGrow, PowerIsPositive
  <2>5. (2 * c[i]) % 2^Width = 2 * c[i]
    <3> DEFINE a == 2 * c[i]
               q == 2^Width
    <3>1. a \in Nat /\ q \in Nat /\ a < q
      BY <2>2, <2>4
    <3> HIDE DEF a, q
    <3>2. a % q = a
      BY <3>1
    <3> QED
      BY <3>2 DEF a, q
  <2>6. s[i + 1] \in Steps
    BY <2>1
  <2>7. c[i + 1] = 2 * c[i] + Bit(s[i + 1])
    BY <2>2, <2>3, <2>5, <2>6 DEF FollowedBy, FollowedByTap, FollowedByHold, Bit, Steps
  <2>8. Bit(s[i + 1]) \in {0, 1}
    BY DEF Bit
  <2>9. c[i + 1] \in Nat /\ 2^(i + 1) <= c[i + 1] /\ c[i + 1] < 2 * 2^(i + 1)
    BY <2>2, <2>4, <2>7, <2>8
  <2> QED
    BY <2>1, <2>7, <2>9
<1>4. \A i \in 0 .. n : i \in S
  <2> HIDE DEF S
  <2>1. S \subseteq Nat
    BY DEF S
  <2> QED
    BY <1>2, <1>3, <2>1, UpToN
<1> QED
  BY <1>1, <1>3, <1>4

\* The bits of the last j steps are shifted out again.
LEMMA PatternShifted ==
    ASSUME NEW s \in Seq(Steps), NEW n \in Nat, n <= Len(s), n < Width, NEW c, PatternsOf(s, n, c),
           NEW k \in 0 .. n
    PROVE  c[n] \div 2^(n - k) = c[k]
<1> DEFINE S == {j \in Nat : k + j <= n => c[k + j] \div 2^j = c[k]}
<1>1. 0 \in S
  <2>1. c[k] \in Nat /\ k + 0 = k
    BY PatternSteps
  <2>2. c[k] \div 1 = c[k]
    BY <2>1
  <2> QED
    BY <2>1, <2>2, PowerZero
<1>2. ASSUME NEW j \in 0 .. (n - k) - 1, j \in S PROVE j + 1 \in S
  <2> DEFINE i == k + j
  <2>1. j \in Nat /\ i \in 0 .. n /\ i \in 0 .. n - 1 /\ k + (j + 1) = i + 1 /\ j + 1 \in Nat
    OBVIOUS
  <2>2. c[i] \div 2^j = c[k]
    BY <1>2, <2>1
  <2>3. c[i] \in Nat /\ c[i + 1] = 2 * c[i] + Bit(s[i + 1])
    BY <2>1, PatternSteps
  <2>4. Bit(s[i + 1]) \in {0, 1}
    BY DEF Bit
  <2>5. 2^(j + 1) = 2 * 2^j /\ 2^j \in Nat /\ 2^j >= 1
    BY <2>1, PowerDoubles, PowerIsPositive
  <2> HIDE DEF i
  <2>6. (2 * c[i] + Bit(s[i + 1])) \div (2 * 2^j) = c[i] \div 2^j
    BY <2>3, <2>4, <2>5, ShiftedBack
  <2>7. c[k + (j + 1)] \div 2^(j + 1) = c[k]
    BY <2>1, <2>2, <2>3, <2>5, <2>6
  <2> QED
    BY <2>1, <2>7
<1>3. n - k \in S
  <2> HIDE DEF S
  <2>1. n - k \in Nat
    OBVIOUS
  <2>2. S \subseteq Nat
    BY DEF S
  <2>3. \A j \in 0 .. n - k : j \in S
    BY <1>1, <1>2, <2>1, <2>2, UpToN
  <2> QED
    BY <2>1, <2>3
<1>4. k + (n - k) = n
  OBVIOUS
<1> QED
  BY <1>3, <1>4

LEMMA FewerPatterns ==
    ASSUME NEW s \in Seq(Steps), NEW m \in Nat, NEW n \in 0 .. m, NEW c, PatternsOf(s, m, c)
    PROVE  \E e : PatternsOf(s, n, e) /\ \A i \in 0 .. n : e[i] = c[i]
<1> DEFINE d == [i \in 0 .. n |-> c[i]]
<1>1. \A i \in 0 .. n : c[i] = IF i = 0 THEN Empty ELSE FollowedBy(c[i - 1], s[i])
  BY DEF PatternsOf
<1>2. \A i \in 0 .. n : i # 0 => d[i - 1] = c[i - 1]
  OBVIOUS
<1>3. \A i \in 0 .. n : d[i] = IF i = 0 THEN Empty ELSE FollowedBy(d[i - 1], s[i])
  <2>1. \A i \in 0 .. n : d[i] = c[i]
    OBVIOUS
  <2> QED
    BY <1>1, <1>2, <2>1
<1>4. d = [i \in 0 .. n |-> d[i]] /\ \A i \in 0 .. n : d[i] = c[i]
  OBVIOUS
<1> HIDE DEF d
<1>5. PatternsOf(s, n, d)
  BY <1>3, <1>4 DEF PatternsOf
<1> QED
  BY <1>4, <1>5

\* Two patterns of n steps are equal when the steps are.
LEMMA SamePatterns ==
    ASSUME NEW s \in Seq(Steps), NEW t \in Seq(Steps), NEW n \in Nat, n < Width,
           n <= Len(s), n <= Len(t), NEW c, PatternsOf(s, n, c), NEW d, PatternsOf(t, n, d)
    PROVE  c[n] = d[n] <=> \A k \in 1 .. n : s[k] = t[k]
<1>1. ASSUME c[n] = d[n], NEW k \in 1 .. n PROVE s[k] = t[k]
  <2>1. \A i \in 0 .. n : c[i] = d[i]
    BY <1>1, PatternShifted
  <2> DEFINE i == k - 1
  <2>2. i \in 0 .. n - 1 /\ i \in 0 .. n /\ k \in 0 .. n /\ i + 1 = k
    OBVIOUS
  <2>3. c[i] \in Nat
    BY <2>2, PatternSteps
  <2>4. c[k] = 2 * c[i] + Bit(s[k]) /\ d[k] = 2 * d[i] + Bit(t[k])
    BY <2>2, PatternSteps
  <2>5. Bit(s[k]) \in {0, 1} /\ Bit(t[k]) \in {0, 1}
    BY DEF Bit
  <2> HIDE DEF i
  <2>6. Bit(s[k]) = Bit(t[k])
    BY <2>1, <2>2, <2>3, <2>4, <2>5
  <2>7. s[k] \in Steps /\ t[k] \in Steps
    OBVIOUS
  <2> QED
    BY <2>6, <2>7 DEF Bit, Steps
<1>2. ASSUME \A k \in 1 .. n : s[k] = t[k] PROVE c[n] = d[n]
  <2> DEFINE S == {i \in Nat : i <= n => c[i] = d[i]}
  <2>1. 0 \in S
    BY PatternSteps
  <2>2. ASSUME NEW i \in 0 .. n - 1, i \in S PROVE i + 1 \in S
    <3>1. i \in Nat /\ i \in 0 .. n /\ i + 1 \in 1 .. n /\ i + 1 \in Nat
      OBVIOUS
    <3>2. c[i] = d[i] /\ s[i + 1] = t[i + 1]
      BY <1>2, <2>2, <3>1
    <3>3. c[i + 1] = d[i + 1]
      BY <3>2, PatternSteps
    <3> QED
      BY <3>1, <3>3
  <2> HIDE DEF S
  <2>3. S \subseteq Nat
    BY DEF S
  <2>4. \A i \in 0 .. n : i \in S
    BY <2>1, <2>2, <2>3, UpToN
  <2> QED
    BY <2>4 DEF S
<1> QED
  BY <1>1, <1>2

\* A pattern is a power of two when there is no hold.
LEMMA TapsAreAPower ==
    ASSUME NEW s \in Seq(Steps), NEW n \in Nat, n <= Len(s), n < Width, NEW c, PatternsOf(s, n, c)
    PROVE  c[n] = 2^n <=> \A k \in 1 .. n : s[k] = "tap"
<1> DEFINE S == {i \in Nat : i <= n => (c[i] = 2^i <=> \A k \in 1 .. i : s[k] = "tap")}
<1>1. 0 \in S
  <2>1. c[0] = 2^0
    BY PatternSteps, PowerZero
  <2>2. \A k \in 1 .. 0 : s[k] = "tap"
    OBVIOUS
  <2> QED
    BY <2>1, <2>2
<1>2. ASSUME NEW i \in 0 .. n - 1, i \in S PROVE i + 1 \in S
  <2>1. i \in Nat /\ i \in 0 .. n /\ i + 1 \in Nat /\ i + 1 \in 1 .. n
    OBVIOUS
  <2>2. c[i] = 2^i <=> \A k \in 1 .. i : s[k] = "tap"
    BY <1>2, <2>1
  <2>3. c[i] \in Nat /\ 2^i <= c[i] /\ c[i + 1] = 2 * c[i] + Bit(s[i + 1])
    BY <2>1, PatternSteps
  <2>4. 2^(i + 1) = 2 * 2^i /\ 2^i \in Nat
    BY <2>1, PowerDoubles, PowerIsPositive
  <2>5. Bit(s[i + 1]) \in {0, 1} /\ (Bit(s[i + 1]) = 0 <=> s[i + 1] = "tap")
    BY DEF Bit
  <2>6. c[i + 1] = 2^(i + 1) <=> c[i] = 2^i /\ s[i + 1] = "tap"
    BY <2>3, <2>4, <2>5
  <2>7. (\A k \in 1 .. i + 1 : s[k] = "tap") <=> (\A k \in 1 .. i : s[k] = "tap") /\ s[i + 1] = "tap"
    <3>1. 1 .. i + 1 = (1 .. i) \union {i + 1}
      BY <2>1
    <3> QED
      BY <3>1
  <2> QED
    BY <2>1, <2>2, <2>6, <2>7
<1> HIDE DEF S
<1>3. S \subseteq Nat
  BY DEF S
<1>4. \A i \in 0 .. n : i \in S
  BY <1>1, <1>2, <1>3, UpToN
<1> QED
  BY <1>4 DEF S

\* Length finds the leading 1.
LEMMA LengthIs ==
    ASSUME NEW n \in Nat, n < Width, NEW p \in Nat, 2^n <= p, p < 2 * 2^n
    PROVE  Length(p) = n
<1>1. Width \in Nat /\ n \in 0 .. Width - 1 /\ p # 0
  BY PatternBits, PowerIsPositive
<1>2. 2^n <= p /\ p < 2^(n + 1)
  BY PowerDoubles
<1>3. ASSUME NEW m \in 0 .. Width - 1, 2^m <= p, p < 2^(m + 1) PROVE m = n
  <2>1. m \in Nat /\ 2^m \in Nat /\ 2^n \in Nat /\ 2^(m + 1) = 2 * 2^m
    BY <1>1, PowerDoubles, PowerIsPositive
  <2>2. ~ (m < n)
    <3>1. m < n => 2 * 2^m <= 2^n
      BY <2>1, PowersDiffer
    <3> QED
      BY <1>3, <2>1, <3>1
  <2>3. ~ (n < m)
    <3>1. n < m => 2 * 2^n <= 2^m
      BY <2>1, PowersDiffer
    <3> QED
      BY <1>3, <2>1, <3>1
  <2> QED
    BY <2>1, <2>2, <2>3
<1> QED
  BY <1>1, <1>2, <1>3 DEF Length

-----------------------------------------------------------------------------
(* Morse patterns: the properties.                                         *)

PatternsInv ==
    /\ steps \in Seq(Steps) /\ Len(steps) <= Width - 1
    /\ other \in Seq(Steps) /\ Len(other) <= Width - 1

LEMMA PatternIs ==
    ASSUME NEW s \in Seq(Steps), Len(s) <= Width - 1
    PROVE  \E c : /\ PatternsOf(s, Len(s), c) /\ Encoded(s) = c[Len(s)]
                  /\ Len(s) \in Nat /\ Len(s) < Width
                  /\ Encoded(s) \in Nat /\ 2^Len(s) <= Encoded(s) /\ Encoded(s) < 2 * 2^Len(s)
                  /\ Length(Encoded(s)) = Len(s)
<1>1. Len(s) \in Nat /\ Len(s) < Width
  BY PatternBits
<1>2. PICK c : PatternsOf(s, Len(s), c) /\ Encoded(s) = c[Len(s)]
  BY <1>1, EncodedIsLast
<1> DEFINE L == Len(s)
           p == Encoded(s)
<1>3. L \in 0 .. L
  BY <1>1
<1>4. p \in Nat /\ 2^L <= p /\ p < 2 * 2^L
  BY <1>1, <1>2, <1>3, PatternSteps
<1>5. Length(p) = L
  <2> HIDE DEF p, L
  <2> QED
    BY <1>1, <1>4, LengthIs DEF L
<1> QED
  BY <1>1, <1>2, <1>4, <1>5

\* Fullness, last step and "all taps".
LEMMA EncodingOfOne ==
    ASSUME NEW s \in Seq(Steps), Len(s) <= Width - 1, NEW p, p = Encoded(s)
    PROVE  /\ IsFull(p) <=> Len(s) = Width - 1
           /\ LastIsHold(p) <=> s # <<>> /\ Last(s) = "hold"
           /\ IsAllTaps(p) <=> s # <<>> /\ "hold" \notin ToSet(s)
<1> DEFINE L == Len(s)
<1>1. PICK c : /\ PatternsOf(s, L, c) /\ p = c[L] /\ L \in Nat /\ L < Width
               /\ p \in Nat /\ 2^L <= p /\ p < 2 * 2^L
  BY PatternIs
<1>2. Width \in Nat /\ Width - 1 \in Nat /\ L <= Width - 1
  BY <1>1, PatternBits
<1>3. s = <<>> <=> L = 0
  BY EmptySeq
<1>4. 2^L \in Nat /\ 2^L >= 1
  BY <1>1, PowerIsPositive
<1>5. IsFull(p) <=> L = Width - 1
  <2>1. CASE L = Width - 1
    BY <1>1, <2>1 DEF IsFull
  <2>2. CASE L < Width - 1
    <3>1. 2 * 2^L <= 2^(Width - 1) /\ 2^(Width - 1) \in Nat
      BY <1>1, <1>2, <2>2, PowersDiffer, PowerIsPositive
    <3> QED
      BY <1>1, <1>4, <2>2, <3>1 DEF IsFull
  <2> QED
    BY <1>1, <1>2, <2>1, <2>2
<1>6. L = 0 <=> p = 1
  <2>1. L = 0 => p = 1
    BY <1>1, PowerZero
  <2>2. L # 0 => 2 <= p
    <3>1. L # 0 => 2 * 2^0 <= 2^L
      <4>1. 0 \in Nat /\ (L # 0 => 0 < L)
        BY <1>1
      <4> HIDE DEF L
      <4> QED
        BY <1>1, <4>1, PowersDiffer
    <3> QED
      BY <1>1, <1>4, <3>1, PowerZero
  <2> QED
    BY <2>1, <2>2
<1>7. LastIsHold(p) <=> s # <<>> /\ Last(s) = "hold"
  <2>1. CASE L = 0
    BY <1>3, <1>6, <2>1 DEF LastIsHold, Empty
  <2>2. CASE L # 0
    <3>1. L - 1 \in 0 .. L - 1 /\ L - 1 \in 0 .. L /\ (L - 1) + 1 = L /\ L \in 1 .. L
      BY <1>1, <2>2
    <3> DEFINE a == c[L - 1]
               b == Bit(s[L])
    <3>2. a \in Nat /\ p = 2 * a + b
      <4>1. c[L - 1] \in Nat /\ c[(L - 1) + 1] = 2 * c[L - 1] + Bit(s[(L - 1) + 1])
        <5>1. L <= Len(s)
          BY <1>1
        <5> QED
          BY <1>1, <3>1, <5>1, PatternSteps
      <4> QED
        BY <1>1, <3>1, <4>1
    <3>3. s[L] \in Steps /\ Last(s) = s[L]
      BY <3>1 DEF Last
    <3>4. b \in {0, 1} /\ (b = 1 <=> s[L] = "hold")
      BY <3>3 DEF Bit, Steps
    <3> HIDE DEF a, b, L
    <3>5. p % 2 = b
      BY <3>2, <3>4
    <3> QED
      BY <1>3, <1>6, <2>2, <3>3, <3>4, <3>5 DEF LastIsHold, Empty
  <2> QED
    BY <2>1, <2>2
<1>8. IsAllTaps(p) <=> s # <<>> /\ "hold" \notin ToSet(s)
  <2>1. p = 2^L <=> \A k \in 1 .. L : s[k] = "tap"
    BY <1>1, TapsAreAPower
  <2>2. (\A k \in 1 .. L : s[k] = "tap") <=> "hold" \notin ToSet(s)
    <3>1. \A k \in 1 .. L : s[k] \in Steps
      OBVIOUS
    <3>2. ToSet(s) = {s[k] : k \in 1 .. L}
      BY DEF ToSet
    <3> HIDE DEF L
    <3> QED
      BY <3>1, <3>2 DEF Steps
  <2>3. ASSUME NEW m \in 1 .. Width - 1, p = 2^m PROVE m = L
    <3>1. m \in Nat /\ 2^m \in Nat
      BY <1>2, PowerIsPositive
    <3>2. m < L => 2 * 2^m <= 2^L /\ 2^m < 2^L
      BY <1>1, <3>1, PowersDiffer
    <3>3. L < m => 2 * 2^L <= 2^m
      BY <1>1, <3>1, PowersDiffer
    <3> HIDE DEF L
    <3> QED
      BY <1>1, <1>4, <2>3, <3>1, <3>2, <3>3
  <2>4. L # 0 => L \in 1 .. Width - 1 /\ p > 1
    <3>1. L # 0 => p # 1 /\ p >= 1
      BY <1>1, <1>4, <1>6
    <3> QED
      BY <1>1, <1>2, <3>1
  <2>5. IsAllTaps(p) <=> L # 0 /\ p = 2^L
    <3>1. ASSUME IsAllTaps(p) PROVE L # 0 /\ p = 2^L
      BY <1>6, <2>3, <3>1 DEF IsAllTaps
    <3>2. ASSUME L # 0, p = 2^L PROVE IsAllTaps(p)
      BY <2>4, <3>2 DEF IsAllTaps
    <3> QED
      BY <3>1, <3>2
  <2> QED
    BY <1>3, <2>1, <2>2, <2>5
<1> QED
  BY <1>5, <1>7, <1>8

\* Equality of sequences, element by element.
LEMMA SameSequences ==
    ASSUME NEW s \in Seq(Steps), NEW t \in Seq(Steps), Len(s) = Len(t),
           \A k \in 1 .. Len(s) : s[k] = t[k]
    PROVE  s = t
BY SeqEqual

LEMMA PrefixIs ==
    ASSUME NEW s \in Seq(Steps), NEW t \in Seq(Steps)
    PROVE  IsPrefix(t, s) <=> Len(t) <= Len(s) /\ \A k \in 1 .. Len(t) : s[k] = t[k]
<1> DEFINE n == Len(t)
<1>1. CASE n <= Len(s)
  <2>1. n \in Nat
    OBVIOUS
  <2>2. SubSeq(t, 1, n) = [k \in 1 .. n |-> t[k]] /\ SubSeq(s, 1, n) = [k \in 1 .. n |-> s[k]]
    BY <1>1
  <2>3. SubSeq(t, 1, n) = SubSeq(s, 1, n) <=> \A k \in 1 .. n : s[k] = t[k]
    BY <2>2
  <2> QED
    BY <1>1, <2>3 DEF IsPrefix
<1>2. CASE ~ (n <= Len(s))
  BY <1>2 DEF IsPrefix
<1> QED
  BY <1>1, <1>2

\* Two patterns: a shift of the longer one compares the steps they share.
LEMMA StartsWithSteps ==
    ASSUME NEW s \in Seq(Steps), Len(s) <= Width - 1, NEW t \in Seq(Steps), Len(t) <= Width - 1
    PROVE  StartsWith(Encoded(s), Encoded(t)) <=> IsPrefix(t, s)
<1> DEFINE m == Len(s)
           n == Len(t)
           p == Encoded(s)
           q == Encoded(t)
<1>1. PICK c : PatternsOf(s, m, c) /\ p = c[m] /\ m \in Nat /\ m < Width /\ Length(p) = m
  BY PatternIs
<1>2. PICK d : PatternsOf(t, n, d) /\ q = d[n] /\ n \in Nat /\ n < Width /\ Length(q) = n
  BY PatternIs
<1>3. CASE n <= m
  <2>1. n \in 0 .. m
    BY <1>1, <1>2, <1>3
  <2>2. PICK e : PatternsOf(s, n, e) /\ \A i \in 0 .. n : e[i] = c[i]
    <3>1. m \in Nat /\ PatternsOf(s, m, c)
      BY <1>1
    <3> HIDE DEF m, n, p, q
    <3> QED
      BY <2>1, <3>1, FewerPatterns
  <2>3. c[m] \div 2^(m - n) = c[n]
    BY <1>1, <2>1, PatternShifted
  <2>4. e[n] = d[n] <=> \A k \in 1 .. n : s[k] = t[k]
    BY <1>2, <1>3, <2>2, SamePatterns
  <2>5. e[n] = c[n]
    BY <1>2, <2>2
  <2>6. StartsWith(p, q) <=> c[n] = d[n]
    BY <1>1, <1>2, <1>3, <2>3 DEF StartsWith
  <2> QED
    BY <1>3, <2>4, <2>5, <2>6, PrefixIs
<1>4. CASE ~ (n <= m)
  BY <1>1, <1>2, <1>4, PrefixIs DEF StartsWith
<1> QED
  BY <1>3, <1>4

LEMMA EncodingIsInjective ==
    ASSUME NEW s \in Seq(Steps), Len(s) <= Width - 1, NEW t \in Seq(Steps), Len(t) <= Width - 1,
           Encoded(s) = Encoded(t)
    PROVE  s = t
<1>1. PICK c : PatternsOf(s, Len(s), c) /\ Encoded(s) = c[Len(s)] /\ Len(s) \in Nat /\ Len(s) < Width
               /\ Length(Encoded(s)) = Len(s)
  BY PatternIs
<1>2. PICK d : PatternsOf(t, Len(t), d) /\ Encoded(t) = d[Len(t)] /\ Length(Encoded(t)) = Len(t)
  BY PatternIs
<1>3. Len(s) = Len(t) /\ c[Len(s)] = d[Len(s)]
  BY <1>1, <1>2
<1>4. PatternsOf(t, Len(s), d)
  BY <1>2, <1>3
<1>5. \A k \in 1 .. Len(s) : s[k] = t[k]
  BY <1>1, <1>3, <1>4, SamePatterns
<1> QED
  BY <1>3, <1>5, SameSequences

\* Whatever the sequences, the bit patterns and the predictions are those of the sequences.
LEMMA PatternsInvHelps == PatternsInv => PatternsAgree
<1> SUFFICES ASSUME PatternsInv PROVE PatternsAgree
  OBVIOUS
<1> DEFINE p == Encoded(steps)
           q == Encoded(other)
<1>1. steps \in Seq(Steps) /\ Len(steps) <= Width - 1 /\ other \in Seq(Steps) /\ Len(other) <= Width - 1
  BY DEF PatternsInv
<1>2. /\ IsFull(p) <=> Len(steps) = Width - 1
      /\ LastIsHold(p) <=> steps # <<>> /\ Last(steps) = "hold"
      /\ IsAllTaps(p) <=> steps # <<>> /\ "hold" \notin ToSet(steps)
  BY <1>1, EncodingOfOne
<1>3. Length(p) = Len(steps)
  BY <1>1, PatternIs
<1>4. p = q <=> steps = other
  BY <1>1, EncodingIsInjective
<1>5. EncodingIsFaithful
  BY <1>2, <1>3, <1>4 DEF EncodingIsFaithful
<1>6. StartsWith(p, q) <=> IsPrefix(other, steps)
  BY <1>1, StartsWithSteps
<1>7. StartsWith(q, p) <=> IsPrefix(steps, other)
  BY <1>1, StartsWithSteps
<1> HIDE DEF p, q
<1>8. TryPredictFinalAction(Bare, p) # {} <=> ~ IsStrictPrefix(steps, other)
  <2>1. Bare.t = "morse" /\ DOMAIN Bare.table = {p, q}
    BY DEF Bare, p, q
  <2>2. Unextended(Bare, p) <=> (q = p \/ ~ StartsWith(q, p))
    BY <2>1 DEF Unextended, Configured
  <2>3. TryPredictFinalAction(Bare, p) # {} <=> Unextended(Bare, p)
    BY <2>1 DEF TryPredictFinalAction
  <2> QED
    BY <1>4, <1>7, <2>2, <2>3 DEF IsStrictPrefix
<1> QED
  BY <1>5, <1>6, <1>8 DEF PatternsAgree, StartsWithIsPrefix, PredictionIsFinal, p, q

LEMMA PatternsInitially == PatternsInit => PatternsInv
<1>1. <<>> \in Seq(Steps) /\ Len(<<>>) = 0 /\ 0 <= Width - 1
  BY PatternBits
<1> QED
  BY <1>1 DEF PatternsInit, PatternsInv

LEMMA PatternsStep ==
    ASSUME PatternsInv, [PatternsNext]_<<steps, other>>
    PROVE  PatternsInv'
<1>1. Width \in Nat
  BY PatternBits
<1>2. ASSUME NEW s \in Seq(Steps), Len(s) < Width - 1, NEW x \in Steps
      PROVE  Append(s, x) \in Seq(Steps) /\ Len(Append(s, x)) <= Width - 1
  BY <1>1, <1>2
<1>3. CASE Extend
  BY <1>2, <1>3 DEF Extend, PatternsInv
<1>4. CASE ExtendOther
  BY <1>2, <1>4 DEF ExtendOther, PatternsInv
<1>5. CASE UNCHANGED <<steps, other>>
  BY <1>5 DEF PatternsInv
<1> QED
  BY <1>3, <1>4, <1>5 DEF PatternsNext

-----------------------------------------------------------------------------
(* The stitch of a read.                                                   *)

\* The turns of the stitch over these pages, up to the n-th.
TurnsOf(pages, n, o) ==
    o = [i \in 0 .. n |-> IF i = 0 THEN [left |-> pages, len |-> 0] ELSE Stitch(o[i - 1])]

LEMMA StitchTurnsExist ==
    ASSUME NEW pages, NEW n \in Nat
    PROVE  \E o : TurnsOf(pages, n, o)
<1> DEFINE first == [left |-> pages, len |-> 0]
           S == {i \in Nat : \E o : TurnsOf(pages, i, o)}
<1>1. 0 \in S
  <2> DEFINE o == [i \in 0 .. 0 |-> first]
  <2>1. \A i \in 0 .. 0 : i = 0
    OBVIOUS
  <2>2. o = [i \in 0 .. 0 |-> IF i = 0 THEN first ELSE Stitch(o[i - 1])]
    BY <2>1
  <2> QED
    BY <2>2 DEF TurnsOf
<1>2. ASSUME NEW k \in 0 .. n - 1, k \in S PROVE k + 1 \in S
  <2>1. PICK o : TurnsOf(pages, k, o)
    BY <1>2
  <2> DEFINE m == k + 1
             d == [i \in 0 .. m |-> IF i = m THEN Stitch(o[k]) ELSE o[i]]
  <2>2. \A i \in 0 .. m : d[i] = IF i = 0 THEN first ELSE Stitch(d[i - 1])
    <3> SUFFICES ASSUME NEW i \in 0 .. m
                 PROVE  d[i] = IF i = 0 THEN first ELSE Stitch(d[i - 1])
      OBVIOUS
    <3> HIDE DEF first
    <3>1. CASE i = m
      <4>1. i # 0 /\ i - 1 = k /\ k \in 0 .. m /\ k # m
        BY <3>1
      <4>2. d[i] = Stitch(o[k]) /\ d[k] = o[k]
        BY <3>1, <4>1
      <4> QED
        BY <4>1, <4>2
    <3>2. CASE i # m
      <4>1. i \in 0 .. k /\ d[i] = o[i]
        BY <3>2
      <4>2. o[i] = IF i = 0 THEN first ELSE Stitch(o[i - 1])
        BY <2>1, <4>1 DEF TurnsOf, first
      <4>3. i # 0 => i - 1 \in 0 .. m /\ i - 1 # m
        BY <4>1
      <4>4. i # 0 => d[i - 1] = o[i - 1]
        BY <4>3
      <4> QED
        BY <4>1, <4>2, <4>4
    <3> QED
      BY <3>1, <3>2
  <2>3. d = [i \in 0 .. m |-> d[i]]
    OBVIOUS
  <2> HIDE DEF d
  <2>4. d = [i \in 0 .. m |-> IF i = 0 THEN first ELSE Stitch(d[i - 1])]
    BY <2>2, <2>3
  <2>5. TurnsOf(pages, m, d) /\ m \in Nat
    BY <2>4 DEF TurnsOf
  <2> QED
    BY <2>5
<1> HIDE DEF S
<1>3. n \in S
  <2>1. S \subseteq Nat
    BY DEF S
  <2>2. \A i \in 0 .. n - 1 : i \in S => i + 1 \in S
    BY <1>2
  <2>3. \A i \in 0 .. n : i \in S
    BY <1>1, <2>1, <2>2, UpToN
  <2> QED
    BY <2>3
<1> QED
  BY <1>3 DEF S

\* The pages of all lanes.
PagesOf(lane) == UNION {ToSet(lane[l].pages) : l \in DOMAIN lane}

LEMMA StitchedIsLast ==
    ASSUME NEW lane, NEW n \in Nat, n = Cardinality(PagesOf(lane))
    PROVE  \E o : TurnsOf(PagesOf(lane), n, o) /\ Stitched(lane) = o[n].len
<1> DEFINE P == PagesOf(lane)
           o == CHOOSE o : TurnsOf(P, n, o)
<1>1. TurnsOf(P, n, o)
  BY StitchTurnsExist
<1>2. Stitched(lane) = o[n].len
  BY DEF Stitched, TurnsOf, PagesOf
<1> QED
  BY <1>1, <1>2

LEMMA EarliestIsFirst ==
    ASSUME NEW S, S # {}, \A q \in S : q.start \in Nat
    PROVE  Earliest(S) \in S /\ \A q \in S : Earliest(S).start <= q.start
<1> DEFINE T == {q.start : q \in S}
<1>1. T \subseteq Nat /\ T # {}
  OBVIOUS
<1>2. Min(T) \in T /\ \A x \in T : Min(T) <= x
  BY <1>1, LeastChunk
<1>3. PICK p \in S : p.start = Min(T)
  BY <1>2
<1>4. \A q \in S : p.start <= q.start
  BY <1>2, <1>3
<1> QED
  BY <1>4 DEF Earliest

\* These pages lie within the first d items and leave none of them out.
Cover(pages, d) ==
    /\ \A q \in pages : q.start \in Nat /\ q.len \in Nat /\ q.start + q.len <= d
    /\ \A i \in Nat : i < d => \E q \in pages : q.start <= i /\ i < q.start + q.len

\* The result is as long as the pages that were taken reach.
Stitching(pages, d, s) ==
    /\ s.left \subseteq pages /\ IsFiniteSet(s.left)
    /\ s.len \in Nat /\ s.len <= d
    /\ \A q \in pages \ s.left : q.start + q.len <= s.len

\* A turn meets no gap: the item at it would be on a page that was taken, or on one that starts
\* before the earliest.
LEMMA TurnOfStitch ==
    ASSUME NEW pages, NEW d \in Nat, Cover(pages, d), NEW s, Stitching(pages, d, s), s.left # {}
    PROVE  /\ Stitching(pages, d, Stitch(s))
           /\ Cardinality(Stitch(s).left) = Cardinality(s.left) - 1
<1> DEFINE p == Earliest(s.left)
           m == Max({s.len, p.start + p.len})
<1>1. /\ s.left \subseteq pages /\ IsFiniteSet(s.left) /\ s.len \in Nat /\ s.len <= d
      /\ \A q \in pages \ s.left : q.start + q.len <= s.len
  BY DEF Stitching
<1>2. \A q \in pages : q.start \in Nat /\ q.len \in Nat /\ q.start + q.len <= d
  BY DEF Cover
<1>3. p \in s.left /\ \A q \in s.left : p.start <= q.start
  BY <1>1, <1>2, EarliestIsFirst
<1> HIDE DEF p
<1>4. p.start \in Nat /\ p.len \in Nat /\ p.start + p.len <= d
  BY <1>1, <1>2, <1>3
<1>5. ~ (p.start > s.len)
  <2> SUFFICES ASSUME p.start > s.len PROVE FALSE
    OBVIOUS
  <2>1. s.len < d
    BY <1>1, <1>4
  <2>2. PICK q \in pages : q.start <= s.len /\ s.len < q.start + q.len
    BY <1>1, <2>1 DEF Cover
  <2>3. CASE q \in s.left
    <3>1. p.start <= q.start /\ q.start \in Nat
      BY <1>2, <1>3, <2>3
    <3> QED
      BY <1>1, <1>4, <2>2, <3>1
  <2>4. CASE q \notin s.left
    <3>1. q.start + q.len <= s.len /\ q.start \in Nat /\ q.len \in Nat
      BY <1>1, <1>2, <2>4
    <3> QED
      BY <1>1, <2>2, <3>1
  <2> QED
    BY <2>3, <2>4
<1>6. Stitch(s) = [left |-> s.left \ {p}, len |-> m]
  BY <1>5 DEF Stitch, p
<1>7. m = IF s.len >= p.start + p.len THEN s.len ELSE p.start + p.len
  BY <1>1, <1>4, GreaterOfTwo
<1> HIDE DEF m
<1>8. m \in Nat /\ m <= d /\ s.len <= m /\ p.start + p.len <= m
  BY <1>1, <1>4, <1>7
<1>9. IsFiniteSet(s.left \ {p}) /\ Cardinality(s.left \ {p}) = Cardinality(s.left) - 1
  BY <1>1, <1>3, FS_RemoveElement
<1>10. ASSUME NEW q \in pages \ (s.left \ {p}) PROVE q.start + q.len <= m
  <2>1. CASE q = p
    BY <1>8, <2>1
  <2>2. CASE q # p
    <3>1. q.start + q.len <= s.len /\ q.start \in Nat /\ q.len \in Nat
      BY <1>1, <1>2, <1>10, <2>2
    <3> QED
      BY <1>1, <1>8, <3>1
  <2> QED
    BY <2>1, <2>2
<1> QED
  BY <1>1, <1>6, <1>8, <1>9, <1>10 DEF Stitching

\* So all pages are taken, and the result has the d items.
LEMMA StitchIsWhole ==
    ASSUME NEW pages, NEW d \in Nat, IsFiniteSet(pages), Cover(pages, d),
           NEW n, n = Cardinality(pages), NEW o, TurnsOf(pages, n, o)
    PROVE  o[n].len = d
<1> DEFINE S == {i \in Nat : i <= n => /\ Stitching(pages, d, o[i])
                                       /\ Cardinality(o[i].left) = n - i}
<1>1. n \in Nat
  BY FS_CardinalityType
<1>2. 0 \in S
  <2>1. o[0] = [left |-> pages, len |-> 0]
    BY <1>1 DEF TurnsOf
  <2> QED
    BY <1>1, <2>1 DEF Stitching
<1>3. ASSUME NEW i \in 0 .. n - 1, i \in S PROVE i + 1 \in S
  <2>1. i \in Nat /\ i < n /\ i + 1 \in 0 .. n /\ i + 1 # 0 /\ (i + 1) - 1 = i
    BY <1>1
  <2>2. o[i + 1] = Stitch(o[i])
    BY <2>1 DEF TurnsOf
  <2>3. Stitching(pages, d, o[i]) /\ Cardinality(o[i].left) = n - i
    BY <1>1, <1>3, <2>1
  <2>4. o[i].left # {}
    <3>1. n - i # 0
      BY <1>1, <2>1
    <3> QED
      BY <2>3, <3>1, FS_EmptySet
  <2>5. /\ Stitching(pages, d, o[i + 1])
        /\ Cardinality(o[i + 1].left) = Cardinality(o[i].left) - 1
    BY <2>2, <2>3, <2>4, TurnOfStitch
  <2>6. (n - i) - 1 = n - (i + 1)
    BY <1>1, <2>1
  <2> QED
    BY <2>1, <2>3, <2>5, <2>6
<1>4. Stitching(pages, d, o[n]) /\ Cardinality(o[n].left) = n - n
  <2>1. S \subseteq Nat
    OBVIOUS
  <2>2. \A i \in 0 .. n - 1 : i \in S => i + 1 \in S
    BY <1>3
  <2> HIDE DEF S
  <2>3. \A i \in 0 .. n : i \in S
    BY <1>1, <1>2, <2>1, <2>2, UpToN
  <2>4. n \in S
    BY <1>1, <2>3
  <2> QED
    BY <1>1, <2>4 DEF S
<1>5. o[n].left = {}
  BY <1>1, <1>4, FS_EmptySet DEF Stitching
<1>6. /\ o[n].len \in Nat /\ o[n].len <= d
      /\ \A q \in pages : q.start + q.len <= o[n].len
  BY <1>4, <1>5 DEF Stitching
<1>7. ASSUME d # 0 PROVE d <= o[n].len
  <2>1. d - 1 \in Nat /\ d - 1 < d
    BY <1>7
  <2>2. PICK q \in pages : q.start <= d - 1 /\ d - 1 < q.start + q.len
    BY <2>1 DEF Cover
  <2>3. q.start \in Nat /\ q.len \in Nat /\ q.start + q.len <= o[n].len
    BY <1>6 DEF Cover
  <2> QED
    BY <1>6, <2>2, <2>3
<1> QED
  BY <1>6, <1>7

\* The pages of the lanes are finitely many, and hold what was fetched.
LEMMA PagesOfLanes ==
    ASSUME ReadInv
    PROVE  /\ IsFiniteSet(PagesOf(read.lane))
           /\ \A q \in PagesOf(read.lane) : q.start \in Nat /\ q.len \in Nat /\ q.len # 0
           /\ \A i : Fetched(read, i) <=> \E q \in PagesOf(read.lane) : i \in Items(q)
<1> DEFINE lane == read.lane
           Of(l) == ToSet(lane[l].pages)
           P == PagesOf(lane)
<1>1. DOMAIN lane = 1 .. Lanes /\ Lanes \in Nat
  BY PageSizes, ReadFields DEF ReadInv, ReadIsRight
<1>2. \A l \in 1 .. Lanes : lane[l].pages \in Seq([start : Nat, len : Nat \ {0}])
  BY ReadFields DEF ReadInv, ReadIsRight, ReadPages
<1> HIDE DEF lane
<1>3. ASSUME NEW l \in 1 .. Lanes
      PROVE  IsFiniteSet(Of(l)) /\ Of(l) \subseteq [start : Nat, len : Nat \ {0}]
  <2> DEFINE s == lane[l].pages
  <2>1. s \in Seq([start : Nat, len : Nat \ {0}])
    BY <1>2
  <2> HIDE DEF s
  <2>2. Len(s) \in Nat /\ s \in [1 .. Len(s) -> ToSet(s)]
        /\ ToSet(s) \subseteq [start : Nat, len : Nat \ {0}]
    <3> DEFINE R == [start : Nat, len : Nat \ {0}]
    <3> HIDE DEF R
    <3>1. s \in Seq(R)
      BY <2>1 DEF R
    <3>2. Len(s) \in Nat /\ DOMAIN s = 1 .. Len(s) /\ s = [k \in 1 .. Len(s) |-> s[k]]
          /\ \A k \in 1 .. Len(s) : s[k] \in R
      BY <3>1
    <3>3. \A k \in 1 .. Len(s) : s[k] \in ToSet(s)
      BY <3>2 DEF ToSet
    <3>4. ToSet(s) \subseteq R
      BY <3>2 DEF ToSet
    <3>5. s \in [1 .. Len(s) -> ToSet(s)]
      BY <3>2, <3>3
    <3> QED
      BY <3>2, <3>4, <3>5 DEF R
  <2>3. s \in Surjection(1 .. Len(s), ToSet(s))
    <3>1. \A q \in ToSet(s) : \E k \in 1 .. Len(s) : s[k] = q
      BY <2>2 DEF ToSet
    <3> QED
      BY <2>2, <3>1 DEF Surjection
  <2>4. IsFiniteSet(1 .. Len(s))
    BY <2>2, FS_Interval
  <2>5. IsFiniteSet(ToSet(s))
    BY <2>3, <2>4, FS_Surjection
  <2> QED
    BY <2>2, <2>5 DEF s
<1>4. P = UNION {Of(l) : l \in 1 .. Lanes}
  BY <1>1 DEF PagesOf
<1>5. IsFiniteSet(P)
  <2> DEFINE all == {Of(l) : l \in 1 .. Lanes}
             f == [l \in 1 .. Lanes |-> Of(l)]
  <2>1. f \in Surjection(1 .. Lanes, all)
    BY DEF Surjection
  <2>2. IsFiniteSet(1 .. Lanes)
    BY <1>1, FS_Interval
  <2>3. IsFiniteSet(all)
    <3> HIDE DEF all, f
    <3> QED
      BY <2>1, <2>2, FS_Surjection
  <2>4. \A T \in all : IsFiniteSet(T)
    BY <1>3
  <2> HIDE DEF all, P
  <2>5. IsFiniteSet(UNION all)
    BY <2>3, <2>4, FS_UNION
  <2> QED
    BY <1>4, <2>5 DEF all
<1>6. P \subseteq [start : Nat, len : Nat \ {0}]
  BY <1>3, <1>4
<1>7. \A i : Fetched(read, i) <=> \E q \in P : i \in Items(q)
  <2>1. \A l \in 1 .. Lanes : \A i : InPages(lane[l].pages, i) <=> \E q \in Of(l) : i \in Items(q)
    BY DEF InPages, ToSet
  <2> HIDE DEF P
  <2> QED
    BY <1>4, <2>1 DEF Fetched, lane
<1> HIDE DEF P
<1>8. \A q \in P : q.start \in Nat /\ q.len \in Nat /\ q.len # 0
  BY <1>6
<1> QED
  BY <1>5, <1>7, <1>8 DEF P, lane

LEMMA ReadInvStitches ==
    ASSUME TotalsAreTrue, ReadInv
    PROVE  ReadIsWhole
<1> DEFINE P == PagesOf(read.lane)
           d == read.job.device
<1> SUFFICES ASSUME \A l \in 1 .. Lanes : read.lane[l].pc = "done"
             PROVE  Stitched(read.lane) = Min({read.job.total, d})
  BY DEF ReadIsWhole
<1>1. d \in Nat /\ read.job.total \in Nat /\ d <= read.job.total
  BY ReadFields DEF ReadInv, ReadIsRight, TotalsAreTrue
<1>2. Min({read.job.total, d}) = d
  <2>1. Min({read.job.total, d}) = IF read.job.total <= d THEN read.job.total ELSE d
    BY <1>1, LesserOfTwo
  <2> QED
    BY <1>1, <2>1
<1>3. \A i \in Nat : i < d <=> Fetched(read, i)
  <2>1. \A i \in Nat : i < d => i < read.job.total
    BY <1>1
  <2> QED
    BY <2>1, ReadInvHelps DEF ReadsLeaveNoGap
<1>4. /\ IsFiniteSet(P)
      /\ \A q \in P : q.start \in Nat /\ q.len \in Nat /\ q.len # 0
      /\ \A i : Fetched(read, i) <=> \E q \in P : i \in Items(q)
  BY PagesOfLanes
<1> HIDE DEF P, d
<1>5. Cover(P, d)
  <2>1. ASSUME NEW q \in P PROVE q.start + q.len <= d
    <3> DEFINE last == q.start + q.len - 1
    <3>1. q.start \in Nat /\ q.len \in Nat /\ q.len # 0
      BY <1>4
    <3>2. last \in Nat /\ last \in Items(q)
      BY <3>1 DEF Items
    <3>3. last < d
      BY <1>3, <1>4, <3>2
    <3> QED
      BY <1>1, <3>1, <3>3
  <2>2. ASSUME NEW i \in Nat, i < d
        PROVE  \E q \in P : q.start <= i /\ i < q.start + q.len
    <3>1. PICK q \in P : i \in Items(q)
      BY <1>3, <1>4, <2>2
    <3>2. q.start \in Nat /\ q.len \in Nat
      BY <1>4
    <3> QED
      BY <3>1, <3>2 DEF Items
  <2> QED
    BY <1>4, <2>1, <2>2 DEF Cover
<1>6. Cardinality(P) \in Nat
  BY <1>4, FS_CardinalityType
<1>7. PICK o : TurnsOf(P, Cardinality(P), o) /\ Stitched(read.lane) = o[Cardinality(P)].len
  BY <1>6, StitchedIsLast DEF P
<1>8. o[Cardinality(P)].len = d
  BY <1>1, <1>4, <1>5, <1>7, StitchIsWhole
<1> QED
  BY <1>2, <1>7, <1>8

-----------------------------------------------------------------------------
(* The parts side by side.                                                 *)

SmallInv ==
    /\ EncoderInv /\ BankInv /\ DebounceInv /\ AutoInv /\ MouseInv /\ ReadInv /\ WriteInv
    /\ ForksHold /\ PatternsInv

LEMMA EncoderInitially ==
    ASSUME enc \in EncoderStarts
    PROVE  EncoderInv
<1>1. PICK p \in Phases, k \in 0 .. 3 :
        enc = [phase |-> p, knob |-> k, state |-> NoState, pulses |-> 0, last |-> 0,
               quiet |-> 0, ahead |-> 0, due |-> 0]
  BY DEF EncoderStarts
<1>2. p.resolution \in 1 .. 127
  BY EncoderPhases
<1>3. EncoderTypes
  BY <1>1 DEF EncoderTypes, NoState, Ways
<1> QED
  BY <1>1, <1>2, <1>3 DEF EncoderInv, StepsAccountForTurn

LEMMA DebounceInitially ==
    ASSUME deb \in DebounceStarts
    PROVE  DebounceInv
<1>1. PICK fast \in BOOLEAN, async \in BOOLEAN :
        deb = [fast |-> fast, async |-> async, contact |-> FALSE, clock |-> 0, pressed |-> FALSE,
               since |-> 0, waiting |-> FALSE, rescan |-> FALSE, scanned |-> FALSE, skips |-> 0,
               differs |-> -1, gap |-> Threshold + 1, atZero |-> FALSE, stale |-> FALSE]
  BY DEF DebounceStarts
<1>2. 0 \in Clocks /\ -1 \in -1 .. Threshold /\ Threshold + 1 \in 0 .. Threshold + 1
  BY DebounceSizes DEF Clocks
<1>3. DebounceTypes
  BY <1>1, <1>2 DEF DebounceTypes, DebounceStates
<1> QED
  BY <1>1, <1>3 DEF DebounceInv, TimedByScans, TimedByReport

LEMMA BankInitially ==
    ASSUME bank \in BankStarts
    PROVE  BankInv
<1> SUFFICES ASSUME NEW flash \in [Chunks -> Stored], bank = Booted(flash, 0),
                    \A c \in Chunks : flash[c] # NotStored => flash[0] # NotStored
             PROVE  BankInv
  <2>1. [c \in Chunks |-> NotStored] \in [Chunks -> Stored]
    BY DEF Stored
  <2>2. ChunkDefaults \in [Chunks -> Stored] /\ \A c \in Chunks : ChunkDefaults[c] # NotStored
    BY MacroChunks DEF Stored, NotStored
  <2> QED
    BY <2>1, <2>2, MacroChunks DEF BankStarts
<1> QED
  BY BootedFacts DEF BankInv, BankTypes, ZeroFirst, ChunkIsRight

LEMMA SmallInitially == Init => SmallInv
<1> SUFFICES ASSUME Init PROVE SmallInv
  OBVIOUS
<1>1. \A p, S : S # {} => Starts(p, S) \subseteq S
  BY DEF Starts
<1>2. enc \in EncoderStarts
  <2>1. EncoderStarts # {}
    <3>1. PICK p \in Phases : TRUE
      BY EncoderPhases
    <3> DEFINE e == [phase |-> p, knob |-> 0, state |-> NoState, pulses |-> 0, last |-> 0,
                     quiet |-> 0, ahead |-> 0, due |-> 0]
    <3>2. 0 \in 0 .. 3
      OBVIOUS
    <3>3. e \in EncoderStarts
      BY <3>1, <3>2 DEF EncoderStarts
    <3> QED
      BY <3>3
  <2> QED
    BY <1>1, <2>1 DEF Init
<1>3. bank \in BankStarts
  <2>1. BankStarts # {}
    BY DEF BankStarts
  <2> QED
    BY <1>1, <2>1 DEF Init
<1>4. deb \in DebounceStarts
  <2>1. DebounceStarts # {}
    <3> DEFINE d(fast, async) ==
                   [fast |-> fast, async |-> async, contact |-> FALSE, clock |-> 0,
                    pressed |-> FALSE, since |-> 0, waiting |-> FALSE, rescan |-> FALSE,
                    scanned |-> FALSE, skips |-> 0, differs |-> -1, gap |-> Threshold + 1,
                    atZero |-> FALSE, stale |-> FALSE]
    <3>1. DebounceStarts = {d(fast, async) : fast \in BOOLEAN, async \in BOOLEAN}
      BY DEF DebounceStarts
    <3> HIDE DEF d
    <3>2. \A fast \in BOOLEAN, async \in BOOLEAN :
              d(fast, async) \in {d(f, a) : f \in BOOLEAN, a \in BOOLEAN}
      OBVIOUS
    <3>3. TRUE \in BOOLEAN
      OBVIOUS
    <3>4. PICK fast \in BOOLEAN : TRUE
      BY <3>3
    <3>5. d(fast, fast) \in {d(f, a) : f \in BOOLEAN, a \in BOOLEAN}
      BY <3>2, <3>4
    <3> QED
      BY <3>1, <3>5
  <2> QED
    BY <1>1, <2>1 DEF Init
<1>5. auto \in AutoStarts
  <2>1. AutoStarts # {}
    BY AutoMouseEntries DEF AutoStarts
  <2> QED
    BY <1>1, <2>1 DEF Init
<1>6. mouse \in MouseStarts
  <2>1. MouseStarts # {}
    BY MouseSizes DEF MouseStarts
  <2> QED
    BY <1>1, <2>1 DEF Init
<1>7. write \in WriteStarts
  <2>1. WriteStarts # {}
    <3>1. PICK j \in WriteJobs : TRUE
      BY PageSizes
    <3> QED
      BY <3>1 DEF WriteStarts
  <2> QED
    BY <1>1, <2>1 DEF Init
<1>8. read \in ReadStarts
  <2>1. ReadStarts # {}
    <3>1. PICK j \in ReadJobs : TRUE
      BY PageSizes
    <3> QED
      BY <3>1 DEF ReadStarts
  <2> QED
    BY <1>1, <2>1 DEF Init
<1>9. fk \in ForkStarts
  <2>1. ForkStarts # {}
    <3>1. PICK b \in ForkBoards : TRUE
      BY ForkSizes
    <3> QED
      BY <3>1 DEF ForkStarts
  <2> QED
    BY <1>1, <2>1 DEF Init
<1>10. ForksHold
  BY <1>9, ForksInitially DEF ForksHold
<1>11. PatternsInv
  BY PatternsInitially DEF Init
<1> QED
  BY <1>2, <1>3, <1>4, <1>5, <1>6, <1>7, <1>8, <1>10, <1>11, EncoderInitially, BankInitially,
     DebounceInitially, AutoInitially, MouseInitially, ReadInitially, WriteInitially DEF SmallInv

\* A step is one of a part's, or leaves it alone.
LEMMA StepsOfParts ==
    ASSUME [Next]_parts
    PROVE  /\ EncoderNext \/ UNCHANGED enc
           /\ BankNext \/ UNCHANGED bank
           /\ DebounceNext \/ UNCHANGED deb
           /\ AutoNext \/ UNCHANGED auto
           /\ MouseNext \/ UNCHANGED mouse
           /\ ReadNext \/ UNCHANGED read
           /\ WriteNext \/ UNCHANGED write
           /\ ForksNext \/ UNCHANGED fk
           /\ PatternsNext \/ UNCHANGED <<steps, other>>
BY DEF Next, parts, patterns

LEMMA SmallStep == SmallInv /\ [Next]_parts => SmallInv'
<1> SUFFICES ASSUME SmallInv, [Next]_parts PROVE SmallInv'
  OBVIOUS
<1>1. EncoderInv'
  <2>1. CASE EncoderNext
    BY <2>1, EncoderStep DEF SmallInv
  <2>2. CASE UNCHANGED enc
    BY <2>2 DEF SmallInv, EncoderInv, EncoderTypes, StepsAccountForTurn
  <2> QED
    BY <2>1, <2>2, StepsOfParts
<1>2. BankInv'
  <2>1. CASE BankNext
    BY <2>1, BankStep DEF SmallInv
  <2>2. CASE UNCHANGED bank
    BY <2>2 DEF SmallInv, BankInv, BankTypes, ZeroFirst, ChunkIsRight
  <2> QED
    BY <2>1, <2>2, StepsOfParts
<1>3. DebounceInv'
  <2>1. CASE DebounceNext
    BY <2>1, DebounceStep DEF SmallInv
  <2>2. CASE UNCHANGED deb
    BY <2>2 DEF SmallInv, DebounceInv, DebounceTypes
  <2> QED
    BY <2>1, <2>2, StepsOfParts
<1>4. AutoInv'
  <2>1. CASE AutoNext
    BY <2>1, AutoStep DEF SmallInv
  <2>2. CASE UNCHANGED auto
    BY <2>2 DEF SmallInv, AutoInv
  <2> QED
    BY <2>1, <2>2, StepsOfParts
<1>5. MouseInv'
  <2>1. CASE MouseNext
    BY <2>1, MouseStep DEF SmallInv
  <2>2. CASE UNCHANGED mouse
    BY <2>2 DEF SmallInv, MouseInv
  <2> QED
    BY <2>1, <2>2, StepsOfParts
<1>6. WriteInv'
  <2>1. CASE WriteNext
    BY <2>1, WriteStep DEF SmallInv
  <2>2. CASE UNCHANGED write
    BY <2>2 DEF SmallInv, WriteInv, PagesFit
  <2> QED
    BY <2>1, <2>2, StepsOfParts
<1>7. ReadInv'
  <2>1. CASE ReadNext
    BY <2>1, ReadStep DEF SmallInv
  <2>2. CASE UNCHANGED read
    BY <2>2 DEF SmallInv, ReadInv
  <2> QED
    BY <2>1, <2>2, StepsOfParts
<1>8. ForksHold'
  <2>1. CASE ForksNext
    BY <2>1, ForksStep DEF SmallInv
  <2>2. CASE UNCHANGED fk
    BY <2>2 DEF SmallInv, ForksHold
  <2> QED
    BY <2>1, <2>2, StepsOfParts
<1>9. PatternsInv'
  BY StepsOfParts, PatternsStep DEF SmallInv
<1> QED
  BY <1>1, <1>2, <1>3, <1>4, <1>5, <1>6, <1>7, <1>8, <1>9 DEF SmallInv

\* The inductive invariant of the parts.
THEOREM SmallPartsAreSound == Spec => []SmallInv
BY SmallInitially, SmallStep, PTL DEF Spec

\* With any phase and any resolution an i8 holds, the steps of an encoder stand for all the edges
\* its samples saw but for the pulses kept, however the knob turns back and forth and whatever the
\* debounce interval suppresses (ResolutionPhase, DefaultPhase, debounce_check).
THEOREM StepsAreCounted == Spec => []StepsAccountForTurn
<1>1. SmallInv => StepsAccountForTurn
  BY DEF SmallInv, EncoderInv
<1> QED
  BY <1>1, SmallPartsAreSound, PTL

\* With any number of sessions and chunks, a boot loads the macros that play, whichever the order
\* of edits, saves that stop half way and power cycles, but for the chunks that the code loses
\* (persist: chunk 0 is always written, so that the defaults do not come back).
THEOREM MacrosBoot == Spec => []SavedMacrosBoot
<1>1. SmallInv => SavedMacrosBoot
  <2> SUFFICES ASSUME BankInv, \A e \in Editors : ~ bank.job[e].on,
                      NEW c \in Chunks \ bank.stale
               PROVE  BootedMacros(bank.flash)[c] = bank.ram[c]
    BY DEF SmallInv, SavedMacrosBoot
  <2>1. \A e \in Editors : bank.job[e].left = {}
    BY DEF BankInv, ZeroFirst
  <2>2. ChunkIsRight(c)
    BY DEF BankInv
  <2>3. 0 \in Chunks
    BY MacroChunks
  <2>4. CASE bank.flash[c] # NotStored
    BY <2>1, <2>2, <2>4 DEF ChunkIsRight, BootedMacros
  <2>5. CASE bank.flash[c] = NotStored /\ bank.flash[0] # NotStored
    BY <2>1, <2>2, <2>3, <2>5 DEF ChunkIsRight, BootedMacros
  <2>6. CASE bank.flash[c] = NotStored /\ bank.flash[0] = NotStored
    <3>1. \A d \in Chunks : bank.flash[d] = NotStored
      BY <2>6 DEF BankInv, ZeroFirst
    <3> QED
      BY <2>1, <2>2, <2>6, <3>1 DEF ChunkIsRight, BootedMacros
  <2> QED
    BY <2>4, <2>5, <2>6
<1> QED
  BY <1>1, SmallPartsAreSound, PTL

\* With any threshold and any clock, a change is reported when every scan has seen it for the
\* threshold, across the wrap of the clock and the millisecond that reads 0 (DefaultDebouncer), and
\* two reports of a key are more than the threshold apart (FastDebouncer); but for what the
\* properties excuse.
THEOREM DebouncersKeepTime == Spec => ChangeIsStable /\ ReportsAreApart
<1>1. /\ SmallInv /\ [Next]_parts =>
            [deb.fast \/ ~Reports \/ deb.stale \/ deb.differs = Threshold]_deb
      /\ SmallInv /\ [Next]_parts =>
            [deb.fast /\ Reports => deb.gap > Threshold \/ deb.atZero]_deb
  BY DebounceStep, StepsOfParts DEF SmallInv
<1> QED
  BY <1>1, SmallPartsAreSound, PTL DEF Spec, ChangeIsStable, ReportsAreApart

\* With any entries, however motions, layer keys and late events meet, a layer stays on while its
\* devices move, but for a layer key that cuts it (pointing_step, release_and_deactivate).
THEOREM LayerStaysWhileMoving == Spec => []StaysWhileMoving
<1>1. SmallInv => StaysWhileMoving
  BY AutoInvHelps DEF SmallInv
<1> QED
  BY <1>1, SmallPartsAreSound, PTL

\* A deadline of the task takes no layer that a key turned on after the task had turned it on, but
\* for one that keys switched off and on before the task saw it (on_deadline, on_layer_change_event).
THEOREM DeadlinesSpareKeys == Spec => TimeoutSparesKeys
<1>1. SmallInv /\ [Next]_parts =>
        [Deadline => \A l \in auto.on \ auto'.on : auto.owner[l] = "auto" \/ l \in auto.raced]_auto
  BY DeadlineIsRight DEF SmallInv
<1> QED
  BY <1>1, SmallPartsAreSound, PTL DEF Spec, TimeoutSparesKeys

\* With any keys on the board, several for one direction too, the pointer and the wheel go no way
\* that the keys which are down do not add up to (DirectionState::update, recalculate_report).
THEOREM PointerDoesNotDrift == Spec => []PointerFollowsKeys
<1>1. SmallInv => PointerFollowsKeys
  BY MouseInvHelps DEF SmallInv
<1> QED
  BY <1>1, SmallPartsAreSound, PTL

\* With any configuration whose maximum speeds are not zero, a repeat never slows a key down, and
\* every speed is positive and at most the maximum of a report (calculate_unit).
THEOREM SpeedNeverDrops ==
    ASSUME TopSpeedsAreSet
    PROVE  Spec => []SpeedGrows
<1>1. SmallInv => SpeedGrows
  BY TopSpeedsAreSet, MouseInvSpeeds DEF SmallInv
<1> QED
  BY <1>1, SmallPartsAreSound, PTL

\* With any items, budgets and number of lanes, every page of a write fits the payload with the
\* count it has in the end, and a write that no lane was refused has stored every item
\* (split_pages, write_all).
THEOREM WritesAreWhole == Spec => [](PagesFit /\ WriteIsWhole)
<1>1. SmallInv => PagesFit /\ WriteIsWhole
  BY WriteInvHelps DEF SmallInv
<1> QED
  BY <1>1, SmallPartsAreSound, PTL

\* With any total, device, spacing and number of lanes, however short the pages were and however
\* often the device was busy, the pages of a read that succeeds leave no gap (read_all).
THEOREM ReadsAreGapless == Spec => []ReadsLeaveNoGap
<1>1. SmallInv => ReadsLeaveNoGap
  BY ReadInvHelps DEF SmallInv
<1> QED
  BY <1>1, SmallPartsAreSound, PTL

\* So a read that succeeds returns every item of a device that has no more of them than its
\* capabilities say: the stitch takes all pages, in order, and meets no gap; and what is written
\* is stored whole (read_all, write_all).
THEOREM PagesStayWhole ==
    ASSUME TotalsAreTrue
    PROVE  Spec => []PagesAreWhole
<1>1. SmallInv => PagesAreWhole
  BY TotalsAreTrue, ReadInvStitches, WriteInvHelps DEF SmallInv, PagesAreWhole
<1> QED
  BY <1>1, SmallPartsAreSound, PTL

\* On any board, whatever forks, macros and edits it has: what a fork put in place of a key goes up
\* with the key, no modifier pressed since is suppressed, caps word shifts letters only, and the
\* modifiers of a text come back (try_start_forks, register_key, CapsWordState::check, fire_macro).
\* Where forks that keep modifiers fire keycodes, the host shows what is registered and in force;
\* where macros release what they press, nothing stays down behind them; and where a report has
\* room for every keycode, no macro takes a key away.
THEOREM ForksAndMacrosEnd ==
    Spec => [](/\ ForksEndWithKey /\ FreshModifierCounts /\ CapsWordShiftsLetters
               /\ TextGivesModifiersBack
               /\ KeepersFireKeys => ReportIsCurrent
               /\ MacrosBalance => MacrosEnd
               /\ ReportsHaveRoom => HeldKeysStay)
<1> DEFINE P == /\ ForksEndWithKey /\ FreshModifierCounts /\ CapsWordShiftsLetters
                /\ TextGivesModifiersBack
                /\ KeepersFireKeys => ReportIsCurrent
                /\ MacrosBalance => MacrosEnd
                /\ ReportsHaveRoom => HeldKeysStay
<1>1. SmallInv => P
  BY ForksLeaveNothing, ReportsAreCurrent, MacrosDoEnd, KeysHeldStay DEF SmallInv
<1> HIDE DEF P
<1>2. Spec => []P
  BY <1>1, SmallPartsAreSound, PTL
<1> QED
  BY <1>2 DEF P

\* So what is pressed in place of a key, or by a macro, comes up again and the host sees it, on any
\* board whose configuration gives these three.
THEOREM ReplacedKeysStaySound ==
    ASSUME KeepersFireKeys, MacrosBalance, ReportsHaveRoom
    PROVE  Spec => []ReplacedKeysAreSound
<1>1. SmallInv => ReplacedKeysAreSound
  BY KeepersFireKeys, MacrosBalance, ReportsHaveRoom, ForksAllSound DEF SmallInv
<1> QED
  BY <1>1, SmallPartsAreSound, PTL

\* With words of any width, every pattern of as many steps as fit has the length, the last step
\* and the "all taps" of its sequence, no two sequences have the same pattern, a pattern starts
\* with another when the sequences do, and a prediction is final (MorsePattern,
\* try_predict_final_action).
THEOREM PatternsAreSequences == Spec => []PatternsAgree
<1>1. SmallInv => PatternsAgree
  BY PatternsInvHelps DEF SmallInv
<1> QED
  BY <1>1, SmallPartsAreSound, PTL

=============================================================================
