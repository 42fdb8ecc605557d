----------------------------- MODULE RynkProofs -----------------------------
(***************************************************************************)
(* TLAPS proofs about Rynk, for any sizes of the buffers, queues and       *)
(* numbers, any program and any scenario.                                  *)
(*                                                                         *)
(* A program that listens knows the layer at rest: this needs the value of *)
(* every topic and layer reply on its way, and that nothing which shows    *)
(* the handshake done is under way before it is.  A reply reaches its      *)
(* request: this needs the number of everything on its way, and holds as   *)
(* long as numbers are free when they are handed out.                      *)
(***************************************************************************)
EXTENDS Rynk, FiniteSetTheorems, TLAPS

-----------------------------------------------------------------------------
(* The invariant.                                                          *)

Statuses == {"no", "slot", "queue", "wait", "done", "err", "gone"}
Request  == [cmd : Commands, seq : 0 .. MaxSeq, era : Nat, id : Nat]
Cell     == [of : Frame, part : 1 .. 2, last : BOOLEAN]
Drivers  == Calls \union {Nobody, Resident, TopicPull}

\* A slot belongs to one call, which has claimed it and not yet given it back.
OwnerInv ==
    /\ \A i \in Calls : call[i] \in {"queue", "wait"} => \E s \in Slots : owner[s] = i
    /\ \A s \in Slots : owner[s] # 0 => call[owner[s]] \in {"queue", "wait"}
    /\ \A s \in Slots : \A t \in Slots : owner[s] = owner[t] /\ owner[s] # 0 => s = t

\* The free list holds every slot that nobody owns, once.
FreeInv ==
    /\ free \in Seq(Slots)
    /\ \A s \in Slots : owner[s] = 0 <=> \E k \in DOMAIN free : free[k] = s
    /\ \A j, k \in DOMAIN free : free[j] = free[k] => j = k

ClientTypes ==
    /\ call \in [Calls -> Statuses] /\ owner \in [Slots -> Calls \union {0}]
    /\ slotSeq \in [Slots -> 0 .. MaxSeq] /\ \A s \in Slots : owner[s] # 0 <=> slotSeq[s] # 0
    /\ resp \in [Slots -> Reply] /\ nextSeq \in 1 .. MaxSeq
    /\ message \in Seq(Request) /\ Len(message) <= 1
    /\ OwnerInv

HostTypes ==
    /\ pump \in Drivers /\ phase \in {"zero", "loop"} /\ sending \in Seq(Cell)
    /\ topics \in Seq(Nat) /\ Len(topics) <= TopicCap /\ seen \in Nat /\ fetched \in BOOLEAN
    /\ era \in Nat /\ left \in Scenario

\* Whoever holds the keys, or found the session unlocked, has shown the keys to it.
PresenceInv == unlocked \/ held => shown

BoardTypes ==
    /\ down \in Seq(Cell) /\ Len(down) <= DownCap /\ up \in Seq(Reply) /\ Len(up) <= UpCap
    /\ dbuf \in Seq(Cell) /\ Len(dbuf) <= Buffer /\ discarding \in BOOLEAN
    /\ handshaked \in BOOLEAN /\ tdev \in Seq(Nat) /\ layer \in Nat /\ held \in BOOLEAN
    /\ broken \in BOOLEAN /\ unlocked \in BOOLEAN /\ shown \in BOOLEAN /\ PresenceInv

\* What the program learns from: topics and replies with the layer.
IsTopic(r) == r.res = "topic"
IsCaps(r)  == r.res = "ok" /\ r.f.cmd = "caps"
Tells(r)   == IsTopic(r) \/ (r.res = "ok" /\ r.f.cmd = "layer")
Asks(q)    == \E k \in 1 .. Len(q) : q[k].of.cmd = "layer"

\* Before the handshake nothing is on its way that a connected program sends or gets.
HandshakeInv ==
    ~ handshaked =>
        /\ ~ fetched /\ topics = <<>> /\ call[2] # "done"
        /\ \A i \in Calls : i >= 3 => call[i] = "no"
        /\ \A k \in 1 .. Len(up) : ~ Tells(up[k]) /\ ~ IsCaps(up[k])
        /\ \A s \in Slots : ~ IsCaps(resp[s])
        /\ \A k \in 1 .. Len(message) : message[k].cmd # "layer"
        /\ ~ Asks(sending) /\ ~ Asks(down) /\ ~ Asks(dbuf)

\* The newest layer is the one the session has yet to forward, or it is told after everything
\* else, or the program knows it.
Told(k) == \E j \in k .. Len(up) : IsTopic(up[j]) /\ up[j].val = layer
Known   == IF topics = <<>> THEN seen ELSE topics[Len(topics)]
CatchInv ==
    /\ tdev = <<>> \/ tdev = <<layer>>
    /\ \A k \in 1 .. Len(up) : Tells(up[k]) => tdev # <<>> \/ up[k].val = layer \/ Told(k)
    /\ fetched \/ topics # <<>> => tdev # <<>> \/ Told(1) \/ layer = Known

RynkInv == /\ ClientTypes /\ FreeInv /\ HostTypes /\ BoardTypes
           /\ ~ broken => HandshakeInv /\ CatchInv

-----------------------------------------------------------------------------
(* Helpers.                                                                *)

LEMMA Sizes ==
    /\ MaxSlots \in Nat /\ MaxSeq \in Nat /\ DownCap \in Nat /\ UpCap \in Nat /\ TopicCap \in Nat
    /\ Buffer \in Nat
    /\ MaxSlots >= 1 /\ MaxSeq >= 1 /\ DownCap >= 1 /\ UpCap >= 1 /\ TopicCap >= 1 /\ Buffer >= 2
BY RynkSizes

LEMMA Least ==
    ASSUME NEW T, T \subseteq Nat, T # {}
    PROVE  \E x \in T : \A y \in T : x <= y
<1> DEFINE R == OpToRel(<, Nat)
<1>1. IsWellFoundedOn(R, Nat)
  BY NatLessThanWellFounded
<1>2. \A x, y \in Nat : x < y => <<x, y>> \in R
  BY DEF OpToRel
<1> HIDE DEF R
<1>3. PICK x \in T : \A y \in T : ~ (<<y, x>> \in R)
  BY <1>1, WFMin
<1>4. ASSUME NEW y \in T PROVE x <= y
  <2>1. x \in Nat /\ y \in Nat
    OBVIOUS
  <2>2. ~ (y < x)
    BY <1>2, <1>3, <2>1
  <2> QED
    BY <2>1, <2>2
<1> QED
  BY <1>4

\* The first frame of a buffer ends in it.
LEMMA EndOfType ==
    ASSUME NEW b \in Seq(Cell)
    PROVE  /\ EndOf(b) \in 0 .. Len(b)
           /\ EndOf(b) # 0 => b[EndOf(b)].last
<1>1. DOMAIN b = 1 .. Len(b) /\ Len(b) \in Nat
  OBVIOUS
<1>2. CASE \E k \in DOMAIN b : b[k].last
  <2> DEFINE T == {k \in DOMAIN b : b[k].last}
  <2>1. T \subseteq Nat /\ T # {} /\ T \subseteq 1 .. Len(b)
    BY <1>1, <1>2
  <2>2. PICK x \in T : \A y \in T : x <= y
    <3> HIDE DEF T
    <3> QED
      BY <2>1, Least
  <2>3. x \in DOMAIN b /\ b[x].last /\ \A j \in 1 .. x - 1 : ~ b[j].last
    <3>1. x \in 1 .. Len(b) /\ b[x].last
      BY <1>1
    <3>2. ASSUME NEW j \in 1 .. x - 1 PROVE ~ b[j].last
      <4>1. j \in DOMAIN b /\ ~ (x <= j)
        BY <1>1, <3>1
      <4> QED
        BY <2>2, <4>1
    <3> QED
      BY <1>1, <3>1, <3>2
  <2>4. EndOf(b) \in DOMAIN b /\ b[EndOf(b)].last
    BY <1>2, <2>3 DEF EndOf
  <2> QED
    BY <1>1, <2>4
<1>3. CASE ~ \E k \in DOMAIN b : b[k].last
  BY <1>1, <1>3 DEF EndOf
<1> QED
  BY <1>2, <1>3

LEMMA Slices ==
    ASSUME NEW S, NEW q \in Seq(S), NEW m \in Nat, NEW n \in Nat, n <= Len(q)
    PROVE  /\ SubSeq(q, m + 1, n) \in Seq(S)
           /\ Len(SubSeq(q, m + 1, n)) = IF m < n THEN n - m ELSE 0
           /\ \A k \in 1 .. Len(SubSeq(q, m + 1, n)) :
                 k + m \in 1 .. Len(q) /\ SubSeq(q, m + 1, n)[k] = q[k + m]
OBVIOUS

LEMMA Empty ==
    ASSUME NEW S
    PROVE  <<>> \in Seq(S) /\ Len(<<>>) = 0
OBVIOUS

LEMMA NoneLeft ==
    ASSUME NEW S, NEW q \in Seq(S)
    PROVE  Len(q) = 0 <=> q = <<>>
OBVIOUS

LEMMA Single ==
    ASSUME NEW S, NEW x \in S
    PROVE  <<x>> \in Seq(S) /\ Len(<<x>>) = 1 /\ <<x>>[1] = x /\ <<x>> # <<>>
OBVIOUS

LEMMA Tails ==
    ASSUME NEW S, NEW q \in Seq(S), q # <<>>
    PROVE  /\ Head(q) \in S /\ Head(q) = q[1] /\ Tail(q) \in Seq(S)
           /\ Len(q) \in Nat /\ Len(q) >= 1 /\ Len(Tail(q)) = Len(q) - 1
           /\ \A k \in 1 .. Len(q) - 1 : k + 1 \in 1 .. Len(q) /\ Tail(q)[k] = q[k + 1]
OBVIOUS

LEMMA LastOne ==
    ASSUME NEW S, NEW q \in Seq(S), q # <<>>, Tail(q) = <<>>
    PROVE  Len(q) = 1
<1> DEFINE t == Tail(q)
<1>1. t \in Seq(S) /\ Len(t) = Len(q) - 1 /\ Len(q) \in Nat
  OBVIOUS
<1>2. t = <<>>
  OBVIOUS
<1> HIDE DEF t
<1>3. Len(t) = 0
  BY <1>1, <1>2, NoneLeft
<1> QED
  BY <1>1, <1>3

LEMMA Appended ==
    ASSUME NEW S, NEW q \in Seq(S), NEW x \in S
    PROVE  /\ Append(q, x) \in Seq(S) /\ Append(q, x) # <<>>
           /\ Len(q) \in Nat /\ Len(Append(q, x)) = Len(q) + 1
           /\ \A k \in 1 .. Len(q) : Append(q, x)[k] = q[k]
           /\ Append(q, x)[Len(q) + 1] = x
OBVIOUS

LEMMA Scenarios_ ==
    ASSUME left \in Scenario
    PROVE  left.calls \in Seq(Commands) /\ Calls \subseteq Nat \ {0} /\ {1, 2} \subseteq Calls
           /\ \A i \in Calls : Cmd(i) \in Commands
<1>1. left.calls \in Seq(Commands) /\ Len(left.calls) \in Nat
  BY DEF Scenario
<1>2. Calls \subseteq Nat \ {0} /\ {1, 2} \subseteq Calls
  BY <1>1 DEF Calls
<1>3. ASSUME NEW i \in Calls PROVE Cmd(i) \in Commands
  <2>1. "version" \in Commands /\ "caps" \in Commands
    BY DEF Commands
  <2>2. i # 1 /\ i # 2 => i - 2 \in 1 .. Len(left.calls)
    BY <1>1 DEF Calls
  <2>3. i # 1 /\ i # 2 => left.calls[i - 2] \in Commands
    BY <1>1, <2>2
  <2> QED
    BY <2>1, <2>3 DEF Cmd
<1> QED
  BY <1>1, <1>2, <1>3

\* The bounds change, the program does not.
LEMMA Spent ==
    ASSUME left \in Scenario, NEW w \in {"cancel", "changes", "press", "restart", "junk", "txerr"},
           Spend(w)
    PROVE  left' \in Scenario /\ left'.calls = left.calls
<1>1. left[w] > 0 /\ left' = [left EXCEPT ![w] = left[w] - 1]
  BY DEF Spend
<1>2. left[w] \in Nat
  BY DEF Scenario
<1>3. left[w] - 1 \in Nat
  BY <1>1, <1>2
<1> QED
  BY <1>1, <1>3 DEF Scenario

LEMMA SameProgram ==
    ASSUME left'.calls = left.calls
    PROVE  Calls' = Calls /\ \A i : Cmd(i)' = Cmd(i)
BY DEF Calls, Cmd

-----------------------------------------------------------------------------
(* Types of the client.                                                    *)

LEMMA Nones ==
    /\ NoFrame \in Frame /\ NoReply \in Reply
    /\ Request \subseteq Frame /\ Zero \in Cell /\ Junk \in Cell
BY Sizes DEF NoFrame, NoReply, Frame, Reply, Request, Zero, Junk, Unit, Cell

LEMMA LeftStep ==
    ASSUME left \in Scenario, Next
    PROVE  left' \in Scenario /\ left'.calls = left.calls
<1>1. CASE left' = left
  BY <1>1
<1>2. CASE \E w \in {"cancel", "changes", "press", "restart", "junk", "txerr"} : Spend(w)
  BY <1>2, Spent
<1> QED
  BY <1>1, <1>2
  DEF Next, Call, Claim, Queue, Complete, Cancel, TakePump, TakeTopic, WritesZero, WritesFrame,
      Carries, Reads, ProgramRestarts, Probe, DeviceReads, Serve, Answers, Forward, LayerChanges,
      KeysChange

\* The program as it starts.
LEMMA FreshClient ==
    ASSUME left \in Scenario, call = NoCalls, owner = AllFree, slotSeq = AllFree, resp = NoResp,
           nextSeq = 1, message = <<>>
    PROVE  ClientTypes
<1>1. call \in [Calls -> Statuses] /\ \A i \in Calls : call[i] = "no"
  BY DEF NoCalls, Statuses
<1>2. owner \in [Slots -> Calls \union {0}] /\ \A s \in Slots : owner[s] = 0
  BY DEF AllFree
<1>3. slotSeq \in [Slots -> 0 .. MaxSeq] /\ \A s \in Slots : slotSeq[s] = 0
  BY Sizes DEF AllFree
<1>4. resp \in [Slots -> Reply]
  BY Nones DEF NoResp
<1>5. nextSeq \in 1 .. MaxSeq
  BY Sizes
<1>6. OwnerInv
  BY <1>1, <1>2 DEF OwnerInv
<1> QED
  BY <1>1, <1>2, <1>3, <1>4, <1>5, <1>6 DEF ClientTypes

LEMMA FreshFree ==
    /\ InOrder \in Seq(Slots)
    /\ \A s \in Slots : AllFree[s] = 0 <=> \E k \in DOMAIN InOrder : InOrder[k] = s
    /\ \A j, k \in DOMAIN InOrder : InOrder[j] = InOrder[k] => j = k
<1>1. MaxSlots \in Nat /\ InOrder = [k \in 1 .. MaxSlots |-> k]
  BY Sizes DEF InOrder, Slots
<1>2. InOrder \in [1 .. MaxSlots -> Slots]
  BY <1>1 DEF Slots
<1>3. InOrder \in Seq(Slots)
  BY <1>1, <1>2
<1>4. DOMAIN InOrder = Slots /\ \A k \in Slots : InOrder[k] = k
  BY DEF InOrder
<1>5. \A s \in Slots : AllFree[s] = 0
  BY DEF AllFree
<1> QED
  BY <1>3, <1>4, <1>5

LEMMA OwnerFacts ==
    ASSUME ClientTypes, left \in Scenario
    PROVE  /\ \A i \in Calls : call[i] \in {"queue", "wait"} =>
                 /\ SlotOf(i) \in Slots /\ owner[SlotOf(i)] = i
                 /\ \A s \in Slots : owner[s] = i => s = SlotOf(i)
           /\ \A s \in Slots : owner[s] # 0 => owner[s] \in Calls
<1>1. ASSUME NEW i \in Calls, call[i] \in {"queue", "wait"}
      PROVE  /\ SlotOf(i) \in Slots /\ owner[SlotOf(i)] = i
             /\ \A s \in Slots : owner[s] = i => s = SlotOf(i)
  <2>1. \E s \in Slots : owner[s] = i
    BY <1>1 DEF ClientTypes, OwnerInv
  <2>2. SlotOf(i) \in Slots /\ owner[SlotOf(i)] = i
    BY <2>1 DEF SlotOf
  <2>3. i # 0
    BY Scenarios_
  <2> QED
    BY <2>2, <2>3 DEF ClientTypes, OwnerInv
<1>2. \A s \in Slots : owner[s] # 0 => owner[s] \in Calls
  BY DEF ClientTypes
<1> QED
  BY <1>1, <1>2

\* A call whose slot, if it has one, is given back.
LEMMA Freed ==
    ASSUME ClientTypes, left \in Scenario, left'.calls = left.calls,
           NEW i \in Calls, NEW v \in {"done", "err", "gone"}, call' = [call EXCEPT ![i] = v],
           \/ call[i] \in {"queue", "wait"} /\ Frees(SlotOf(i))
           \/ call[i] = "slot" /\ UNCHANGED <<owner, slotSeq, resp>>,
           UNCHANGED <<nextSeq, message>>
    PROVE  ClientTypes'
<1>1. Calls' = Calls /\ i # 0 /\ v \in Statuses
  BY SameProgram, Scenarios_ DEF Statuses
<1>2. call' \in [Calls' -> Statuses]
  BY <1>1 DEF ClientTypes
<1>3. \A j \in Calls : call'[j] = IF j = i THEN v ELSE call[j]
  BY DEF ClientTypes
<1>4. CASE call[i] = "slot" /\ UNCHANGED <<owner, slotSeq, resp>>
  <2>1. OwnerInv'
    <3>1. \A s \in Slots : owner[s] # i
      BY <1>1, <1>4 DEF ClientTypes, OwnerInv
    <3>2. \A s \in Slots : owner[s] # 0 => owner[s] \in Calls
      BY OwnerFacts
    <3> QED
      BY <1>1, <1>3, <1>4, <3>1, <3>2 DEF ClientTypes, OwnerInv
  <2> QED
    BY <1>1, <1>2, <1>4, <2>1 DEF ClientTypes
<1>5. CASE call[i] \in {"queue", "wait"} /\ Frees(SlotOf(i))
  <2> DEFINE s == SlotOf(i)
  <2>1. s \in Slots /\ owner[s] = i /\ \A t \in Slots : owner[t] = i => t = s
    BY <1>5, OwnerFacts
  <2>2. /\ owner' = [owner EXCEPT ![s] = 0] /\ slotSeq' = [slotSeq EXCEPT ![s] = 0]
        /\ resp' = [resp EXCEPT ![s] = NoReply]
    BY <1>5 DEF Frees
  <2> HIDE DEF s
  <2>3. 0 \in 0 .. MaxSeq
    BY Sizes
  <2>4. /\ owner' \in [Slots -> Calls' \union {0}] /\ slotSeq' \in [Slots -> 0 .. MaxSeq]
        /\ resp' \in [Slots -> Reply] /\ \A t \in Slots : owner'[t] # 0 <=> slotSeq'[t] # 0
    BY <1>1, <2>1, <2>2, <2>3, Nones DEF ClientTypes
  <2>5. \A t \in Slots : owner'[t] = IF t = s THEN 0 ELSE owner[t]
    BY <2>1, <2>2 DEF ClientTypes
  <2>6. OwnerInv'
    <3>1. \A t \in Slots : owner[t] # 0 => owner[t] \in Calls
      BY OwnerFacts
    <3>2. ASSUME NEW j \in Calls', call'[j] \in {"queue", "wait"}
          PROVE  \E t \in Slots : owner'[t] = j
      <4>1. j # i /\ j \in Calls /\ call[j] \in {"queue", "wait"}
        BY <1>1, <1>3, <3>2
      <4>2. PICK t \in Slots : owner[t] = j
        BY <4>1 DEF ClientTypes, OwnerInv
      <4>3. t # s
        BY <2>1, <4>1, <4>2
      <4> QED
        BY <2>5, <4>2, <4>3
    <3>3. ASSUME NEW t \in Slots, owner'[t] # 0 PROVE call'[owner'[t]] \in {"queue", "wait"}
      <4>1. t # s /\ owner'[t] = owner[t] /\ owner[t] # i /\ owner[t] \in Calls
        BY <2>1, <2>5, <3>1, <3>3
      <4> QED
        BY <1>3, <3>3, <4>1 DEF ClientTypes, OwnerInv
    <3>4. \A t \in Slots : \A u \in Slots : owner'[t] = owner'[u] /\ owner'[t] # 0 => t = u
      BY <2>5 DEF ClientTypes, OwnerInv
    <3> QED
      BY <3>2, <3>3, <3>4 DEF OwnerInv
  <2> QED
    BY <1>2, <2>4, <2>6 DEF ClientTypes
<1> QED
  BY <1>4, <1>5

\* The slot a request takes is free.
LEMMA Claimed ==
    ASSUME FreeInv, NEW i, Claim(i)
    PROVE  \E s \in Slots : /\ owner[s] = 0 /\ s = Head(free) /\ free # <<>>
                           /\ owner' = [owner EXCEPT ![s] = i]
                           /\ slotSeq' = [slotSeq EXCEPT ![s] = nextSeq]
                           /\ resp' = [resp EXCEPT ![s] = NoReply]
<1>1. free # <<>> /\ free \in Seq(Slots)
  BY DEF Claim, FreeInv
<1>2. Head(free) \in Slots /\ 1 \in DOMAIN free /\ free[1] = Head(free)
  BY <1>1
<1>3. owner[Head(free)] = 0
  BY <1>2 DEF FreeInv
<1> QED
  BY <1>1, <1>2, <1>3 DEF Claim

\* A list of different slots without one of them is not full.
LEMMA RoomForOne ==
    ASSUME NEW q \in Seq(Slots), \A j, k \in DOMAIN q : q[j] = q[k] => j = k,
           NEW s \in Slots, \A k \in DOMAIN q : q[k] # s
    PROVE  Len(q) < MaxSlots
<1> DEFINE T == Slots \ {s}
           f == [k \in 1 .. Len(q) |-> q[k]]
<1>1. Len(q) \in Nat /\ DOMAIN q = 1 .. Len(q)
  OBVIOUS
<1>2. IsFiniteSet(Slots) /\ Cardinality(Slots) = MaxSlots
  BY Sizes, FS_Interval DEF Slots
<1>3. IsFiniteSet(T) /\ Cardinality(T) = MaxSlots - 1
  BY <1>2, FS_RemoveElement
<1>4. f \in [1 .. Len(q) -> T]
  BY <1>1
<1>5. \A j, k \in 1 .. Len(q) : f[j] = f[k] => j = k
  BY <1>1
<1>6. f \in Injection(1 .. Len(q), T)
  BY <1>4, <1>5 DEF Injection, IsInjective
<1> HIDE DEF f, T
<1>7. Cardinality(1 .. Len(q)) <= Cardinality(T)
  BY <1>3, <1>6, FS_Injection
<1>8. Cardinality(1 .. Len(q)) = Len(q)
  <2> DEFINE n == Len(q)
  <2>1. n \in Int /\ 1 \in Int /\ n >= 0
    BY <1>1
  <2> HIDE DEF n
  <2>2. Cardinality(1 .. n) = IF 1 > n THEN 0 ELSE n - 1 + 1
    BY <2>1, FS_Interval
  <2>3. Cardinality(1 .. n) = n
    BY <2>1, <2>2
  <2> QED
    BY <2>3 DEF n
<1> QED
  BY <1>1, <1>3, <1>7, <1>8, Sizes

\* A slot that comes back finds room and is in the list once.
LEMMA ComesBack ==
    ASSUME FreeInv, owner \in [Slots -> Calls \union {0}],
           NEW s \in Slots, owner[s] # 0, Frees(s)
    PROVE  FreeInv' /\ free' = Append(free, s)
<1>1. free \in Seq(Slots) /\ DOMAIN free = 1 .. Len(free) /\ Len(free) \in Nat
  BY DEF FreeInv
<1>2. \A k \in DOMAIN free : free[k] # s
  BY DEF FreeInv
<1>3. Len(free) < MaxSlots
  BY <1>1, <1>2, RoomForOne DEF FreeInv
<1>4. free' = Append(free, s)
  BY <1>3 DEF Frees
<1>5. /\ free' \in Seq(Slots) /\ Len(free') = Len(free) + 1 /\ DOMAIN free' = 1 .. Len(free')
      /\ \A k \in 1 .. Len(free) : free'[k] = free[k]
      /\ free'[Len(free) + 1] = s
  BY <1>1, <1>4
<1>6. \A t \in Slots : owner'[t] = IF t = s THEN 0 ELSE owner[t]
  BY DEF Frees
<1>7. ASSUME NEW t \in Slots PROVE owner'[t] = 0 <=> \E k \in DOMAIN free' : free'[k] = t
  <2>1. CASE t = s
    <3>1. Len(free) + 1 \in DOMAIN free'
      BY <1>1, <1>5
    <3> QED
      BY <1>5, <1>6, <2>1, <3>1
  <2>2. CASE t # s
    <3>1. ASSUME NEW k \in DOMAIN free', free'[k] = t PROVE \E j \in DOMAIN free : free[j] = t
      <4>1. k \in 1 .. Len(free) /\ free[k] = t
        BY <1>1, <1>5, <2>2, <3>1
      <4> QED
        BY <1>1, <4>1
    <3>2. ASSUME NEW k \in DOMAIN free, free[k] = t PROVE \E j \in DOMAIN free' : free'[j] = t
      <4>1. k \in DOMAIN free' /\ free'[k] = t
        BY <1>1, <1>5, <3>2
      <4> QED
        BY <4>1
    <3> QED
      BY <1>6, <2>2, <3>1, <3>2 DEF FreeInv
  <2> QED
    BY <2>1, <2>2
<1>8. ASSUME NEW j \in DOMAIN free', NEW k \in DOMAIN free', free'[j] = free'[k] PROVE j = k
  <2>1. /\ j \in 1 .. Len(free) \/ j = Len(free) + 1
        /\ k \in 1 .. Len(free) \/ k = Len(free) + 1
    BY <1>1, <1>5
  <2>2. j \in 1 .. Len(free) => free'[j] # s /\ free'[j] = free[j]
    BY <1>1, <1>2, <1>5
  <2>3. k \in 1 .. Len(free) => free'[k] # s /\ free'[k] = free[k]
    BY <1>1, <1>2, <1>5
  <2> QED
    BY <1>1, <1>5, <1>8, <2>1, <2>2, <2>3 DEF FreeInv
<1> QED
  BY <1>4, <1>5, <1>7, <1>8 DEF FreeInv

\* No step loses a slot or puts one in the list twice.
LEMMA FreeStep ==
    ASSUME ClientTypes, FreeInv, left \in Scenario, Next
    PROVE  FreeInv'
<1>1. owner \in [Slots -> Calls \union {0}] /\ free \in Seq(Slots)
  BY DEF ClientTypes, FreeInv
<1>2. CASE UNCHANGED <<owner, free>>
  BY <1>2 DEF FreeInv
<1>3. ASSUME NEW i \in Calls, Claim(i) PROVE FreeInv'
  <2>1. PICK s \in Slots : /\ owner[s] = 0 /\ s = Head(free) /\ free # <<>>
                           /\ owner' = [owner EXCEPT ![s] = i]
    BY <1>3, Claimed
  <2>2. free' = Tail(free) /\ i # 0
    BY <1>3, Scenarios_ DEF Claim
  <2>3. \A t \in Slots : owner'[t] = IF t = s THEN i ELSE owner[t]
    BY <1>1, <2>1
  <2>4. /\ s = free[1] /\ free' \in Seq(Slots) /\ Len(free) \in Nat /\ Len(free) >= 1
        /\ Len(free') = Len(free) - 1 /\ DOMAIN free' = 1 .. Len(free')
        /\ DOMAIN free = 1 .. Len(free)
        /\ \A k \in 1 .. Len(free) - 1 : k + 1 \in 1 .. Len(free) /\ free'[k] = free[k + 1]
    BY <1>1, <2>1, <2>2, Tails
  <2>5. \A j, k \in 1 .. Len(free) : free[j] = free[k] => j = k
    BY <2>4 DEF FreeInv
  <2>6. ASSUME NEW t \in Slots PROVE owner'[t] = 0 <=> \E k \in DOMAIN free' : free'[k] = t
    <3>1. ASSUME NEW k \in DOMAIN free', free'[k] = t
          PROVE  t # s /\ \E j \in DOMAIN free : free[j] = t
      <4>1. k \in Nat /\ k + 1 \in 1 .. Len(free) /\ k + 1 # 1 /\ 1 \in 1 .. Len(free)
            /\ free[k + 1] = t
        BY <2>4, <3>1
      <4> QED
        BY <2>4, <2>5, <4>1
    <3>2. ASSUME t # s, NEW k \in DOMAIN free, free[k] = t
          PROVE  \E j \in DOMAIN free' : free'[j] = t
      <4>1. k \in 1 .. Len(free) /\ k # 1
        BY <2>4, <3>2
      <4>2. k - 1 \in 1 .. Len(free) - 1 /\ (k - 1) + 1 = k
        BY <2>4, <4>1
      <4>3. k - 1 \in DOMAIN free' /\ free'[k - 1] = t
        BY <2>4, <3>2, <4>2
      <4> QED
        BY <4>3
    <3> QED
      BY <2>2, <2>3, <3>1, <3>2 DEF FreeInv
  <2>7. ASSUME NEW j \in DOMAIN free', NEW k \in DOMAIN free', free'[j] = free'[k] PROVE j = k
    <3>1. j \in Nat /\ k \in Nat /\ j \in 1 .. Len(free) - 1 /\ k \in 1 .. Len(free) - 1
      BY <2>4
    <3>2. j + 1 = k + 1
      BY <2>4, <2>5, <2>7, <3>1
    <3> QED
      BY <3>1, <3>2
  <2> QED
    BY <2>4, <2>6, <2>7 DEF FreeInv
<1>4. ASSUME NEW i \in Calls, call[i] \in {"queue", "wait"}, Frees(SlotOf(i)) PROVE FreeInv'
  <2>1. SlotOf(i) \in Slots /\ owner[SlotOf(i)] = i /\ i # 0
    BY <1>4, OwnerFacts, Scenarios_
  <2> QED
    BY <1>1, <1>4, <2>1, ComesBack
<1>5. ASSUME NEW i \in Calls, Complete(i) PROVE FreeInv'
  BY <1>4, <1>5 DEF Complete
<1>6. ASSUME NEW i \in Calls, Cancel(i) PROVE FreeInv'
  BY <1>2, <1>4, <1>6 DEF Cancel, Pending
<1>7. ASSUME ProgramRestarts PROVE FreeInv'
  BY <1>7, FreshFree DEF ProgramRestarts, FreeInv
<1>8. ASSUME \/ \E i \in Calls : Call(i) \/ Queue(i)
             \/ \E i \in Calls \union {TopicPull} : TakePump(i)
             \/ TakeTopic \/ WritesZero \/ WritesFrame \/ Carries \/ Reads \/ Probe
             \/ DeviceReads \/ Serve \/ Forward \/ LayerChanges \/ KeysChange
      PROVE  FreeInv'
  <2>1. UNCHANGED <<owner, free>>
    BY <1>8 DEF Call, Queue, TakePump, TakeTopic, WritesZero, WritesFrame, Carries, Reads, Probe,
                DeviceReads, Serve, Forward, LayerChanges, KeysChange, client
  <2> QED
    BY <1>2, <2>1
<1> QED
  BY <1>3, <1>5, <1>6, <1>7, <1>8 DEF Next

LEMMA ClientStep ==
    ASSUME ClientTypes, FreeInv, HostTypes, up \in Seq(Reply), Next
    PROVE  ClientTypes'
<1>0. left \in Scenario
  BY DEF HostTypes
<1>a. ASSUME UNCHANGED <<call, owner, slotSeq, resp, nextSeq, message>>, left'.calls = left.calls
      PROVE  ClientTypes'
  <2>1. Calls' = Calls
    BY <1>a, SameProgram
  <2> QED
    BY <1>a, <2>1 DEF ClientTypes, OwnerInv
<1>1. ASSUME NEW i \in Calls, Call(i) PROVE ClientTypes'
  <2>1. UNCHANGED <<owner, slotSeq, resp, nextSeq, message, left>> /\ call[i] = "no"
        /\ call' = [call EXCEPT ![i] = "slot"]
    BY <1>1 DEF Call
  <2>2. Calls' = Calls
    BY <2>1, SameProgram
  <2>3. call' \in [Calls -> Statuses] /\ \A j \in Calls : call'[j] = IF j = i THEN "slot" ELSE call[j]
    BY <2>1 DEF ClientTypes, Statuses
  <2>4. \A s \in Slots : owner[s] # 0 => owner[s] \in Calls /\ owner[s] # i
    BY <1>0, <2>1, OwnerFacts DEF ClientTypes, OwnerInv
  <2>5. OwnerInv'
    BY <2>1, <2>2, <2>3, <2>4 DEF ClientTypes, OwnerInv
  <2> QED
    BY <2>1, <2>2, <2>3, <2>5 DEF ClientTypes
<1>2. ASSUME NEW i \in Calls, Claim(i) PROVE ClientTypes'
  <2>1. PICK s \in Slots :
          /\ owner[s] = 0
          /\ owner' = [owner EXCEPT ![s] = i]
          /\ slotSeq' = [slotSeq EXCEPT ![s] = nextSeq]
          /\ resp' = [resp EXCEPT ![s] = NoReply]
    BY <1>2, Claimed
  <2>2. call[i] = "slot" /\ nextSeq' = SeqAfter(nextSeq) /\ call' = [call EXCEPT ![i] = "queue"]
        /\ UNCHANGED <<message, left>>
    BY <1>2 DEF Claim
  <2>3. Calls' = Calls /\ i # 0
    BY <1>0, <2>2, SameProgram, Scenarios_
  <2>4. nextSeq \in 0 .. MaxSeq /\ nextSeq # 0 /\ nextSeq' \in 1 .. MaxSeq
    BY <2>2, Sizes DEF ClientTypes, SeqAfter
  <2>5. call' \in [Calls -> Statuses] /\ \A j \in Calls : call'[j] = IF j = i THEN "queue" ELSE call[j]
    BY <2>2 DEF ClientTypes, Statuses
  <2>6. /\ owner' \in [Slots -> Calls \union {0}] /\ slotSeq' \in [Slots -> 0 .. MaxSeq]
        /\ resp' \in [Slots -> Reply] /\ \A t \in Slots : owner'[t] # 0 <=> slotSeq'[t] # 0
    BY <2>1, <2>3, <2>4, Nones DEF ClientTypes
  <2>7. \A t \in Slots : owner'[t] = IF t = s THEN i ELSE owner[t]
    BY <2>1 DEF ClientTypes
  <2>8. \A t \in Slots : owner[t] # 0 => owner[t] \in Calls /\ owner[t] # i
    BY <1>0, <2>2, OwnerFacts DEF ClientTypes, OwnerInv
  <2>9. OwnerInv'
    <3>1. ASSUME NEW j \in Calls, call'[j] \in {"queue", "wait"} PROVE \E t \in Slots : owner'[t] = j
      <4>1. CASE j = i
        BY <2>1, <2>7, <4>1
      <4>2. CASE j # i
        <5>1. PICK t \in Slots : owner[t] = j
          BY <2>5, <3>1, <4>2 DEF ClientTypes, OwnerInv
        <5>2. t # s
          BY <1>0, <2>1, <5>1, Scenarios_
        <5> QED
          BY <2>7, <5>1, <5>2
      <4> QED
        BY <4>1, <4>2
    <3>2. ASSUME NEW t \in Slots, owner'[t] # 0 PROVE call'[owner'[t]] \in {"queue", "wait"}
      BY <2>5, <2>7, <2>8, <3>2 DEF ClientTypes, OwnerInv
    <3>3. \A t \in Slots : \A u \in Slots : owner'[t] = owner'[u] /\ owner'[t] # 0 => t = u
      BY <2>7, <2>8 DEF ClientTypes, OwnerInv
    <3> QED
      BY <2>3, <3>1, <3>2, <3>3 DEF OwnerInv
  <2> QED
    BY <2>2, <2>3, <2>4, <2>5, <2>6, <2>9 DEF ClientTypes
<1>3. ASSUME NEW i \in Calls, Queue(i) PROVE ClientTypes'
  <2> DEFINE f == [cmd |-> Cmd(i), seq |-> slotSeq[SlotOf(i)], era |-> era, id |-> i]
  <2>1. /\ call[i] = "queue" /\ message' = <<f>> /\ call' = [call EXCEPT ![i] = "wait"]
        /\ UNCHANGED <<owner, slotSeq, resp, nextSeq, left>>
    BY <1>3 DEF Queue
  <2>2. f \in Request
    <3>1. Cmd(i) \in Commands /\ i \in Nat /\ era \in Nat
      BY <1>0, Scenarios_ DEF HostTypes
    <3>2. slotSeq[SlotOf(i)] \in 0 .. MaxSeq
      BY <1>0, <2>1, OwnerFacts DEF ClientTypes
    <3> QED
      BY <3>1, <3>2 DEF Request
  <2> HIDE DEF f
  <2>3. message' \in Seq(Request) /\ Len(message') <= 1
    BY <2>1, <2>2
  <2>4. Calls' = Calls
    BY <2>1, SameProgram
  <2>5. call' \in [Calls -> Statuses] /\ \A j \in Calls : call'[j] = IF j = i THEN "wait" ELSE call[j]
    BY <2>1 DEF ClientTypes, Statuses
  <2>6. \A t \in Slots : owner[t] # 0 => owner[t] \in Calls
    BY <1>0, OwnerFacts
  <2>7. OwnerInv'
    BY <2>1, <2>4, <2>5, <2>6 DEF ClientTypes, OwnerInv
  <2> QED
    BY <2>1, <2>3, <2>4, <2>5, <2>7 DEF ClientTypes
<1>4. ASSUME NEW i \in Calls, Complete(i) PROVE ClientTypes'
  <2>1. /\ call[i] = "wait" /\ Frees(SlotOf(i)) /\ UNCHANGED <<nextSeq, message, left>>
        /\ \E v \in {"done", "err", "gone"} : call' = [call EXCEPT ![i] = v]
    BY <1>4 DEF Complete
  <2> QED
    BY <1>0, <2>1, Freed
<1>5. ASSUME NEW i \in Calls, Cancel(i) PROVE ClientTypes'
  <2>1. /\ Pending(i) /\ call' = [call EXCEPT ![i] = "gone"] /\ UNCHANGED <<nextSeq, message>>
        /\ Spend("cancel")
        /\ IF call[i] = "slot" THEN UNCHANGED <<owner, free, slotSeq, resp>> ELSE Frees(SlotOf(i))
    BY <1>5 DEF Cancel
  <2>2. left'.calls = left.calls
    BY <1>0, <2>1, Spent
  <2> QED
    BY <1>0, <2>1, <2>2, Freed DEF Pending
<1>6. ASSUME ProgramRestarts PROVE ClientTypes'
  <2>1. Spend("restart") /\ call' = NoCalls /\ owner' = AllFree /\ slotSeq' = AllFree /\ resp' = NoResp
        /\ nextSeq' = 1 /\ message' = <<>>
    BY <1>6 DEF ProgramRestarts
  <2>2. left' \in Scenario /\ left'.calls = left.calls
    BY <1>0, <2>1, Spent
  <2>3. Calls' = Calls
    BY <2>2, SameProgram
  <2>4. call' \in [Calls' -> Statuses] /\ \A i \in Calls' : call'[i] = "no"
    BY <2>1, <2>3 DEF NoCalls, Statuses
  <2>5. owner' \in [Slots -> Calls' \union {0}] /\ \A s \in Slots : owner'[s] = 0
    BY <2>1 DEF AllFree
  <2>6. slotSeq' \in [Slots -> 0 .. MaxSeq] /\ \A s \in Slots : slotSeq'[s] = 0
    BY <2>1, Sizes DEF AllFree
  <2>7. resp' \in [Slots -> Reply]
    BY <2>1, Nones DEF NoResp
  <2>8. nextSeq' \in 1 .. MaxSeq
    BY <2>1, Sizes
  <2>9. OwnerInv'
    BY <2>4, <2>5 DEF OwnerInv
  <2> QED
    BY <2>1, <2>4, <2>5, <2>6, <2>7, <2>8, <2>9 DEF ClientTypes
<1>7. ASSUME Reads PROVE ClientTypes'
  <2>1. UNCHANGED <<call, owner, slotSeq, nextSeq, message, left>> /\ up # <<>>
        /\ \/ resp' = resp
           \/ resp' = [s \in Slots |-> IF s \in WaiterFor(Head(up)) THEN Head(up) ELSE resp[s]]
    BY <1>7 DEF Reads
  <2>2. Head(up) \in Reply
    BY <2>1
  <2>3. resp' \in [Slots -> Reply]
    BY <2>1, <2>2 DEF ClientTypes
  <2>4. Calls' = Calls
    BY <2>1, SameProgram
  <2> QED
    BY <2>1, <2>3, <2>4 DEF ClientTypes, OwnerInv
<1>8. ASSUME WritesFrame PROVE ClientTypes'
  <2>1. UNCHANGED <<call, owner, slotSeq, resp, nextSeq, left>> /\ message' = <<>>
    BY <1>8 DEF WritesFrame
  <2>2. Calls' = Calls
    BY <2>1, SameProgram
  <2> QED
    BY <2>1, <2>2 DEF ClientTypes, OwnerInv
<1>9. ASSUME \/ \E i \in Calls \union {TopicPull} : TakePump(i)
             \/ TakeTopic \/ WritesZero \/ Carries \/ DeviceReads \/ Forward
      PROVE  ClientTypes'
  <2>1. UNCHANGED <<call, owner, slotSeq, resp, nextSeq, message, left>>
    BY <1>9 DEF TakePump, TakeTopic, WritesZero, Carries, DeviceReads, Forward, client
  <2> QED
    BY <1>a, <2>1
<1>10. ASSUME Probe \/ LayerChanges \/ KeysChange \/ Serve PROVE ClientTypes'
  <2>1. UNCHANGED <<call, owner, slotSeq, resp, nextSeq, message>>
        /\ (left' = left \/ Spend("junk") \/ Spend("changes") \/ Spend("press") \/ Spend("txerr"))
    BY <1>10 DEF Probe, LayerChanges, KeysChange, Serve, Answers, client
  <2>2. left'.calls = left.calls
    BY <1>0, <2>1, Spent
  <2> QED
    BY <1>a, <2>1, <2>2
<1> QED
  BY <1>1, <1>2, <1>3, <1>4, <1>5, <1>6, <1>7, <1>8, <1>9, <1>10 DEF Next

-----------------------------------------------------------------------------
(* Types of the driver and of the keyboard.                                *)

\* The units of a request.
LEMMA UnitsType ==
    ASSUME NEW f \in Request
    PROVE  /\ Units(f) \in Seq(Cell)
           /\ \A k \in 1 .. Len(Units(f)) : Units(f)[k].of = f
<1>1. Size[f.cmd] \in {1, 2}
  BY DEF Size, Request
<1>2. ASSUME NEW k \in 1 .. Size[f.cmd] PROVE Units(f)[k] \in Cell /\ Units(f)[k].of = f
  <2> DEFINE l == k = Size[f.cmd]
  <2>1. Units(f)[k] = [of |-> f, part |-> k, last |-> l]
    BY DEF Units, Unit
  <2>2. l \in BOOLEAN
    OBVIOUS
  <2>3. k \in 1 .. 2 /\ f \in Frame
    BY <1>1, Nones
  <2> HIDE DEF l
  <2> QED
    BY <2>1, <2>2, <2>3 DEF Cell
<1>3. Units(f) \in [1 .. Size[f.cmd] -> Cell]
  BY <1>2 DEF Units
<1>4. Size[f.cmd] \in Nat
  BY <1>1
<1>5. Units(f) \in Seq(Cell) /\ Len(Units(f)) = Size[f.cmd]
  <2> HIDE DEF Units
  <2> QED
    BY <1>3, <1>4
<1> QED
  BY <1>2, <1>5

LEMMA KeptType ==
    ASSUME NEW b \in Seq(Cell), Len(b) <= Buffer, NEW drop \in BOOLEAN, Kept(b, drop)
    PROVE  /\ dbuf' \in Seq(Cell) /\ Len(dbuf') <= Buffer /\ discarding' \in BOOLEAN
           /\ dbuf' = b \/ dbuf' = <<>>
<1>1. CASE dbuf' = <<>> /\ discarding' = TRUE
  BY <1>1, Empty, Sizes
<1>2. CASE dbuf' = b /\ discarding' = drop
  BY <1>2
<1> QED
  BY <1>1, <1>2 DEF Kept

\* The forms a turn of the serving loop takes.
ServeForms(f, b) ==
    \/ /\ Kept(b, FALSE)
       /\ UNCHANGED <<up, down, handshaked, tdev, lock, broken, left>>
    \/ /\ Kept(b, FALSE) /\ Answers([f |-> f, res |-> "malformed", val |-> 0])
       /\ UNCHANGED <<handshaked, lock>>
    \/ /\ LockAfter(f.cmd) /\ Kept(b, FALSE)
       /\ handshaked' = (handshaked \/ f.cmd = "caps")
       /\ Answers([f |-> f, res |-> Result(f.cmd, Len(b)), val |-> layer])
    \/ Spend("txerr") /\ Restarts

LEMMA Served ==
    ASSUME dbuf \in Seq(Cell), Len(dbuf) <= Buffer, Serve
    PROVE  /\ ServeForms(dbuf[1].of, Rest(dbuf)) /\ UNCHANGED <<era, client, driver, view, world>>
           /\ dbuf # <<>> /\ dbuf[1] \in Cell
           /\ Rest(dbuf) \in Seq(Cell) /\ Len(Rest(dbuf)) <= Buffer
           /\ Asks(Rest(dbuf)) => Asks(dbuf)
<1> DEFINE e == EndOf(dbuf)
<1>1. e \in 0 .. Len(dbuf) /\ e # 0 /\ Len(dbuf) \in Nat
  BY EndOfType DEF Serve
<1>2. Rest(dbuf) = SubSeq(dbuf, e + 1, Len(dbuf)) /\ FrameAt(dbuf) = SubSeq(dbuf, 1, e)
  BY DEF Rest, FrameAt
<1> HIDE DEF e
<1>3. dbuf # <<>> /\ dbuf[1] \in Cell
  BY <1>1
<1>4. FrameAt(dbuf)[1] = dbuf[1]
  BY <1>1, <1>2
<1>5. /\ Rest(dbuf) \in Seq(Cell)
      /\ Len(Rest(dbuf)) = IF e < Len(dbuf) THEN Len(dbuf) - e ELSE 0
      /\ \A k \in 1 .. Len(Rest(dbuf)) : k + e \in 1 .. Len(dbuf) /\ Rest(dbuf)[k] = dbuf[k + e]
  BY <1>1, <1>2, Slices
<1>6. Len(Rest(dbuf)) <= Buffer
  BY <1>1, <1>5, Sizes
<1>7. Asks(Rest(dbuf)) => Asks(dbuf)
  BY <1>5 DEF Asks
<1>8. ServeForms(dbuf[1].of, Rest(dbuf)) /\ UNCHANGED <<era, client, driver, view, world>>
  BY <1>4 DEF Serve, ServeForms
<1> QED
  BY <1>3, <1>5, <1>6, <1>7, <1>8

LEMMA BoardStep ==
    ASSUME BoardTypes, HostTypes, Next
    PROVE  BoardTypes'
<1> DEFINE Link == down \in Seq(Cell) /\ Len(down) <= DownCap /\ up \in Seq(Reply) /\ Len(up) <= UpCap
           Buf == dbuf \in Seq(Cell) /\ Len(dbuf) <= Buffer /\ discarding \in BOOLEAN
           Session == /\ handshaked \in BOOLEAN /\ tdev \in Seq(Nat) /\ broken \in BOOLEAN
                      /\ layer \in Nat /\ held \in BOOLEAN
           Lock == unlocked \in BOOLEAN /\ shown \in BOOLEAN /\ PresenceInv
<1>0. /\ Link /\ Buf /\ Session /\ Lock /\ sending \in Seq(Cell)
      /\ (Link' /\ Buf' /\ Session' /\ Lock' => BoardTypes')
  BY DEF BoardTypes, HostTypes
<1>a. UNCHANGED <<down, up>> => Link'
  BY <1>0
<1>b. UNCHANGED <<dbuf, discarding>> => Buf'
  BY <1>0
<1>c. UNCHANGED <<handshaked, tdev, broken, layer, held>> => Session'
  BY <1>0
<1>d. UNCHANGED <<lock, held>> => Lock'
  BY <1>0 DEF lock, PresenceInv
<1>1. ASSUME \/ \E i \in Calls : Call(i) \/ Claim(i) \/ Queue(i) \/ Complete(i) \/ Cancel(i)
             \/ \E i \in Calls \union {TopicPull} : TakePump(i)
             \/ TakeTopic \/ WritesZero \/ WritesFrame
      PROVE  BoardTypes'
  <2>1. UNCHANGED <<down, up, device, world, broken>>
    BY <1>1 DEF Call, Claim, Queue, Complete, Cancel, TakePump, TakeTopic, WritesZero, WritesFrame
  <2> QED
    BY <1>0, <1>a, <1>b, <1>c, <1>d, <2>1 DEF device, world
<1>2. ASSUME Carries \/ Probe PROVE BoardTypes'
  <2>1. UNCHANGED <<up, device, world, broken>> /\ Len(down) < DownCap
        /\ \E c : down' = Append(down, c) /\ (c = Junk \/ (sending # <<>> /\ c = Head(sending)))
    BY <1>2 DEF Carries, Probe
  <2>2. \E c \in Cell : down' = Append(down, c)
    BY <1>0, <2>1, Nones
  <2>3. Link'
    BY <1>0, <2>1, <2>2, Sizes
  <2> QED
    BY <1>0, <1>b, <1>c, <1>d, <2>1, <2>3 DEF device, world
<1>3. ASSUME Reads \/ ProgramRestarts PROVE BoardTypes'
  <2>1. UNCHANGED <<down, device, world, broken>>
        /\ ((up # <<>> /\ up' = Tail(up)) \/ up' = up \/ up' = <<>>)
    BY <1>3 DEF Reads, ProgramRestarts
  <2>2. up' \in Seq(Reply) /\ Len(up') <= UpCap
    <3>1. CASE up # <<>> /\ up' = Tail(up)
      BY <1>0, <3>1, Tails, Sizes
    <3>2. CASE up' = <<>>
      BY <3>2, Empty, Sizes
    <3> QED
      BY <1>0, <2>1, <3>1, <3>2
  <2>3. Link'
    BY <1>0, <2>1, <2>2
  <2> QED
    BY <1>0, <1>b, <1>c, <1>d, <2>1, <2>3 DEF device, world
<1>4. ASSUME DeviceReads PROVE BoardTypes'
  <2>1. UNCHANGED <<up, handshaked, tdev, lock, world, broken>>
    BY <1>4 DEF DeviceReads
  <2>2. PICK n \in 1 .. Len(down) :
          /\ n <= Buffer - Len(dbuf)
          /\ Kept(dbuf \o SubSeq(down, 1, n), discarding)
          /\ down' = SubSeq(down, n + 1, Len(down))
    BY <1>4 DEF DeviceReads
  <2>3. n \in Nat /\ n <= Len(down) /\ Len(down) \in Nat /\ Len(dbuf) \in Nat
    BY <1>0, <2>2
  <2>4. SubSeq(down, 1, n) \in Seq(Cell) /\ Len(SubSeq(down, 1, n)) = n
    BY <1>0, <2>3
  <2>5. dbuf \o SubSeq(down, 1, n) \in Seq(Cell) /\ Len(dbuf \o SubSeq(down, 1, n)) <= Buffer
    BY <1>0, <2>2, <2>3, <2>4, Sizes
  <2>6. Buf'
    BY <1>0, <2>2, <2>5, KeptType
  <2>7. down' \in Seq(Cell) /\ Len(down') <= DownCap
    <3>1. down' \in Seq(Cell) /\ Len(down') = IF n < Len(down) THEN Len(down) - n ELSE 0
      BY <1>0, <2>2, <2>3, Slices
    <3> QED
      BY <1>0, <2>3, <3>1, Sizes
  <2>8. Link'
    BY <1>0, <2>1, <2>7
  <2> QED
    BY <1>0, <1>c, <1>d, <2>1, <2>6, <2>8 DEF world
<1>5. ASSUME Forward PROVE BoardTypes'
  <2>1. UNCHANGED <<down, dbuf, discarding, handshaked, lock, world, broken>> /\ tdev # <<>>
        /\ tdev' = Tail(tdev)
    BY <1>5 DEF Forward
  <2> DEFINE r == [f |-> NoFrame, res |-> "topic", val |-> Head(tdev)]
  <2>2. up' = up \/ (Len(up) < UpCap /\ up' = Append(up, r))
    BY <1>5 DEF Forward
  <2>3. r \in Reply
    BY <1>0, <2>1, Nones DEF Reply
  <2> HIDE DEF r
  <2>4. up' \in Seq(Reply) /\ Len(up') <= UpCap
    <3>1. CASE Len(up) < UpCap /\ up' = Append(up, r)
      BY <1>0, <2>3, <3>1, Appended, Sizes
    <3> QED
      BY <1>0, <2>2, <3>1
  <2>a. Link'
    BY <1>0, <2>1, <2>4
  <2>b. tdev' \in Seq(Nat)
    BY <1>0, <2>1, Tails
  <2>5. Session'
    BY <1>0, <2>1, <2>b DEF world
  <2> QED
    BY <1>0, <1>b, <1>d, <2>1, <2>a, <2>5 DEF world
<1>6. ASSUME LayerChanges \/ KeysChange PROVE BoardTypes'
  <2>1. UNCHANGED <<down, up, dbuf, discarding, handshaked, broken>>
    BY <1>6 DEF LayerChanges, KeysChange, device
  <2>2. \/ layer' = layer + 1 /\ tdev' = <<layer + 1>> /\ held' = held /\ UNCHANGED lock
        \/ held' = ~ held /\ shown' = (shown \/ ~ held) /\ UNCHANGED <<unlocked, layer, tdev>>
    BY <1>6 DEF LayerChanges, KeysChange, device
  <2>3. Session'
    <3>1. CASE layer' = layer + 1 /\ tdev' = <<layer + 1>> /\ held' = held
      <4>1. layer' \in Nat
        BY <1>0, <3>1
      <4>2. tdev' \in Seq(Nat)
        BY <3>1, <4>1, Single
      <4> QED
        BY <1>0, <2>1, <3>1, <4>1, <4>2
    <3>2. CASE held' = ~ held /\ UNCHANGED <<layer, tdev>>
      BY <1>0, <2>1, <3>2
    <3> QED
      BY <2>2, <3>1, <3>2
  <2>4. Lock'
    <3>1. CASE held' = held /\ UNCHANGED lock
      BY <1>d, <3>1
    <3>2. CASE held' = ~ held /\ shown' = (shown \/ ~ held) /\ UNCHANGED unlocked
      <4>1. unlocked \in BOOLEAN /\ shown \in BOOLEAN /\ held \in BOOLEAN /\ (unlocked \/ held => shown)
        BY <1>0 DEF PresenceInv
      <4>2. unlocked' \in BOOLEAN /\ shown' \in BOOLEAN
        BY <3>2, <4>1
      <4>3. unlocked' \/ held' => shown'
        BY <3>2, <4>1, Zenon
      <4> QED
        BY <4>2, <4>3 DEF PresenceInv
    <3> QED
      BY <2>2, <3>1, <3>2
  <2> QED
    BY <1>0, <1>a, <1>b, <2>1, <2>3, <2>4
<1>7. ASSUME Serve PROVE BoardTypes'
  <2> DEFINE f == dbuf[1].of
             b == Rest(dbuf)
  <2>1. /\ ServeForms(f, b) /\ UNCHANGED world /\ dbuf[1] \in Cell /\ b \in Seq(Cell) /\ Len(b) <= Buffer
    BY <1>0, <1>7, Served
  <2>2. f \in Frame
    BY <2>1 DEF Cell
  <2> HIDE DEF f, b
  <2>3. Kept(b, FALSE) => Buf'
    BY <2>1, KeptType
  <2>4. ASSUME NEW r \in Reply, Answers(r) PROVE Link' /\ UNCHANGED <<tdev, broken>>
    BY <1>0, <2>4, Sizes DEF Answers
  <2>5. CASE Kept(b, FALSE) /\ UNCHANGED <<up, down, handshaked, tdev, lock, broken, left>>
    BY <1>0, <1>a, <1>c, <1>d, <2>1, <2>3, <2>5 DEF world
  <2>6. CASE /\ Kept(b, FALSE) /\ Answers([f |-> f, res |-> "malformed", val |-> 0])
             /\ UNCHANGED <<handshaked, lock>>
    <3>1. [f |-> f, res |-> "malformed", val |-> 0] \in Reply
      BY <2>2 DEF Reply
    <3> QED
      BY <1>0, <1>c, <1>d, <2>1, <2>3, <2>4, <2>6, <3>1 DEF world
  <2>7. CASE /\ LockAfter(f.cmd) /\ Kept(b, FALSE)
             /\ handshaked' = (handshaked \/ f.cmd = "caps")
             /\ Answers([f |-> f, res |-> Result(f.cmd, Len(b)), val |-> layer])
    <3>1. [f |-> f, res |-> Result(f.cmd, Len(b)), val |-> layer] \in Reply
      BY <1>0, <2>2 DEF Reply, Result
    <3>2. Link' /\ UNCHANGED <<tdev, broken>>
      BY <2>4, <2>7, <3>1
    <3>3. Lock'
      BY <1>0, <2>1, <2>7 DEF LockAfter, PresenceInv, world
    <3>4. handshaked' \in BOOLEAN
      BY <1>0, <2>7
    <3>5. Session'
      BY <1>0, <2>1, <3>2, <3>4 DEF world
    <3> QED
      BY <1>0, <2>3, <2>7, <3>2, <3>3, <3>5
  <2>8. CASE Spend("txerr") /\ Restarts
    <3>1. /\ down' = <<>> /\ dbuf' = <<>> /\ tdev' = <<>> /\ up' = up
          /\ ~ discarding' /\ ~ handshaked' /\ ~ unlocked' /\ shown' = held /\ broken'
          /\ {discarding', handshaked', unlocked', broken'} \subseteq BOOLEAN
      BY <2>8 DEF Restarts
    <3>2. Link'
      BY <1>0, <3>1, Empty, Sizes
    <3>3. Buf'
      BY <3>1, Empty, Sizes
    <3>4. Session'
      BY <1>0, <2>1, <3>1, Empty DEF world
    <3>5. Lock'
      BY <1>0, <2>1, <3>1 DEF PresenceInv, world
    <3> QED
      BY <1>0, <3>2, <3>3, <3>4, <3>5
  <2> QED
    BY <2>1, <2>5, <2>6, <2>7, <2>8 DEF ServeForms
<1> QED
  BY <1>1, <1>2, <1>3, <1>4, <1>5, <1>6, <1>7 DEF Next

\* The queue of topics keeps its bound and ends in the newest one.
LEMMA QueuedType ==
    ASSUME NEW q \in Seq(Nat), Len(q) <= TopicCap, NEW v \in Nat
    PROVE  /\ Queued(q, v) \in Seq(Nat) /\ Len(Queued(q, v)) <= TopicCap
           /\ Queued(q, v) # <<>> /\ Queued(q, v)[Len(Queued(q, v))] = v
<1> DEFINE p == IF Len(q) < TopicCap THEN q ELSE Tail(q)
<1>1. p \in Seq(Nat) /\ Len(p) \in Nat /\ Len(p) + 1 <= TopicCap
  <2>1. CASE Len(q) < TopicCap
    BY <2>1, Sizes
  <2>2. CASE ~ (Len(q) < TopicCap)
    <3>1. Len(q) >= 1
      BY <2>2, Sizes
    <3>2. q # <<>>
      BY <3>1, Empty
    <3>3. Tail(q) \in Seq(Nat) /\ Len(Tail(q)) = Len(q) - 1
      BY <3>2, Tails
    <3> QED
      BY <2>2, <3>1, <3>3, Sizes
  <2> QED
    BY <2>1, <2>2
<1>2. Queued(q, v) = Append(p, v)
  BY DEF Queued
<1> HIDE DEF p
<1>3. /\ Append(p, v) \in Seq(Nat) /\ Append(p, v) # <<>>
      /\ Len(Append(p, v)) = Len(p) + 1 /\ Append(p, v)[Len(p) + 1] = v
  <2>1. p \in Seq(Nat)
    BY <1>1
  <2>2. ASSUME NEW S, p \in Seq(S), v \in S
        PROVE  /\ Append(p, v) \in Seq(S) /\ Append(p, v) # <<>>
               /\ Len(Append(p, v)) = Len(p) + 1 /\ Append(p, v)[Len(p) + 1] = v
    BY <2>2, Appended
  <2> QED
    BY <2>1, <2>2
<1> QED
  BY <1>1, <1>2, <1>3

LEMMA HostStep ==
    ASSUME ClientTypes, HostTypes, BoardTypes, Next
    PROVE  HostTypes'
<1> DEFINE Driver == pump \in Drivers /\ phase \in {"zero", "loop"} /\ sending \in Seq(Cell)
           View == /\ topics \in Seq(Nat) /\ Len(topics) <= TopicCap /\ seen \in Nat
                   /\ fetched \in BOOLEAN /\ era \in Nat
<1>0. Driver /\ View /\ up \in Seq(Reply) /\ message \in Seq(Request) /\ Nobody \in Drivers
  BY DEF HostTypes, BoardTypes, ClientTypes, Drivers
<1>1. left' \in Scenario /\ Drivers' = Drivers
  BY LeftStep, SameProgram DEF HostTypes, Drivers
<1>2. Driver' /\ View' => HostTypes'
  BY <1>1 DEF HostTypes
<1>3. UNCHANGED driver => Driver'
  BY <1>0, <1>1 DEF driver
<1>4. UNCHANGED <<era, view>> => View'
  BY <1>0 DEF view
<1>5. ASSUME \/ \E i \in Calls : Call(i) \/ Claim(i) \/ Queue(i) \/ Cancel(i)
             \/ Probe \/ DeviceReads \/ Forward \/ LayerChanges \/ KeysChange
      PROVE  HostTypes'
  <2>1. UNCHANGED <<era, driver, view>>
    BY <1>5 DEF Call, Claim, Queue, Cancel, Probe, DeviceReads, Forward, LayerChanges, KeysChange
  <2> QED
    BY <1>2, <1>3, <1>4, <2>1
<1>6. ASSUME Serve PROVE HostTypes'
  <2>1. UNCHANGED <<era, driver, view>>
    BY <1>6 DEF Serve
  <2> QED
    BY <1>2, <1>3, <1>4, <2>1
<1>7. ASSUME NEW f, Resolves(f) PROVE Driver'
  BY <1>0, <1>1, <1>3, <1>7 DEF Resolves
<1>8. ASSUME NEW i \in Calls, Complete(i) PROVE HostTypes'
  <2>1. (UNCHANGED driver \/ Resolves(Future(i))) /\ UNCHANGED <<era, view>>
    BY <1>8 DEF Complete
  <2> QED
    BY <1>2, <1>3, <1>4, <1>7, <2>1
<1>9. ASSUME TakeTopic PROVE HostTypes'
  <2>1. /\ topics # <<>> /\ seen' = Head(topics) /\ topics' = Tail(topics)
        /\ Resolves(TopicPull) /\ UNCHANGED <<era, fetched>>
    BY <1>9 DEF TakeTopic
  <2>2. seen' \in Nat /\ topics' \in Seq(Nat) /\ Len(topics') <= TopicCap
    BY <1>0, <2>1, Tails, Sizes
  <2> QED
    BY <1>0, <1>2, <1>7, <2>1, <2>2
<1>10. ASSUME NEW f \in Calls \union {TopicPull}, TakePump(f) PROVE HostTypes'
  <2>1. pump' = f /\ UNCHANGED <<era, phase, sending, view>> /\ f \in Drivers
    BY <1>10 DEF TakePump, Drivers
  <2> QED
    BY <1>0, <1>1, <1>2, <1>4, <2>1
<1>11. ASSUME WritesZero \/ WritesFrame \/ Carries PROVE HostTypes'
  <2>1. /\ UNCHANGED <<era, pump, view>> /\ phase' \in {"zero", "loop"}
        /\ \/ sending' = <<Zero>>
           \/ message # <<>> /\ sending' = Units(Head(message))
           \/ sending # <<>> /\ sending' = Tail(sending)
    BY <1>0, <1>11 DEF WritesZero, WritesFrame, Carries
  <2>2. CASE sending' = <<Zero>>
    BY <1>0, <1>1, <1>2, <1>4, <2>1, <2>2, Nones, Single
  <2>3. CASE message # <<>> /\ sending' = Units(Head(message))
    <3>1. Head(message) \in Request
      BY <1>0, <2>3, Tails
    <3> QED
      BY <1>0, <1>1, <1>2, <1>4, <2>1, <2>3, <3>1, UnitsType
  <2>4. CASE sending # <<>> /\ sending' = Tail(sending)
    BY <1>0, <1>1, <1>2, <1>4, <2>1, <2>4, Tails
  <2> QED
    BY <2>1, <2>2, <2>3, <2>4
<1>12. ASSUME Reads PROVE HostTypes'
  <2> DEFINE v == Head(up).val
  <2>1. /\ UNCHANGED <<era, driver>> /\ up # <<>>
        /\ \/ topics' = Queued(topics, v) /\ UNCHANGED <<seen, fetched>>
           \/ topics' = topics /\ (seen' = v \/ seen' = seen) /\ fetched' \in BOOLEAN
    BY <1>12 DEF Reads
  <2>2. v \in Nat
    <3>1. Head(up) \in Reply
      BY <1>0, <2>1, Tails
    <3> QED
      BY <3>1 DEF Reply
  <2> HIDE DEF v
  <2>3. View'
    <3>1. CASE topics' = Queued(topics, v) /\ UNCHANGED <<seen, fetched>>
      BY <1>0, <2>1, <2>2, <3>1, QueuedType
    <3>2. CASE topics' = topics /\ (seen' = v \/ seen' = seen) /\ fetched' \in BOOLEAN
      BY <1>0, <2>1, <2>2, <3>2
    <3> QED
      BY <2>1, <3>1, <3>2
  <2> QED
    BY <1>2, <1>3, <2>1, <2>3
<1>13. ASSUME ProgramRestarts PROVE HostTypes'
  <2>1. /\ era' = era + 1 /\ phase' = "zero" /\ sending' = <<>> /\ topics' = <<>> /\ seen' = 0
        /\ fetched' = FALSE /\ (pump' = Resident \/ pump' = Nobody)
    BY <1>13 DEF ProgramRestarts
  <2>2. pump' \in Drivers'
    BY <1>1, <2>1 DEF Drivers
  <2>3. Driver'
    BY <2>1, <2>2, Empty
  <2>a. fetched' \in BOOLEAN
    BY ONLY <2>1
  <2>b. seen' \in Nat
    BY ONLY <2>1
  <2>c. era' \in Nat
    BY <1>0, <2>1
  <2>4. fetched' \in BOOLEAN /\ seen' \in Nat /\ era' \in Nat
    BY <2>a, <2>b, <2>c
  <2>5. View'
    BY <2>1, <2>4, Empty, Sizes
  <2> QED
    BY <1>2, <2>3, <2>5
<1> QED
  BY <1>5, <1>6, <1>8, <1>9, <1>10, <1>11, <1>12, <1>13 DEF Next

-----------------------------------------------------------------------------
(* Before the handshake.                                                   *)

LEMMA AsksLess ==
    ASSUME NEW q \in Seq(Cell), ~ Asks(q)
    PROVE  /\ q # <<>> => Head(q).of.cmd # "layer" /\ ~ Asks(Tail(q)) /\ q[1].of.cmd # "layer"
           /\ \A n \in Nat : n <= Len(q) =>
                 ~ Asks(SubSeq(q, 1, n)) /\ ~ Asks(SubSeq(q, n + 1, Len(q)))
<1>1. \A k \in 1 .. Len(q) : q[k].of.cmd # "layer"
  BY DEF Asks
<1>2. ASSUME q # <<>>
      PROVE  Head(q).of.cmd # "layer" /\ ~ Asks(Tail(q)) /\ q[1].of.cmd # "layer"
  <2>1. /\ Head(q) = q[1] /\ Len(q) \in Nat /\ Len(q) >= 1 /\ Len(Tail(q)) = Len(q) - 1
        /\ \A k \in 1 .. Len(q) - 1 : k + 1 \in 1 .. Len(q) /\ Tail(q)[k] = q[k + 1]
    BY <1>2, Tails
  <2>2. 1 \in 1 .. Len(q)
    BY <2>1
  <2> QED
    BY <1>1, <2>1, <2>2 DEF Asks
<1>3. ASSUME NEW n \in Nat, n <= Len(q)
      PROVE  ~ Asks(SubSeq(q, 1, n)) /\ ~ Asks(SubSeq(q, n + 1, Len(q)))
  <2>1. Len(q) \in Nat /\ 0 + 1 = 1
    OBVIOUS
  <2>2. \A k \in 1 .. Len(SubSeq(q, 1, n)) : SubSeq(q, 1, n)[k] = q[k] /\ k \in 1 .. Len(q)
    BY <1>3, <2>1
  <2>3. \A k \in 1 .. Len(SubSeq(q, n + 1, Len(q))) :
           k + n \in 1 .. Len(q) /\ SubSeq(q, n + 1, Len(q))[k] = q[k + n]
    BY <1>3, <2>1, Slices
  <2> QED
    BY <1>1, <2>2, <2>3 DEF Asks
<1> QED
  BY <1>2, <1>3

LEMMA AsksMore ==
    ASSUME NEW q \in Seq(Cell), ~ Asks(q)
    PROVE  /\ \A c \in Cell : c.of.cmd # "layer" => ~ Asks(Append(q, c))
           /\ \A p \in Seq(Cell) : ~ Asks(p) => ~ Asks(q \o p)
<1>1. \A k \in 1 .. Len(q) : q[k].of.cmd # "layer"
  BY DEF Asks
<1>2. ASSUME NEW c \in Cell, c.of.cmd # "layer" PROVE ~ Asks(Append(q, c))
  <2>1. /\ Len(q) \in Nat /\ Len(Append(q, c)) = Len(q) + 1
        /\ \A k \in 1 .. Len(q) : Append(q, c)[k] = q[k]
        /\ Append(q, c)[Len(q) + 1] = c
    BY Appended
  <2>2. ASSUME NEW k \in 1 .. Len(q) + 1 PROVE k = Len(q) + 1 \/ k \in 1 .. Len(q)
    BY <2>1
  <2> QED
    BY <1>1, <1>2, <2>1, <2>2 DEF Asks
<1>3. ASSUME NEW p \in Seq(Cell), ~ Asks(p) PROVE ~ Asks(q \o p)
  <2>1. \A k \in 1 .. Len(q \o p) :
           (k \in 1 .. Len(q) /\ (q \o p)[k] = q[k])
           \/ (k - Len(q) \in 1 .. Len(p) /\ (q \o p)[k] = p[k - Len(q)])
    OBVIOUS
  <2> QED
    BY <1>1, <1>3, <2>1 DEF Asks
<1> QED
  BY <1>2, <1>3

\* The handshake is not undone, but by a restart of the session.
LEMMA HandshakeStays ==
    ASSUME BoardTypes, Next, ~ broken'
    PROVE  ~ broken /\ (~ handshaked' => ~ handshaked)
<1>1. CASE UNCHANGED <<handshaked, broken>>
  BY <1>1
<1>2. CASE broken' = TRUE
  BY <1>2
<1>3. CASE broken' = broken /\ \E f : handshaked' = (handshaked \/ f.cmd = "caps")
  BY <1>3
<1>4. Serve => UNCHANGED <<handshaked, broken>> \/ broken' = TRUE
               \/ (broken' = broken /\ \E f : handshaked' = (handshaked \/ f.cmd = "caps"))
  BY DEF Serve, Restarts, Answers
<1> QED
  BY <1>1, <1>2, <1>3, <1>4
  DEF Next, Call, Claim, Queue, Complete, Cancel, TakePump, TakeTopic, WritesZero, WritesFrame,
      Carries, Reads, ProgramRestarts, Probe, DeviceReads, Forward, LayerChanges, KeysChange, device

LEMMA HandshakeStep ==
    ASSUME ClientTypes, HostTypes, BoardTypes, HandshakeInv, Next, ~ broken'
    PROVE  HandshakeInv'
<1> SUFFICES ASSUME ~ handshaked' PROVE HandshakeInv'
  BY DEF HandshakeInv
<1> DEFINE Views == ~ fetched /\ topics = <<>>
           Made  == call[2] # "done" /\ \A i \in Calls : i >= 3 => call[i] = "no"
           Got   == \A s \in Slots : ~ IsCaps(resp[s])
           Asked == \A k \in 1 .. Len(message) : message[k].cmd # "layer"
           Ups   == \A k \in 1 .. Len(up) : ~ Tells(up[k]) /\ ~ IsCaps(up[k])
           Out   == ~ Asks(sending)
           In    == ~ Asks(down) /\ ~ Asks(dbuf)
<1>1. ~ handshaked /\ ~ broken
  BY HandshakeStays
<1>2. Views /\ Made /\ Got /\ Asked /\ Ups /\ Out /\ In
  BY <1>1 DEF HandshakeInv
<1>3. Views' /\ Made' /\ Got' /\ Asked' /\ Ups' /\ Out' /\ In' => HandshakeInv'
  BY DEF HandshakeInv
<1>4. /\ left \in Scenario /\ Calls' = Calls /\ up \in Seq(Reply) /\ down \in Seq(Cell)
      /\ dbuf \in Seq(Cell) /\ sending \in Seq(Cell) /\ message \in Seq(Request)
      /\ call \in [Calls -> Statuses] /\ resp \in [Slots -> Reply] /\ Len(dbuf) <= Buffer
      /\ discarding \in BOOLEAN
  BY LeftStep, SameProgram DEF HostTypes, BoardTypes, ClientTypes
<1>5. ~ Asks(<<>>) /\ ~ IsCaps(NoReply) /\ Zero.of.cmd # "layer" /\ Junk.of.cmd # "layer"
  BY DEF Asks, IsCaps, NoReply, Zero, Junk, Unit, NoFrame
<1>6. /\ UNCHANGED view => Views'
      /\ UNCHANGED call => Made'
      /\ UNCHANGED resp => Got'
      /\ UNCHANGED message => Asked'
      /\ UNCHANGED up => Ups'
      /\ UNCHANGED sending => Out'
      /\ UNCHANGED <<down, dbuf>> => In'
  BY <1>2, <1>4 DEF view, IsTopic, IsCaps, Tells
<1>7. ASSUME NEW i \in Calls, Call(i) PROVE HandshakeInv'
  <2>1. /\ call' = [call EXCEPT ![i] = "slot"] /\ (i > 2 => Connected)
        /\ UNCHANGED <<resp, message, sending, view, down, up, dbuf>>
    BY <1>7 DEF Call, driver, device
  <2>2. Calls \subseteq Nat /\ 2 \in Calls
    BY <1>4, Scenarios_
  <2>3. ~ (i > 2) /\ i \in Nat
    BY <1>2, <2>1, <2>2 DEF Connected
  <2>4. \A j \in Calls : call'[j] = IF j = i THEN "slot" ELSE call[j]
    BY <1>4, <2>1
  <2>5. Made'
    BY <1>2, <1>4, <2>2, <2>3, <2>4
  <2> QED
    BY <1>3, <1>6, <2>1, <2>5
<1>8. ASSUME NEW i \in Calls, NEW v, call[i] # "no", v # "no", v # "done" \/ i # 2,
             call' = [call EXCEPT ![i] = v]
      PROVE  Made'
  <2>1. Calls \subseteq Nat /\ 2 \in Calls
    BY <1>4, Scenarios_
  <2>2. \A j \in Calls : call'[j] = IF j = i THEN v ELSE call[j]
    BY <1>4, <1>8
  <2> QED
    BY <1>2, <1>4, <1>8, <2>1, <2>2
<1>9. ASSUME NEW s, resp' = [resp EXCEPT ![s] = NoReply] PROVE Got'
  BY <1>2, <1>4, <1>5, <1>9 DEF IsCaps
<1>10. ASSUME NEW i \in Calls, Claim(i) PROVE HandshakeInv'
  <2>1. /\ call[i] = "slot" /\ call' = [call EXCEPT ![i] = "queue"]
        /\ \E s : resp' = [resp EXCEPT ![s] = NoReply]
        /\ UNCHANGED <<message, sending, view, down, up, dbuf>>
    BY <1>10 DEF Claim, driver, device
  <2>2. Made'
    BY <1>8, <2>1
  <2> QED
    BY <1>3, <1>6, <1>9, <2>1, <2>2
<1>11. ASSUME NEW i \in Calls, Queue(i) PROVE HandshakeInv'
  <2> DEFINE f == [cmd |-> Cmd(i), seq |-> slotSeq[SlotOf(i)], era |-> era, id |-> i]
  <2>1. /\ call[i] = "queue" /\ call' = [call EXCEPT ![i] = "wait"] /\ message' = <<f>>
        /\ UNCHANGED <<resp, sending, view, down, up, dbuf>>
    BY <1>11 DEF Queue, driver, device
  <2>2. Made'
    BY <1>8, <2>1
  <2>3. Calls \subseteq Nat /\ i \in Nat /\ i # 0 /\ ~ (i >= 3)
    BY <1>2, <1>4, <2>1, Scenarios_
  <2>4. f.cmd # "layer"
    BY <2>3 DEF Cmd
  <2> HIDE DEF f
  <2>5. Asked'
    BY <2>1, <2>4
  <2> QED
    BY <1>3, <1>6, <2>1, <2>2, <2>5
<1>12. ASSUME NEW i \in Calls, Complete(i) PROVE HandshakeInv'
  <2> DEFINE r == resp[SlotOf(i)]
             v == IF r.f.cmd = Cmd(i) /\ r.res = "ok" THEN "done" ELSE "err"
  <2>1. /\ call[i] = "wait" /\ call' = [call EXCEPT ![i] = v]
        /\ Frees(SlotOf(i)) /\ UNCHANGED <<message, sending, view, down, up, dbuf>>
    BY <1>12 DEF Complete, driver, device, Resolves
  <2>2. i = 2 => v # "done"
    <3>1. SlotOf(i) \in Slots
      BY <1>4, <2>1, OwnerFacts
    <3>2. ~ IsCaps(r)
      BY <1>2, <3>1
    <3>3. i = 2 => Cmd(i) = "caps"
      BY DEF Cmd
    <3> QED
      BY <3>2, <3>3 DEF IsCaps
  <2>3. v # "no"
    OBVIOUS
  <2> HIDE DEF v
  <2>4. Made'
    BY <1>8, <2>1, <2>2, <2>3
  <2>5. Got'
    BY <1>9, <2>1 DEF Frees
  <2> QED
    BY <1>3, <1>6, <2>1, <2>4, <2>5
<1>13. ASSUME NEW i \in Calls, Cancel(i) PROVE HandshakeInv'
  <2>1. /\ call[i] # "no" /\ call' = [call EXCEPT ![i] = "gone"]
        /\ UNCHANGED resp \/ Frees(SlotOf(i))
        /\ UNCHANGED <<message, sending, view, down, up, dbuf>>
    BY <1>13 DEF Cancel, driver, device, Pending
  <2>2. Made'
    BY <1>8, <2>1
  <2>3. Got'
    BY <1>6, <1>9, <2>1 DEF Frees
  <2> QED
    BY <1>3, <1>6, <2>1, <2>2, <2>3
<1>14. ASSUME TakeTopic PROVE HandshakeInv'
  BY <1>2, <1>14 DEF TakeTopic
<1>15. ASSUME \/ \E i \in Calls \union {TopicPull} : TakePump(i)
              \/ KeysChange \/ LayerChanges
       PROVE  HandshakeInv'
  <2>1. UNCHANGED <<call, resp, message, sending, view, down, up, dbuf>>
    BY <1>15 DEF TakePump, KeysChange, LayerChanges, client, driver, device
  <2> QED
    BY <1>3, <1>6, <2>1
<1>16. ASSUME WritesZero PROVE HandshakeInv'
  <2>1. sending' = <<Zero>> /\ UNCHANGED <<call, resp, message, view, down, up, dbuf>>
    BY <1>16 DEF WritesZero, client, device
  <2>2. Out'
    <3>1. \A k \in 1 .. Len(<<Zero>>) : <<Zero>>[k] = Zero
      OBVIOUS
    <3> QED
      BY <1>5, <2>1, <3>1 DEF Asks
  <2> QED
    BY <1>3, <1>6, <2>1, <2>2
<1>17. ASSUME WritesFrame PROVE HandshakeInv'
  <2>1. /\ message # <<>> /\ sending' = Units(Head(message)) /\ message' = <<>>
        /\ UNCHANGED <<call, resp, view, down, up, dbuf>>
    BY <1>17 DEF WritesFrame, device
  <2>2. Head(message) \in Request /\ Head(message) = message[1] /\ 1 \in 1 .. Len(message)
    BY <1>4, <2>1, Tails
  <2>3. Head(message).cmd # "layer"
    BY <1>2, <2>2
  <2>4. Out'
    BY <2>1, <2>2, <2>3, UnitsType DEF Asks
  <2>5. Asked'
    BY <2>1
  <2> QED
    BY <1>3, <1>6, <2>1, <2>4, <2>5
<1>18. ASSUME Carries \/ Probe PROVE HandshakeInv'
  <2>1. /\ UNCHANGED <<call, resp, message, view, up, dbuf>>
        /\ \/ UNCHANGED sending /\ down' = Append(down, Junk)
           \/ sending # <<>> /\ sending' = Tail(sending) /\ down' = Append(down, Head(sending))
    BY <1>18 DEF Carries, Probe, client, driver, device
  <2>2. Out'
    BY <1>2, <1>4, <2>1, AsksLess
  <2>3. In'
    <3>1. CASE down' = Append(down, Junk)
      BY <1>2, <1>4, <1>5, <2>1, <3>1, AsksMore, Nones
    <3>2. CASE sending # <<>> /\ down' = Append(down, Head(sending))
      <4>1. Head(sending) \in Cell /\ Head(sending).of.cmd # "layer"
        BY <1>2, <1>4, <3>2, Tails, AsksLess
      <4> QED
        BY <1>2, <1>4, <2>1, <3>2, <4>1, AsksMore
    <3> QED
      BY <2>1, <3>1, <3>2
  <2> QED
    BY <1>3, <1>6, <2>1, <2>2, <2>3
<1>19. ASSUME Reads PROVE HandshakeInv'
  <2> DEFINE r == Head(up)
  <2>1. up # <<>> /\ up' = Tail(up) /\ UNCHANGED <<call, message, sending, down, dbuf>>
    BY <1>19 DEF Reads, driver, device
  <2>2. r = up[1] /\ 1 \in 1 .. Len(up)
    BY <1>4, <2>1, Tails
  <2>3. ~ Tells(r) /\ ~ IsCaps(r)
    BY <1>2, <2>2
  <2>4. r.res # "topic" /\ ~ (r.res = "ok" /\ r.f.cmd = "layer")
    BY <2>3 DEF Tells, IsTopic
  <2> DEFINE fresh == /\ \E s \in WaiterFor(r) : Cmd(owner[s]) = "layer" /\ r.f.cmd = "layer"
                     /\ r.res = "ok"
  <2>a. ~ fresh
    BY <2>4
  <2>5. /\ resp' = [s \in Slots |-> IF s \in WaiterFor(r) THEN r ELSE resp[s]]
        /\ topics' = topics /\ fetched' = (fetched \/ fresh)
    BY <1>19, <2>4 DEF Reads
  <2> HIDE DEF fresh
  <2> HIDE DEF r
  <2>6. Views'
    BY <1>2, <2>a, <2>5
  <2>7. Got'
    BY <1>2, <2>3, <2>5
  <2>8. Ups'
    <3>1. /\ Len(up) \in Nat /\ Len(Tail(up)) = Len(up) - 1
          /\ \A k \in 1 .. Len(up) - 1 : k + 1 \in 1 .. Len(up) /\ Tail(up)[k] = up[k + 1]
      BY <1>4, <2>1, Tails
    <3> QED
      BY <1>2, <2>1, <3>1
  <2> QED
    BY <1>3, <1>6, <2>1, <2>6, <2>7, <2>8
<1>20. ASSUME ProgramRestarts PROVE HandshakeInv'
  <2>1. /\ call' = NoCalls /\ resp' = NoResp /\ message' = <<>> /\ sending' = <<>> /\ topics' = <<>>
        /\ ~ fetched' /\ (up' = up \/ up' = <<>>) /\ UNCHANGED <<down, dbuf>>
    BY <1>20 DEF ProgramRestarts, device
  <2>2. Made'
    <3>1. \A i \in Calls : call'[i] = "no"
      BY <2>1 DEF NoCalls
    <3>2. Calls \subseteq Nat /\ 2 \in Calls
      BY <1>4, Scenarios_
    <3> QED
      BY <1>4, <3>1, <3>2
  <2>3. Got'
    BY <1>5, <2>1 DEF NoResp
  <2>4. Asked' /\ Out' /\ Views'
    BY <1>5, <2>1
  <2>5. Ups'
    BY <1>2, <2>1
  <2> QED
    BY <1>3, <1>6, <2>1, <2>2, <2>3, <2>4, <2>5
<1>21. ASSUME DeviceReads PROVE HandshakeInv'
  <2>1. UNCHANGED <<call, resp, message, sending, view, up>>
    BY <1>21 DEF DeviceReads, client, driver
  <2>2. PICK n \in 1 .. Len(down) :
          /\ n <= Buffer - Len(dbuf)
          /\ Kept(dbuf \o SubSeq(down, 1, n), discarding)
          /\ down' = SubSeq(down, n + 1, Len(down))
    BY <1>21 DEF DeviceReads
  <2>3. n \in Nat /\ n <= Len(down) /\ Len(down) \in Nat
    BY <1>4, <2>2
  <2>4. SubSeq(down, 1, n) \in Seq(Cell) /\ ~ Asks(SubSeq(down, 1, n)) /\ ~ Asks(down')
    BY <1>2, <1>4, <2>2, <2>3, AsksLess
  <2>5. ~ Asks(dbuf \o SubSeq(down, 1, n))
    BY <1>2, <1>4, <2>4, AsksMore
  <2>6. ~ Asks(dbuf')
    BY <1>5, <2>2, <2>5 DEF Kept
  <2> QED
    BY <1>3, <1>6, <2>1, <2>4, <2>6
<1>22. ASSUME Forward PROVE HandshakeInv'
  <2>1. UNCHANGED <<call, resp, message, sending, view, up, down, dbuf>>
    BY <1>1, <1>22 DEF Forward, client, driver
  <2> QED
    BY <1>3, <1>6, <2>1
<1>23. ASSUME Serve PROVE HandshakeInv'
  <2> DEFINE f == dbuf[1].of
             b == Rest(dbuf)
  <2>1. /\ ServeForms(f, b) /\ UNCHANGED <<call, resp, message, sending, view>> /\ dbuf # <<>>
        /\ ~ Asks(b)
    BY <1>2, <1>4, <1>23, Served DEF client, driver
  <2>2. f.cmd # "layer"
    BY <1>2, <1>4, <2>1, AsksLess
  <2> HIDE DEF f, b
  <2>3. Kept(b, FALSE) => ~ Asks(dbuf')
    BY <1>5, <2>1 DEF Kept
  <2>4. ASSUME NEW r \in Reply, ~ Tells(r), ~ IsCaps(r), Answers(r) PROVE Ups' /\ UNCHANGED down
    <3>1. up' = Append(up, r) /\ down' = down
      BY <2>4 DEF Answers
    <3>2. /\ Len(up) \in Nat /\ Len(Append(up, r)) = Len(up) + 1
          /\ \A k \in 1 .. Len(up) : Append(up, r)[k] = up[k]
          /\ Append(up, r)[Len(up) + 1] = r
      BY <1>4, Appended
    <3>3. ASSUME NEW k \in 1 .. Len(up) + 1 PROVE k = Len(up) + 1 \/ k \in 1 .. Len(up)
      BY <3>2
    <3> QED
      BY <1>2, <2>4, <3>1, <3>2, <3>3
  <2>5. f \in Frame
    <3>1. dbuf[1] \in Cell
      BY <1>4, <1>23, Served
    <3> QED
      BY <3>1 DEF f, Cell
  <2>6. CASE Kept(b, FALSE) /\ UNCHANGED <<up, down, handshaked, tdev, lock, broken, left>>
    BY <1>2, <1>3, <1>6, <2>1, <2>3, <2>6
  <2>7. CASE Kept(b, FALSE) /\ Answers([f |-> f, res |-> "malformed", val |-> 0])
    <3> DEFINE r == [f |-> f, res |-> "malformed", val |-> 0]
    <3>1. r \in Reply /\ ~ Tells(r) /\ ~ IsCaps(r)
      BY <2>5 DEF Reply, Tells, IsTopic, IsCaps
    <3> HIDE DEF r
    <3>2. Ups' /\ UNCHANGED down
      BY <2>4, <2>7, <3>1 DEF r
    <3> QED
      BY <1>2, <1>3, <1>6, <2>1, <2>3, <2>7, <3>2
  <2>8. CASE /\ Kept(b, FALSE) /\ handshaked' = (handshaked \/ f.cmd = "caps")
             /\ Answers([f |-> f, res |-> Result(f.cmd, Len(b)), val |-> layer])
    <3> DEFINE r == [f |-> f, res |-> Result(f.cmd, Len(b)), val |-> layer]
    <3>1. f.cmd # "caps"
      BY <2>8
    <3>2. Result(f.cmd, Len(b)) \in {"ok", "busy", "locked"}
      BY DEF Result
    <3>3. r \in Reply
      BY <2>5, <3>2 DEF Reply, BoardTypes
    <3>4. ~ Tells(r) /\ ~ IsCaps(r)
      BY <2>2, <3>1, <3>2 DEF Tells, IsTopic, IsCaps
    <3> HIDE DEF r
    <3>5. Ups' /\ UNCHANGED down
      BY <2>4, <2>8, <3>3, <3>4 DEF r
    <3> QED
      BY <1>2, <1>3, <1>6, <2>1, <2>3, <2>8, <3>5
  <2>9. CASE Restarts
    BY <2>9 DEF Restarts
  <2> QED
    BY <2>1, <2>6, <2>7, <2>8, <2>9 DEF ServeForms
<1> QED
  BY <1>7, <1>10, <1>11, <1>12, <1>13, <1>14, <1>15, <1>16, <1>17, <1>18, <1>19, <1>20, <1>21,
     <1>22, <1>23 DEF Next

-----------------------------------------------------------------------------
(* The newest layer.                                                       *)

\* What is told stays told when a reply is added behind it.
LEMMA ToldStays ==
    ASSUME up \in Seq(Reply), NEW r \in Reply, up' = Append(up, r), UNCHANGED layer
    PROVE  /\ \A k \in 1 .. Len(up) : (Told(k) => Told(k)') /\ up'[k] = up[k]
           /\ Len(up) \in Nat /\ Len(up') = Len(up) + 1 /\ up'[Len(up) + 1] = r
           /\ IsTopic(r) /\ r.val = layer => \A k \in 1 .. Len(up) + 1 : Told(k)'
<1>1. /\ Len(up) \in Nat /\ Len(up') = Len(up) + 1 /\ up'[Len(up) + 1] = r
      /\ \A k \in 1 .. Len(up) : up'[k] = up[k]
  BY Appended
<1>2. ASSUME NEW k \in 1 .. Len(up), Told(k) PROVE Told(k)'
  <2>1. PICK j \in k .. Len(up) : IsTopic(up[j]) /\ up[j].val = layer
    BY <1>2 DEF Told
  <2>2. j \in k .. Len(up') /\ j \in 1 .. Len(up)
    BY <1>1, <2>1
  <2>3. up'[j] = up[j]
    BY <1>1, <2>2
  <2> QED
    BY <2>1, <2>2, <2>3 DEF Told, IsTopic
<1>3. ASSUME IsTopic(r), r.val = layer, NEW k \in 1 .. Len(up) + 1 PROVE Told(k)'
  <2>1. Len(up) + 1 \in k .. Len(up')
    BY <1>1
  <2> QED
    BY <1>1, <1>3, <2>1 DEF Told, IsTopic
<1> QED
  BY <1>1, <1>2, <1>3

\* The first reply is taken: what is told by a later one stays told.
LEMMA ToldBehind ==
    ASSUME up \in Seq(Reply), up # <<>>, up' = Tail(up), UNCHANGED layer
    PROVE  /\ Len(up) \in Nat /\ Len(up) >= 1 /\ Len(up') = Len(up) - 1
           /\ Head(up) = up[1] /\ Head(up) \in Reply
           /\ \A k \in 1 .. Len(up) - 1 :
                 k + 1 \in 1 .. Len(up) /\ up'[k] = up[k + 1] /\ (Told(k + 1) => Told(k)')
           /\ Told(1) => (IsTopic(up[1]) /\ up[1].val = layer) \/ Told(1)'
<1>1. /\ Len(up) \in Nat /\ Len(up) >= 1 /\ Len(up') = Len(up) - 1
      /\ Head(up) = up[1] /\ Head(up) \in Reply
      /\ \A k \in 1 .. Len(up) - 1 : k + 1 \in 1 .. Len(up) /\ up'[k] = up[k + 1]
  BY Tails
<1>2. ASSUME NEW k \in 1 .. Len(up) - 1, NEW j \in k + 1 .. Len(up),
             IsTopic(up[j]), up[j].val = layer
      PROVE  Told(k)'
  <2>1. j - 1 \in k .. Len(up') /\ j - 1 \in 1 .. Len(up) - 1 /\ (j - 1) + 1 = j
    BY <1>1
  <2>2. up'[j - 1] = up[j]
    BY <1>1, <2>1
  <2> QED
    BY <1>2, <2>1, <2>2 DEF Told, IsTopic
<1>3. \A k \in 1 .. Len(up) - 1 : Told(k + 1) => Told(k)'
  BY <1>2 DEF Told
<1>4. ASSUME Told(1), ~ (IsTopic(up[1]) /\ up[1].val = layer) PROVE Told(1)'
  <2>1. PICK j \in 1 .. Len(up) : IsTopic(up[j]) /\ up[j].val = layer
    BY <1>4 DEF Told
  <2>2. j # 1
    BY <1>4, <2>1
  <2>3. 1 \in 1 .. Len(up) - 1 /\ j \in 1 + 1 .. Len(up)
    BY <1>1, <2>1, <2>2
  <2> QED
    BY <1>2, <2>1, <2>3
<1> QED
  BY <1>1, <1>3, <1>4

LEMMA CatchStep ==
    ASSUME ClientTypes, HostTypes, BoardTypes, HandshakeInv, CatchInv, Next, ~ broken'
    PROVE  CatchInv'
<1> DEFINE Subscribed == tdev = <<>> \/ tdev = <<layer>>
           Replies == \A k \in 1 .. Len(up) :
                         Tells(up[k]) => tdev # <<>> \/ up[k].val = layer \/ Told(k)
           Shown == fetched \/ topics # <<>> => tdev # <<>> \/ Told(1) \/ layer = Known
<1>1. /\ Subscribed /\ Replies /\ Shown
      /\ (Subscribed' /\ Replies' /\ Shown' => CatchInv')
  BY DEF CatchInv
<1>2. /\ UNCHANGED <<tdev, layer>> => Subscribed'
      /\ UNCHANGED <<tdev, layer, up>> => Replies' /\ (Told(1)' <=> Told(1))
      /\ UNCHANGED <<tdev, layer, up, view>> => Shown'
  BY <1>1 DEF view, Tells, IsTopic, Told, Known
<1>3. /\ up \in Seq(Reply) /\ topics \in Seq(Nat) /\ layer \in Nat /\ tdev \in Seq(Nat)
      /\ dbuf \in Seq(Cell) /\ Len(dbuf) <= Buffer
  BY DEF HostTypes, BoardTypes
<1>4. ASSUME \/ \E i \in Calls : Call(i) \/ Claim(i) \/ Queue(i) \/ Complete(i) \/ Cancel(i)
             \/ \E i \in Calls \union {TopicPull} : TakePump(i)
             \/ WritesZero \/ WritesFrame \/ Carries \/ Probe \/ DeviceReads \/ KeysChange
      PROVE  CatchInv'
  <2>1. UNCHANGED <<tdev, layer, up, view>>
    BY <1>4 DEF Call, Claim, Queue, Complete, Cancel, TakePump, WritesZero, WritesFrame, Carries,
                Probe, DeviceReads, KeysChange, device, world
  <2> QED
    BY <1>1, <1>2, <2>1
<1>5. ASSUME TakeTopic PROVE CatchInv'
  <2>1. /\ topics # <<>> /\ seen' = Head(topics) /\ topics' = Tail(topics)
        /\ UNCHANGED <<tdev, layer, up>>
    BY <1>5 DEF TakeTopic, device, world
  <2>2. Known' = Known
    <3>1. /\ Head(topics) = topics[1] /\ Tail(topics) \in Seq(Nat)
          /\ Len(topics) \in Nat /\ Len(topics) >= 1 /\ Len(Tail(topics)) = Len(topics) - 1
          /\ \A k \in 1 .. Len(topics) - 1 : Tail(topics)[k] = topics[k + 1]
      BY <1>3, <2>1, Tails
    <3>2. CASE Tail(topics) = <<>>
      <4>1. Len(topics) = 1
        BY <1>3, <2>1, <3>2, LastOne
      <4> QED
        BY <2>1, <3>1, <3>2, <4>1 DEF Known
    <3>3. CASE Tail(topics) # <<>>
      <4>1. Len(Tail(topics)) >= 1
        BY <3>1, <3>3, Tails
      <4>2. Len(topics) - 1 \in 1 .. Len(topics) - 1 /\ (Len(topics) - 1) + 1 = Len(topics)
        BY <3>1, <4>1
      <4>3. Tail(topics)[Len(Tail(topics))] = topics[Len(topics)]
        BY <3>1, <4>2
      <4> QED
        BY <2>1, <3>3, <4>3 DEF Known
    <3> QED
      BY <3>2, <3>3
  <2>3. Shown'
    BY <1>1, <1>2, <2>1, <2>2
  <2> QED
    BY <1>1, <1>2, <2>1, <2>3
<1>6. ASSUME LayerChanges PROVE CatchInv'
  <2>1. layer' = layer + 1 /\ tdev' = <<layer + 1>>
    BY <1>6 DEF LayerChanges
  <2>2. tdev' = <<layer'>> /\ tdev' # <<>>
    BY <2>1, Single
  <2> QED
    BY <1>1, <2>2
<1>7. ASSUME ProgramRestarts PROVE CatchInv'
  <2>1. /\ topics' = <<>> /\ ~ fetched' /\ (up' = up \/ up' = <<>>) /\ UNCHANGED <<tdev, layer>>
    BY <1>7 DEF ProgramRestarts, device, world
  <2>2. Replies'
    <3>1. CASE up' = up
      BY <1>2, <2>1, <3>1
    <3>2. CASE up' = <<>>
      BY <3>2, Empty
    <3> QED
      BY <2>1, <3>1, <3>2
  <2> QED
    BY <1>1, <1>2, <2>1, <2>2
<1>8. ASSUME NEW r \in Reply, r.val = layer, up' = Append(up, r), UNCHANGED <<tdev, layer, view>>
      PROVE  CatchInv'
  <2>1. /\ \A k \in 1 .. Len(up) : (Told(k) => Told(k)') /\ up'[k] = up[k]
        /\ Len(up) \in Nat /\ Len(up') = Len(up) + 1 /\ up'[Len(up) + 1] = r
    BY <1>3, <1>8, ToldStays
  <2>2. ASSUME NEW k \in 1 .. Len(up'), Tells(up'[k])
        PROVE  tdev' # <<>> \/ up'[k].val = layer' \/ Told(k)'
    <3>1. CASE k = Len(up) + 1
      BY <1>8, <2>1, <3>1
    <3>2. CASE k \in 1 .. Len(up)
      BY <1>1, <1>8, <2>1, <2>2, <3>2
    <3> QED
      BY <2>1, <3>1, <3>2
  <2>3. Replies'
    BY <2>2 DEF Tells, IsTopic
  <2>4. Told(1) => Told(1)'
    <3>1. Told(1) => 1 \in 1 .. Len(up)
      BY <2>1 DEF Told
    <3> QED
      BY <2>1, <3>1
  <2>5. Known' = Known /\ UNCHANGED <<topics, fetched>>
    BY <1>8 DEF Known, view
  <2>6. Shown'
    BY <1>1, <1>8, <2>4, <2>5
  <2> QED
    BY <1>1, <1>2, <1>8, <2>3, <2>6
<1>9. ASSUME Forward PROVE CatchInv'
  <2>1. tdev # <<>> /\ tdev' = Tail(tdev) /\ UNCHANGED <<layer, view>>
    BY <1>9 DEF Forward, world
  <2>2. tdev = <<layer>> /\ tdev' = <<>> /\ Head(tdev) = layer
    <3>1. tdev = <<layer>>
      BY <1>1, <2>1
    <3>2. Len(tdev) = 1 /\ tdev[1] = layer
      BY <1>3, <3>1, Single
    <3>3. Head(tdev) = tdev[1] /\ tdev' \in Seq(Nat) /\ Len(tdev') = Len(tdev) - 1
      BY <1>3, <2>1, Tails
    <3>4. Len(tdev') = 0
      BY <3>2, <3>3
    <3> QED
      BY <3>1, <3>2, <3>3, <3>4, NoneLeft
  <2>3. Subscribed'
    BY <2>2
  <2>4. CASE handshaked
    <3> DEFINE r == [f |-> NoFrame, res |-> "topic", val |-> Head(tdev)]
    <3>1. up' = Append(up, r)
      BY <1>9, <2>4 DEF Forward
    <3>2. r \in Reply /\ r.val = layer /\ IsTopic(r)
      BY <1>3, <2>2, Nones DEF Reply, IsTopic
    <3> HIDE DEF r
    <3>3. Len(up) \in Nat /\ Len(up') = Len(up) + 1 /\ \A k \in 1 .. Len(up) + 1 : Told(k)'
      BY <1>3, <2>1, <3>1, <3>2, ToldStays
    <3>4. Replies'
      BY <3>3
    <3>5. Shown'
      BY <3>3
    <3> QED
      BY <1>1, <2>3, <3>4, <3>5
  <2>5. CASE ~ handshaked
    <3>1. up' = up
      BY <1>9, <2>5 DEF Forward
    <3>2. ~ fetched /\ topics = <<>> /\ \A k \in 1 .. Len(up) : ~ Tells(up[k])
      BY <2>5 DEF HandshakeInv
    <3>3. Replies' /\ Shown'
      BY <2>1, <3>1, <3>2 DEF Tells, IsTopic, view
    <3> QED
      BY <1>1, <2>3, <3>3
  <2> QED
    BY <2>4, <2>5
<1>10. ASSUME Serve PROVE CatchInv'
  <2> DEFINE f == dbuf[1].of
             b == Rest(dbuf)
  <2>1. ServeForms(f, b) /\ UNCHANGED <<layer, view>> /\ dbuf[1] \in Cell
    BY <1>3, <1>10, Served DEF world
  <2>2. f \in Frame
    BY <2>1 DEF Cell
  <2> HIDE DEF f, b
  <2>3. CASE UNCHANGED <<up, tdev>>
    BY <1>1, <1>2, <2>1, <2>3
  <2>4. CASE Answers([f |-> f, res |-> "malformed", val |-> 0])
    <3> DEFINE r == [f |-> f, res |-> "malformed", val |-> 0]
    <3>1. up' = Append(up, r) /\ tdev' = tdev
      BY <2>4 DEF Answers
    <3>2. r \in Reply /\ ~ Tells(r)
      BY <2>2 DEF Reply, Tells, IsTopic
    <3> HIDE DEF r
    <3>3. /\ \A k \in 1 .. Len(up) : (Told(k) => Told(k)') /\ up'[k] = up[k]
          /\ Len(up) \in Nat /\ Len(up') = Len(up) + 1 /\ up'[Len(up) + 1] = r
      BY <1>3, <2>1, <3>1, <3>2, ToldStays
    <3>4. ASSUME NEW k \in 1 .. Len(up'), Tells(up'[k])
          PROVE  tdev' # <<>> \/ up'[k].val = layer' \/ Told(k)'
      <4>1. k \in 1 .. Len(up)
        <5>1. k # Len(up) + 1
          BY <3>2, <3>3, <3>4
        <5> QED
          BY <3>3, <5>1
      <4> QED
        BY <1>1, <2>1, <3>1, <3>3, <3>4, <4>1
    <3>5. Replies'
      BY <3>4 DEF Tells, IsTopic
    <3>6. Told(1) => Told(1)'
      <4>1. Told(1) => 1 \in 1 .. Len(up)
        BY <3>3 DEF Told
      <4> QED
        BY <3>3, <4>1
    <3>7. Known' = Known /\ UNCHANGED <<topics, fetched>>
      BY <2>1 DEF Known, view
    <3>8. Shown'
      BY <1>1, <2>1, <3>1, <3>6, <3>7
    <3> QED
      BY <1>1, <1>2, <2>1, <3>1, <3>5, <3>8
  <2>5. CASE Answers([f |-> f, res |-> Result(f.cmd, Len(b)), val |-> layer])
    <3> DEFINE r == [f |-> f, res |-> Result(f.cmd, Len(b)), val |-> layer]
    <3>1. up' = Append(up, r) /\ tdev' = tdev
      BY <2>5 DEF Answers
    <3>2. r \in Reply /\ r.val = layer
      BY <1>3, <2>2 DEF Reply, Result
    <3> HIDE DEF r
    <3> QED
      BY <1>8, <2>1, <3>1, <3>2
  <2>6. CASE Restarts
    BY <2>6 DEF Restarts
  <2> QED
    BY <2>1, <2>3, <2>4, <2>5, <2>6 DEF ServeForms
<1>11. ASSUME Reads PROVE CatchInv'
  <2> DEFINE r == Head(up)
             fresh == /\ \E s \in WaiterFor(r) : Cmd(owner[s]) = "layer" /\ r.f.cmd = "layer"
                      /\ r.res = "ok"
  <2>1. up # <<>> /\ up' = Tail(up) /\ UNCHANGED <<tdev, layer>>
    BY <1>11 DEF Reads, device, world
  <2>2. /\ Len(up) \in Nat /\ Len(up) >= 1 /\ Len(up') = Len(up) - 1 /\ r = up[1] /\ r \in Reply
        /\ \A k \in 1 .. Len(up) - 1 :
              k + 1 \in 1 .. Len(up) /\ up'[k] = up[k + 1] /\ (Told(k + 1) => Told(k)')
        /\ Told(1) => (IsTopic(up[1]) /\ up[1].val = layer) \/ Told(1)'
    BY <1>3, <2>1, ToldBehind
  <2>3. Subscribed'
    BY <1>2, <2>1
  <2>4. Replies'
    <3>1. ASSUME NEW k \in 1 .. Len(up) - 1, Tells(up'[k])
          PROVE  tdev' # <<>> \/ up'[k].val = layer' \/ Told(k)'
      BY <1>1, <2>1, <2>2, <3>1
    <3> QED
      BY <2>2, <3>1 DEF Tells, IsTopic
  <2>5. Tells(r) => tdev # <<>> \/ r.val = layer \/ Told(1)'
    <3>1. 1 \in 1 .. Len(up)
      BY <2>2
    <3> QED
      BY <1>1, <2>2, <3>1
  <2>6. \/ IsTopic(r) /\ topics' = Queued(topics, r.val) /\ UNCHANGED <<seen, fetched>>
        \/ /\ ~ IsTopic(r) /\ fetched' = (fetched \/ fresh) /\ topics' = topics
           /\ seen' = IF fresh /\ topics = <<>> THEN r.val ELSE seen
    BY <1>11 DEF Reads, IsTopic
  <2>7. fresh => Tells(r)
    BY DEF Tells
  <2> HIDE DEF r, fresh
  <2>8. CASE IsTopic(r) /\ topics' = Queued(topics, r.val) /\ UNCHANGED <<seen, fetched>>
    <3>1. r.val \in Nat
      BY <2>2 DEF Reply
    <3>2. topics' # <<>> /\ topics'[Len(topics')] = r.val
      BY <1>3, <2>8, <3>1, QueuedType DEF HostTypes
    <3>3. Known' = r.val
      BY <3>2 DEF Known
    <3>4. Shown'
      BY <2>1, <2>5, <2>8, <3>3 DEF Tells
    <3> QED
      BY <1>1, <2>3, <2>4, <3>4
  <2>9. CASE /\ ~ IsTopic(r) /\ fetched' = (fetched \/ fresh) /\ topics' = topics
             /\ seen' = IF fresh /\ topics = <<>> THEN r.val ELSE seen
    <3>1. Told(1) => Told(1)'
      BY <2>2, <2>9
    <3>2. CASE fresh /\ topics = <<>>
      <4>1. Known' = r.val
        BY <2>9, <3>2 DEF Known
      <4>2. Shown'
        BY <2>1, <2>5, <2>7, <3>2, <4>1
      <4> QED
        BY <1>1, <2>3, <2>4, <4>2
    <3>3. CASE ~ fresh \/ topics # <<>>
      <4>1. Known' = Known
        BY <2>9, <3>3 DEF Known
      <4>2. fetched' \/ topics' # <<>> => fetched \/ topics # <<>>
        BY <2>9, <3>3
      <4>3. Shown'
        BY <1>1, <2>1, <3>1, <4>1, <4>2
      <4> QED
        BY <1>1, <2>3, <2>4, <4>3
    <3> QED
      BY <3>2, <3>3
  <2> QED
    BY <2>6, <2>8, <2>9
<1> QED
  BY <1>4, <1>5, <1>6, <1>7, <1>9, <1>10, <1>11 DEF Next

-----------------------------------------------------------------------------
(* The theorems.                                                           *)

LEMMA RynkInitially == Init => RynkInv
<1> SUFFICES ASSUME Init PROVE RynkInv
  OBVIOUS
<1>1. left \in Scenario
  BY RynkScenarios DEF Init
<1>2. ClientTypes
  BY <1>1, FreshClient DEF Init
<1>3. HostTypes
  <2>1. sending \in Seq(Cell) /\ topics \in Seq(Nat) /\ Len(topics) <= TopicCap
    BY Empty, Sizes DEF Init
  <2>2. pump \in Drivers
    BY DEF Init, Drivers
  <2>3. phase \in {"zero", "loop"} /\ seen \in Nat /\ era \in Nat
    BY DEF Init
  <2>4. fetched \in BOOLEAN
    BY DEF Init
  <2> QED
    BY <1>1, <2>1, <2>2, <2>3, <2>4 DEF HostTypes
<1>4. BoardTypes
  <2>1. /\ down \in Seq(Cell) /\ Len(down) <= DownCap /\ up \in Seq(Reply) /\ Len(up) <= UpCap
        /\ dbuf \in Seq(Cell) /\ Len(dbuf) <= Buffer /\ tdev \in Seq(Nat)
    BY Empty, Sizes DEF Init
  <2>2. {discarding, handshaked, held, broken, unlocked, shown} \subseteq BOOLEAN
    BY DEF Init
  <2>3. layer \in Nat /\ PresenceInv
    BY DEF Init, PresenceInv
  <2> QED
    BY <2>1, <2>2, <2>3 DEF BoardTypes
<1>5. HandshakeInv
  <2>1. \A i \in Calls : call[i] = "no"
    BY DEF Init, NoCalls
  <2>2. 2 \in Calls
    BY <1>1, Scenarios_
  <2>3. \A s \in Slots : ~ IsCaps(resp[s])
    BY DEF Init, NoResp, NoReply, IsCaps
  <2>4. ~ Asks(sending) /\ ~ Asks(down) /\ ~ Asks(dbuf)
    BY DEF Init, Asks
  <2>5. \A k \in 1 .. Len(up) : ~ Tells(up[k]) /\ ~ IsCaps(up[k])
    BY DEF Init
  <2>6. \A k \in 1 .. Len(message) : message[k].cmd # "layer"
    BY DEF Init
  <2>7. ~ fetched /\ topics = <<>> /\ call[2] # "done"
    BY <2>1, <2>2 DEF Init
  <2> QED
    BY <2>1, <2>3, <2>4, <2>5, <2>6, <2>7 DEF HandshakeInv
<1>6. CatchInv
  <2>1. up = <<>> /\ tdev = <<>> /\ topics = <<>> /\ ~ fetched
    BY DEF Init
  <2> QED
    BY <2>1, Empty DEF CatchInv
<1>7. FreeInv
  BY FreshFree DEF Init, FreeInv
<1> QED
  BY <1>2, <1>3, <1>4, <1>5, <1>6, <1>7 DEF RynkInv

LEMMA RynkStep == RynkInv /\ [Next]_vars => RynkInv'
<1> SUFFICES ASSUME RynkInv, [Next]_vars PROVE RynkInv'
  OBVIOUS
<1>1. CASE Next
  <2>1. /\ ClientTypes /\ FreeInv /\ HostTypes /\ BoardTypes
        /\ ~ broken => HandshakeInv /\ CatchInv
    BY DEF RynkInv
  <2>2. up \in Seq(Reply) /\ left \in Scenario
    BY <2>1 DEF BoardTypes, HostTypes
  <2>3. ClientTypes'
    BY <1>1, <2>1, <2>2, ClientStep
  <2>4. HostTypes'
    BY <1>1, <2>1, HostStep
  <2>5. BoardTypes'
    BY <1>1, <2>1, BoardStep
  <2>6. ASSUME ~ broken' PROVE HandshakeInv' /\ CatchInv'
    <3>1. ~ broken
      BY <1>1, <2>1, <2>6, HandshakeStays
    <3> QED
      BY <1>1, <2>1, <2>6, <3>1, HandshakeStep, CatchStep
  <2>7. FreeInv'
    BY <1>1, <2>1, <2>2, FreeStep
  <2> QED
    BY <2>3, <2>4, <2>5, <2>6, <2>7 DEF RynkInv
<1>2. CASE UNCHANGED vars
  <2>1. UNCHANGED <<era, client, driver, view, down, up, device, world, broken, left>>
    BY <1>2 DEF vars
  <2>2. /\ UNCHANGED <<call, owner, free, slotSeq, resp, nextSeq, message, pump, phase, sending>>
        /\ UNCHANGED <<topics, seen, fetched, dbuf, discarding, handshaked, tdev, unlocked, shown>>
        /\ UNCHANGED <<era, down, up, layer, held, broken, left>>
    BY <2>1 DEF client, driver, view, device, lock, world
  <2>3. Calls' = Calls
    BY <2>2, SameProgram
  <2>4. ClientTypes' /\ FreeInv'
    BY <2>2, <2>3 DEF RynkInv, ClientTypes, OwnerInv, FreeInv
  <2>5. HostTypes' /\ BoardTypes'
    BY <2>2, <2>3 DEF RynkInv, HostTypes, BoardTypes, Drivers, PresenceInv
  <2>6. HandshakeInv => HandshakeInv'
    BY <2>2, <2>3 DEF HandshakeInv, Tells, IsTopic, IsCaps, Asks
  <2>7. CatchInv => CatchInv'
    BY <2>2 DEF CatchInv, Tells, IsTopic, Told, Known
  <2> QED
    BY <2>2, <2>4, <2>5, <2>6, <2>7 DEF RynkInv
<1> QED
  BY <1>1, <1>2

\* The invariant: types, who holds which slot, what is on its way before the handshake, and
\* where the newest layer is.
THEOREM RynkIsSound == Spec => []RynkInv
BY RynkInitially, RynkStep, PTL DEF Spec

\* No slot is lost or handed out twice and the free list always has room, however requests end
\* (SlotGuard, Client::new); and every queue, buffer and number stays in its type and bound.
THEOREM SlotsStayWhole == Spec => [](TypeOK /\ SlotsAreWhole)
<1>1. RynkInv => TypeOK
  <2> SUFFICES ASSUME RynkInv PROVE TypeOK
    OBVIOUS
  <2>1. /\ \A i \in Calls : call[i] \in {"no", "slot", "queue", "wait", "done", "err", "gone"}
        /\ owner \in [Slots -> Calls \union {0}] /\ slotSeq \in [Slots -> 0 .. MaxSeq]
        /\ \A s \in Slots : owner[s] # 0 <=> slotSeq[s] # 0
        /\ free \in Seq(Slots) /\ resp \in [Slots -> Reply] /\ nextSeq \in 1 .. MaxSeq
    BY DEF RynkInv, ClientTypes, FreeInv, Statuses
  <2>2. message \in Seq(Frame) /\ Len(message) <= 1
    BY Nones DEF RynkInv, ClientTypes
  <2>3. /\ pump \in Calls \union {Nobody, Resident, TopicPull} /\ phase \in {"zero", "loop"}
        /\ topics \in Seq(Nat) /\ Len(topics) <= TopicCap /\ left \in Scenario
        /\ seen \in Nat /\ era \in Nat
    BY DEF RynkInv, HostTypes, Drivers
  <2>4. sending \in Stream /\ down \in Stream /\ dbuf \in Stream
    BY DEF RynkInv, HostTypes, BoardTypes, Stream, Cell
  <2>5. /\ Len(down) <= DownCap /\ up \in Seq(Reply) /\ Len(up) <= UpCap /\ tdev \in Seq(Nat)
        /\ layer \in Nat
    BY DEF RynkInv, BoardTypes
  <2>6. Len(dbuf) < Buffer + 1
    <3>1. Len(dbuf) <= Buffer /\ Len(dbuf) \in Nat
      BY DEF RynkInv, BoardTypes
    <3> QED
      BY <3>1, Sizes
  <2>7. {fetched, discarding, handshaked, unlocked, held, shown, broken} \subseteq BOOLEAN
    BY DEF RynkInv, HostTypes, BoardTypes
  <2> QED
    BY <2>1, <2>2, <2>3, <2>4, <2>5, <2>6, <2>7 DEF TypeOK
<1>2. RynkInv => SlotsAreWhole
  BY DEF RynkInv, ClientTypes, OwnerInv, FreeInv, SlotsAreWhole
<1> QED
  BY <1>1, <1>2, RynkIsSound, PTL

\* A gated request is served only to a session to which the unlock keys were shown since it was
\* last locked, whatever requests, failed writes and restarts come between (HostLock,
\* run_session).
THEOREM GatedRequestsNeedPresence == Spec => GatedNeedsPresence
<1> DEFINE Serves == LET r == up'[Len(up')] IN
                     Len(up') > Len(up) /\ r.f.cmd = "gated" /\ r.res = "ok"
<1>1. ASSUME RynkInv, Next, Serves PROVE shown
  <2>1. up \in Seq(Reply) /\ Len(up) \in Nat
    BY <1>1 DEF RynkInv, BoardTypes
  <2>2. ASSUME NEW r, up' = Append(up, r), ~ (r.f.cmd = "gated" /\ r.res = "ok") PROVE FALSE
    BY <1>1, <2>1, <2>2
  <2>3. ~ UNCHANGED up
    BY <1>1, <2>1
  <2>4. ~ (up' = <<>> \/ (up # <<>> /\ up' = Tail(up)))
    BY <1>1, <2>1, Tails
  <2>5. CASE Serve
    <3> DEFINE f == dbuf[1].of
               b == Rest(dbuf)
    <3>1. ServeForms(f, b)
      BY <1>1, <2>5, Served DEF RynkInv, BoardTypes
    <3> HIDE DEF f, b
    <3>2. ~ \E r : /\ Answers(r) /\ ~ (r.f.cmd = "gated" /\ r.res = "ok")
      BY <2>2 DEF Answers
    <3>a. ~ Answers([f |-> f, res |-> "malformed", val |-> 0])
      <4> DEFINE m == [f |-> f, res |-> "malformed", val |-> 0]
      <4>1. m.res # "ok"
        OBVIOUS
      <4> HIDE DEF m
      <4>2. ~ Answers(m)
        BY <3>2, <4>1
      <4> QED
        BY <4>2 DEF m
    <3>b. Answers([f |-> f, res |-> Result(f.cmd, Len(b)), val |-> layer])
      BY <2>3, <3>1, <3>a DEF ServeForms, Restarts
    <3>3. PICK r : /\ r = [f |-> f, res |-> Result(f.cmd, Len(b)), val |-> layer] /\ Answers(r)
      BY <3>b
    <3>4. r.f.cmd = "gated" /\ r.res = "ok"
      BY <3>2, <3>3
    <3>5. unlocked
      BY <3>3, <3>4 DEF Result
    <3> QED
      BY <1>1, <3>5 DEF RynkInv, BoardTypes, PresenceInv
  <2>6. ~ Forward
    BY <2>2, <2>3 DEF Forward
  <2>7. ~ (Reads \/ ProgramRestarts)
    BY <2>3, <2>4 DEF Reads, ProgramRestarts
  <2>8. Serve
    BY <1>1, <2>3, <2>6, <2>7
    DEF Next, Call, Claim, Queue, Complete, Cancel, TakePump, TakeTopic, WritesZero, WritesFrame,
        Carries, Probe, DeviceReads, LayerChanges, KeysChange
  <2> QED
    BY <2>5, <2>8
<1>2. RynkInv /\ [Next]_vars => [Serves => shown]_up
  BY <1>1 DEF vars
<1> QED
  BY <1>2, RynkIsSound, PTL DEF Spec, GatedNeedsPresence

\* A program that fetched the layer and listens knows the newest one when nothing is under way:
\* neither the bounded queue of topics, nor a topic dropped before the handshake, nor the restart
\* of a program hides the last change (Driver::run, TOPIC_QUEUE_CAPACITY, run_session).
THEOREM LayerIsCaughtUp == Spec => []TopicsCatchUp
<1>1. RynkInv => TopicsCatchUp
  <2> SUFFICES ASSUME RynkInv, fetched, up = <<>>, tdev = <<>>, ~ broken
               PROVE  layer = IF topics = <<>> THEN seen ELSE topics[Len(topics)]
    BY DEF TopicsCatchUp
  <2>1. fetched \/ topics # <<>> => tdev # <<>> \/ Told(1) \/ layer = Known
    BY DEF RynkInv, CatchInv
  <2>2. ~ Told(1)
    BY Empty DEF Told
  <2> QED
    BY <2>1, <2>2 DEF Known
<1> QED
  BY <1>1, RynkIsSound, PTL

-----------------------------------------------------------------------------
(* Where a request and the replies to it are.                              *)

Shows(q, g) == \E k \in 1 .. Len(q) : q[k].of = g

Travels(g) ==
    \/ \E k \in 1 .. Len(message) : message[k] = g
    \/ Shows(sending, g) \/ Shows(down, g) \/ Shows(dbuf, g)
    \/ \E k \in 1 .. Len(up) : up[k].f = g

\* A part of a buffer shows nothing that the buffer does not.
LEMMA ShowsLess ==
    ASSUME NEW q \in Seq(Cell), NEW g, ~ Shows(q, g)
    PROVE  /\ q # <<>> => Head(q).of # g /\ ~ Shows(Tail(q), g) /\ q[1].of # g
           /\ \A n \in Nat : n <= Len(q) =>
                 ~ Shows(SubSeq(q, 1, n), g) /\ ~ Shows(SubSeq(q, n + 1, Len(q)), g)
<1>1. Len(q) \in Nat /\ \A k \in 1 .. Len(q) : q[k].of # g
  BY DEF Shows
<1>2. ASSUME q # <<>> PROVE Head(q).of # g /\ ~ Shows(Tail(q), g) /\ q[1].of # g
  <2>1. /\ Head(q) = q[1] /\ Tail(q) \in Seq(Cell) /\ Len(q) >= 1 /\ Len(Tail(q)) = Len(q) - 1
        /\ \A k \in 1 .. Len(q) - 1 : k + 1 \in 1 .. Len(q) /\ Tail(q)[k] = q[k + 1]
    BY <1>2, Tails
  <2>2. 1 \in 1 .. Len(q)
    BY <1>1, <2>1
  <2> QED
    BY <1>1, <2>1, <2>2 DEF Shows
<1>3. ASSUME NEW n \in Nat, n <= Len(q)
      PROVE  ~ Shows(SubSeq(q, 1, n), g) /\ ~ Shows(SubSeq(q, n + 1, Len(q)), g)
  <2>1. \A k \in 1 .. Len(SubSeq(q, 0 + 1, n)) :
           k + 0 \in 1 .. Len(q) /\ SubSeq(q, 0 + 1, n)[k] = q[k + 0]
    BY <1>3, Slices
  <2>2. \A k \in 1 .. Len(SubSeq(q, n + 1, Len(q))) :
           k + n \in 1 .. Len(q) /\ SubSeq(q, n + 1, Len(q))[k] = q[k + n]
    BY <1>1, <1>3, Slices
  <2>3. SubSeq(q, 0 + 1, n) = SubSeq(q, 1, n)
    OBVIOUS
  <2> QED
    BY <1>1, <2>1, <2>2, <2>3 DEF Shows
<1> QED
  BY <1>2, <1>3

LEMMA ShowsMore ==
    ASSUME NEW q \in Seq(Cell), NEW g, ~ Shows(q, g)
    PROVE  /\ \A c \in Cell : c.of # g => ~ Shows(Append(q, c), g)
           /\ \A p \in Seq(Cell) : ~ Shows(p, g) => ~ Shows(q \o p, g)
<1>1. Len(q) \in Nat /\ \A k \in 1 .. Len(q) : q[k].of # g
  BY DEF Shows
<1>2. ASSUME NEW c \in Cell, c.of # g PROVE ~ Shows(Append(q, c), g)
  BY <1>1, <1>2, Appended DEF Shows
<1>3. ASSUME NEW p \in Seq(Cell), ~ Shows(p, g) PROVE ~ Shows(q \o p, g)
  <2>1. Len(p) \in Nat /\ \A k \in 1 .. Len(p) : p[k].of # g
    BY <1>3 DEF Shows
  <2>2. /\ Len(q \o p) = Len(q) + Len(p)
        /\ \A k \in 1 .. Len(q) + Len(p) :
              (q \o p)[k] = IF k <= Len(q) THEN q[k] ELSE p[k - Len(q)]
    OBVIOUS
  <2>3. \A k \in 1 .. Len(q) + Len(p) : k <= Len(q) \/ k - Len(q) \in 1 .. Len(p)
    BY <1>1, <2>1
  <2> QED
    BY <1>1, <2>1, <2>2, <2>3 DEF Shows
<1> QED
  BY <1>2, <1>3

\* A request comes into the world when it is queued, and no step makes one up: neither bytes
\* of two frames that end up in one buffer, nor a damaged frame, nor a restart.
LEMMA NothingMadeUp ==
    ASSUME ClientTypes, HostTypes, BoardTypes, Next, NEW g, g # NoFrame, ~ Travels(g),
           \A i \in Calls : Queue(i) => message'[1] # g
    PROVE  ~ Travels(g)'
<1> DEFINE Asked == \A k \in 1 .. Len(message) : message[k] # g
           Out   == ~ Shows(sending, g)
           In    == ~ Shows(down, g)
           Buf   == ~ Shows(dbuf, g)
           Ups   == \A k \in 1 .. Len(up) : up[k].f # g
<1>1. Asked /\ Out /\ In /\ Buf /\ Ups
  BY DEF Travels
<1>2. Asked' /\ Out' /\ In' /\ Buf' /\ Ups' => ~ Travels(g)'
  BY DEF Travels
<1>3. /\ left \in Scenario /\ up \in Seq(Reply) /\ down \in Seq(Cell) /\ dbuf \in Seq(Cell)
      /\ sending \in Seq(Cell) /\ message \in Seq(Request) /\ Len(message) <= 1
      /\ Len(dbuf) <= Buffer /\ discarding \in BOOLEAN /\ layer \in Nat /\ tdev \in Seq(Nat)
  BY DEF HostTypes, BoardTypes, ClientTypes
<1>4. ~ Shows(<<>>, g) /\ Zero \in Cell /\ Junk \in Cell /\ Zero.of # g /\ Junk.of # g
      /\ NoFrame \in Frame
  BY Nones DEF Shows, Zero, Junk, Unit
<1>5. /\ UNCHANGED message => Asked'
      /\ UNCHANGED sending => Out'
      /\ UNCHANGED down => In'
      /\ UNCHANGED dbuf => Buf'
      /\ UNCHANGED up => Ups'
  BY <1>1
<1>6. message' = <<>> => Asked'
  BY Empty
<1>7. ASSUME \/ \E i \in Calls : Call(i) \/ Claim(i) \/ Complete(i) \/ Cancel(i)
             \/ \E i \in Calls \union {TopicPull} : TakePump(i)
             \/ TakeTopic \/ LayerChanges \/ KeysChange
      PROVE  ~ Travels(g)'
  <2>1. UNCHANGED <<message, sending, down, dbuf, up>>
    BY <1>7 DEF Call, Claim, Complete, Cancel, TakePump, TakeTopic, LayerChanges, KeysChange,
                driver, device, client, Resolves
  <2> QED
    BY <1>2, <1>5, <2>1
<1>8. ASSUME NEW i \in Calls, Queue(i) PROVE ~ Travels(g)'
  <2>1. message'[1] # g /\ Len(message') = 1 /\ UNCHANGED <<sending, down, dbuf, up>>
    BY <1>8 DEF Queue, driver, device
  <2>2. Asked'
    BY <2>1
  <2> QED
    BY <1>2, <1>5, <2>1, <2>2
<1>9. ASSUME WritesZero PROVE ~ Travels(g)'
  <2>1. sending' = <<Zero>> /\ UNCHANGED <<message, down, dbuf, up>>
    BY <1>9 DEF WritesZero, client, device
  <2>2. Len(<<Zero>>) = 1 /\ <<Zero>>[1] = Zero
    OBVIOUS
  <2>3. Out'
    BY <1>4, <2>1, <2>2 DEF Shows
  <2> QED
    BY <1>2, <1>5, <2>1, <2>3
<1>10. ASSUME WritesFrame PROVE ~ Travels(g)'
  <2>1. /\ message # <<>> /\ sending' = Units(Head(message)) /\ message' = <<>>
        /\ UNCHANGED <<down, dbuf, up>>
    BY <1>10 DEF WritesFrame, device
  <2>2. Head(message) \in Request /\ Head(message) = message[1] /\ Len(message) >= 1
        /\ Len(message) \in Nat
    BY <1>3, <2>1, Tails
  <2>3. Head(message) # g
    BY <1>1, <2>2
  <2>4. \A k \in 1 .. Len(Units(Head(message))) : Units(Head(message))[k].of = Head(message)
    BY <2>2, UnitsType
  <2>5. Out'
    BY <2>1, <2>3, <2>4 DEF Shows
  <2> QED
    BY <1>2, <1>5, <1>6, <2>1, <2>5
<1>11. ASSUME Carries PROVE ~ Travels(g)'
  <2>1. /\ sending # <<>> /\ down' = Append(down, Head(sending)) /\ sending' = Tail(sending)
        /\ UNCHANGED <<message, dbuf, up>>
    BY <1>11 DEF Carries, client, device
  <2>2. Head(sending) \in Cell /\ Head(sending).of # g /\ Out'
    BY <1>1, <1>3, <2>1, ShowsLess, Tails
  <2>3. In'
    BY <1>1, <1>3, <2>1, <2>2, ShowsMore
  <2> QED
    BY <1>2, <1>5, <2>1, <2>2, <2>3
<1>12. ASSUME Reads PROVE ~ Travels(g)'
  <2>1. up # <<>> /\ up' = Tail(up) /\ UNCHANGED <<message, sending, down, dbuf>>
    BY <1>12 DEF Reads, driver, device
  <2>2. Ups'
    BY <1>1, <1>3, <2>1, Tails
  <2> QED
    BY <1>2, <1>5, <2>1, <2>2
<1>13. ASSUME ProgramRestarts PROVE ~ Travels(g)'
  <2>1. /\ message' = <<>> /\ sending' = <<>> /\ (UNCHANGED up \/ up' = <<>>)
        /\ UNCHANGED <<down, dbuf>>
    BY <1>13 DEF ProgramRestarts, device
  <2>2. up' = <<>> => Ups'
    BY Empty
  <2> QED
    BY <1>2, <1>4, <1>5, <1>6, <2>1, <2>2
<1>14. ASSUME Probe PROVE ~ Travels(g)'
  <2>1. down' = Append(down, Junk) /\ UNCHANGED <<message, sending, dbuf, up>>
    BY <1>14 DEF Probe, client, driver, device
  <2> QED
    BY <1>1, <1>2, <1>3, <1>4, <1>5, <2>1, ShowsMore
<1>15. ASSUME DeviceReads PROVE ~ Travels(g)'
  <2>1. PICK n \in 1 .. Len(down) :
           /\ n <= Buffer - Len(dbuf)
           /\ Kept(dbuf \o SubSeq(down, 1, n), discarding)
           /\ down' = SubSeq(down, n + 1, Len(down))
    BY <1>15 DEF DeviceReads
  <2>2. UNCHANGED <<message, sending, up>>
    BY <1>15 DEF DeviceReads, client, driver
  <2>3. n \in Nat /\ n <= Len(down) /\ Len(down) \in Nat
    BY <1>3
  <2>4. SubSeq(down, 1, n) \in Seq(Cell)
    BY <1>3, <2>3
  <2>5. ~ Shows(dbuf \o SubSeq(down, 1, n), g)
    BY <1>1, <1>3, <2>3, <2>4, ShowsLess, ShowsMore
  <2>6. dbuf' = dbuf \o SubSeq(down, 1, n) \/ dbuf' = <<>>
    BY <2>1 DEF Kept
  <2>7. In'
    BY <1>1, <1>3, <2>1, <2>3, ShowsLess
  <2> QED
    BY <1>2, <1>4, <1>5, <2>2, <2>5, <2>6, <2>7
<1>16. ASSUME Serve PROVE ~ Travels(g)'
  <2>1. /\ ServeForms(dbuf[1].of, Rest(dbuf)) /\ UNCHANGED <<message, sending>>
        /\ dbuf # <<>> /\ dbuf[1] \in Cell /\ Rest(dbuf) \in Seq(Cell)
    BY <1>3, <1>16, Served DEF client, driver
  <2>2. dbuf[1].of # g /\ dbuf[1].of \in Frame
    BY <1>1, <1>3, <2>1, ShowsLess DEF Cell
  <2>3. ~ Shows(Rest(dbuf), g)
    <3>1. EndOf(dbuf) \in Nat /\ EndOf(dbuf) <= Len(dbuf)
      BY <1>3, EndOfType
    <3> QED
      BY <1>1, <1>3, <3>1, ShowsLess DEF Rest
  <2>4. Kept(Rest(dbuf), FALSE) \/ dbuf' = <<>>
    BY <2>1 DEF ServeForms, Restarts
  <2>5. Buf'
    BY <1>4, <2>3, <2>4 DEF Kept
  <2>6. UNCHANGED down \/ down' = <<>>
    BY <2>1 DEF ServeForms, Answers, Restarts
  <2>7. UNCHANGED up \/ \E r : r.f = dbuf[1].of /\ up' = Append(up, r)
    BY <2>1 DEF ServeForms, Answers, Restarts
  <2>8. ASSUME NEW r, r.f = dbuf[1].of, up' = Append(up, r) PROVE Ups'
    <3>1. Len(up') = Len(up) + 1 /\ \A k \in 1 .. Len(up) + 1 :
             up'[k] = IF k = Len(up) + 1 THEN r ELSE up[k]
      BY <1>3, <2>8
    <3> QED
      BY <1>1, <1>3, <2>2, <2>8, <3>1
  <2> QED
    BY <1>2, <1>4, <1>5, <2>1, <2>5, <2>6, <2>7, <2>8
<1>17. ASSUME Forward PROVE ~ Travels(g)'
  <2>1. /\ UNCHANGED <<message, sending, down, dbuf>>
        /\ \/ UNCHANGED up
           \/ up' = Append(up, [f |-> NoFrame, res |-> "topic", val |-> Head(tdev)])
    BY <1>17 DEF Forward, client, driver
  <2>2. ASSUME NEW r, r.f = NoFrame, up' = Append(up, r) PROVE Ups'
    <3>1. Len(up') = Len(up) + 1 /\ \A k \in 1 .. Len(up) + 1 :
             up'[k] = IF k = Len(up) + 1 THEN r ELSE up[k]
      BY <1>3, <2>2
    <3> QED
      BY <1>1, <1>3, <2>2, <3>1
  <2> QED
    BY <1>2, <1>5, <2>1, <2>2
<1> QED
  BY <1>7, <1>8, <1>9, <1>10, <1>11, <1>12, <1>13, <1>14, <1>15, <1>16, <1>17 DEF Next

-----------------------------------------------------------------------------
(* Replies reach their requests as long as a number is handed out that is  *)
(* free: no waiting request has it, and what is on its way with it is left *)
(* from an earlier program and asks the same.                              *)

NumberIsFree ==
    \A i \in Calls : Claim(i) =>
        /\ \A s \in Slots : slotSeq[s] # nextSeq
        /\ \A g \in Frame : Travels(g) /\ g.seq = nextSeq => g.era # era /\ g.cmd = Cmd(i)

Answer(g, s) == g.cmd = Cmd(owner[s]) /\ (g.era = era => g.id = owner[s])

\* A slot has its number alone, and what is on its way with it is its request or a reply to it.
NumbersInv ==
    /\ NumbersAreDistinct
    /\ \A s \in Slots : slotSeq[s] # 0 =>
          \A g \in Frame : Travels(g) /\ g.seq = slotSeq[s] => Answer(g, s)
    /\ \A s \in Slots : resp[s] # NoReply => slotSeq[s] # 0 /\ Answer(resp[s].f, s)

\* Slots that a step leaves as they are or gives back.
LEMMA SlotsKept ==
    ASSUME ClientTypes, HostTypes, BoardTypes, NumbersInv, Next,
           \A i \in Calls : ~ Queue(i),
           \A s \in Slots : \/ slotSeq'[s] = 0 /\ resp'[s] = NoReply
                            \/ /\ UNCHANGED era /\ slotSeq'[s] = slotSeq[s]
                               /\ owner'[s] = owner[s] /\ resp'[s] = resp[s]
    PROVE  NumbersInv'
<1>1. \A i : Cmd(i)' = Cmd(i)
  BY LeftStep, SameProgram DEF HostTypes
<1>2. \A s, t \in Slots : slotSeq'[s] = slotSeq'[t] /\ slotSeq'[s] # 0 => s = t
  BY DEF NumbersInv, NumbersAreDistinct
<1>3. ASSUME NEW s \in Slots, slotSeq'[s] # 0, NEW g \in Frame, Travels(g)', g.seq = slotSeq'[s]
      PROVE  Answer(g, s)'
  <2>1. slotSeq'[s] = slotSeq[s] /\ owner'[s] = owner[s] /\ UNCHANGED era
    BY <1>3
  <2>2. g # NoFrame
    BY <1>3 DEF NoFrame
  <2>3. Travels(g)
    BY <1>3, <2>2, NothingMadeUp
  <2>4. Answer(g, s)
    BY <1>3, <2>1, <2>3 DEF NumbersInv, NumbersAreDistinct
  <2> QED
    BY <1>1, <2>1, <2>4 DEF Answer
<1>4. ASSUME NEW s \in Slots, resp'[s] # NoReply
      PROVE  slotSeq'[s] # 0 /\ Answer(resp[s].f, s)'
  <2>1. slotSeq'[s] = slotSeq[s] /\ owner'[s] = owner[s] /\ UNCHANGED era /\ resp'[s] = resp[s]
    BY <1>4
  <2>2. slotSeq[s] # 0 /\ Answer(resp[s].f, s)
    BY <1>4, <2>1 DEF NumbersInv, NumbersAreDistinct
  <2> QED
    BY <1>1, <2>1, <2>2 DEF Answer
<1> QED
  BY <1>2, <1>3, <1>4 DEF NumbersInv, NumbersAreDistinct

LEMMA NumbersStep ==
    ASSUME ClientTypes, FreeInv, HostTypes, BoardTypes, NumbersInv, Next, NumberIsFree
    PROVE  NumbersInv'
<1>1. /\ left \in Scenario /\ Calls' = Calls /\ \A i : Cmd(i)' = Cmd(i)
      /\ slotSeq \in [Slots -> 0 .. MaxSeq] /\ owner \in [Slots -> Calls \union {0}]
      /\ resp \in [Slots -> Reply] /\ up \in Seq(Reply) /\ nextSeq \in 1 .. MaxSeq
      /\ \A s \in Slots : owner[s] # 0 <=> slotSeq[s] # 0
  BY LeftStep, SameProgram DEF HostTypes, ClientTypes, BoardTypes
<1>2. ASSUME UNCHANGED <<era, owner, slotSeq, resp>>, \A i \in Calls : ~ Queue(i)
      PROVE  NumbersInv'
  BY <1>2, SlotsKept
<1>3. ASSUME NEW i \in Calls, Queue(i) PROVE NumbersInv'
  <2> DEFINE g == [cmd |-> Cmd(i), seq |-> slotSeq[SlotOf(i)], era |-> era, id |-> i]
  <2>1. call[i] = "queue" /\ message' = <<g>> /\ UNCHANGED <<era, owner, slotSeq, resp>>
    BY <1>3 DEF Queue
  <2>2. SlotOf(i) \in Slots /\ owner[SlotOf(i)] = i
    BY <1>1, <2>1, OwnerFacts
  <2>3. ASSUME NEW s \in Slots, slotSeq[s] # 0, NEW h \in Frame, Travels(h)', h.seq = slotSeq[s]
        PROVE  Answer(h, s)'
    <3>1. CASE Travels(h)
      <4>1. Answer(h, s)
        BY <2>3, <3>1 DEF NumbersInv, NumbersAreDistinct
      <4> QED
        BY <1>1, <2>1, <4>1 DEF Answer
    <3>2. CASE ~ Travels(h)
      <4>1. h # NoFrame
        BY <2>3 DEF NoFrame
      <4>2. PICK j \in Calls : Queue(j) /\ message'[1] = h
        BY <2>3, <3>2, <4>1, NothingMadeUp
      <4>3. h = g
        BY <2>1, <4>2
      <4>4. s = SlotOf(i)
        BY <2>2, <2>3, <4>3 DEF NumbersInv, NumbersAreDistinct
      <4>5. h.cmd = Cmd(owner[s]) /\ h.id = owner[s]
        BY <2>2, <4>3, <4>4
      <4> QED
        BY <1>1, <2>1, <4>5 DEF Answer
    <3> QED
      BY <3>1, <3>2
  <2>4. ASSUME NEW s \in Slots, resp[s] # NoReply PROVE slotSeq[s] # 0 /\ Answer(resp[s].f, s)'
    BY <1>1, <2>1, <2>4 DEF NumbersInv, NumbersAreDistinct, Answer
  <2> QED
    BY <2>1, <2>3, <2>4 DEF NumbersInv, NumbersAreDistinct
<1>4. ASSUME NEW i \in Calls, Claim(i) PROVE NumbersInv'
  <2>1. PICK s \in Slots :
          /\ owner[s] = 0
          /\ owner' = [owner EXCEPT ![s] = i]
          /\ slotSeq' = [slotSeq EXCEPT ![s] = nextSeq]
          /\ resp' = [resp EXCEPT ![s] = NoReply]
    BY <1>4, Claimed
  <2>2. UNCHANGED <<era, message>> /\ call[i] = "slot"
    BY <1>4 DEF Claim
  <2>3. \A t \in Slots : /\ owner'[t] = IF t = s THEN i ELSE owner[t]
                         /\ slotSeq'[t] = IF t = s THEN nextSeq ELSE slotSeq[t]
                         /\ resp'[t] = IF t = s THEN NoReply ELSE resp[t]
    BY <1>1, <2>1
  <2>4. /\ \A t \in Slots : slotSeq[t] # nextSeq
        /\ \A g \in Frame : Travels(g) /\ g.seq = nextSeq => g.era # era /\ g.cmd = Cmd(i)
    BY <1>4 DEF NumberIsFree
  <2>5. ASSUME NEW g \in Frame, g.seq # 0, Travels(g)' PROVE Travels(g)
    <3>1. g # NoFrame
      BY <2>5 DEF NoFrame
    <3>2. \A j \in Calls : ~ Queue(j)
      <4>1. call' = [call EXCEPT ![i] = "queue"]
        BY <1>4 DEF Claim
      <4>2. call \in [Calls -> Statuses]
        BY DEF ClientTypes
      <4>3. ASSUME NEW j \in Calls, Queue(j) PROVE FALSE
        <5>1. call[j] = "queue" /\ call' = [call EXCEPT ![j] = "wait"]
          BY <4>3 DEF Queue
        <5> QED
          BY <2>2, <4>1, <4>2, <5>1
      <4> QED
        BY <4>3
    <3> QED
      BY <2>5, <3>1, <3>2, NothingMadeUp
  <2>6. \A t, u \in Slots : slotSeq'[t] = slotSeq'[u] /\ slotSeq'[t] # 0 => t = u
    BY <2>3, <2>4 DEF NumbersInv, NumbersAreDistinct
  <2>7. ASSUME NEW t \in Slots, slotSeq'[t] # 0, NEW g \in Frame, Travels(g)', g.seq = slotSeq'[t]
        PROVE  Answer(g, t)'
    <3>1. Travels(g)
      BY <2>5, <2>7
    <3>2. CASE t = s
      BY <1>1, <2>2, <2>3, <2>4, <2>7, <3>1, <3>2 DEF Answer
    <3>3. CASE t # s
      <4>1. Answer(g, t)
        BY <2>3, <2>7, <3>1, <3>3 DEF NumbersInv, NumbersAreDistinct
      <4> QED
        BY <1>1, <2>2, <2>3, <3>3, <4>1 DEF Answer
    <3> QED
      BY <3>2, <3>3
  <2>8. ASSUME NEW t \in Slots, resp'[t] # NoReply PROVE slotSeq'[t] # 0 /\ Answer(resp[t].f, t)'
    <3>1. t # s /\ resp'[t] = resp[t] /\ slotSeq'[t] = slotSeq[t] /\ owner'[t] = owner[t]
      BY <2>3, <2>8
    <3>2. slotSeq[t] # 0 /\ Answer(resp[t].f, t)
      BY <2>8, <3>1 DEF NumbersInv, NumbersAreDistinct
    <3> QED
      BY <1>1, <2>2, <3>1, <3>2 DEF Answer
  <2> QED
    BY <2>6, <2>7, <2>8 DEF NumbersInv, NumbersAreDistinct
<1>5. ASSUME NEW i \in Calls, call[i] \in {"queue", "wait"}, Frees(SlotOf(i)), UNCHANGED era,
             \A j \in Calls : ~ Queue(j)
      PROVE  NumbersInv'
  <2>1. SlotOf(i) \in Slots
    BY <1>1, <1>5, OwnerFacts
  <2>2. \A t \in Slots : /\ slotSeq'[t] = IF t = SlotOf(i) THEN 0 ELSE slotSeq[t]
                         /\ resp'[t] = IF t = SlotOf(i) THEN NoReply ELSE resp[t]
                         /\ owner'[t] = IF t = SlotOf(i) THEN 0 ELSE owner[t]
    BY <1>1, <1>5, <2>1 DEF Frees
  <2> QED
    BY <1>5, <2>2, SlotsKept
<1>6. ASSUME NEW i \in Calls, NEW v, v # "wait", call' = [call EXCEPT ![i] = v], call[i] # v
      PROVE  \A j \in Calls : ~ Queue(j)
  <2>1. call \in [Calls -> Statuses]
    BY DEF ClientTypes
  <2> QED
    BY <1>6, <2>1 DEF Queue
<1>7. ASSUME NEW i \in Calls, Call(i) PROVE NumbersInv'
  <2>1. UNCHANGED <<era, owner, slotSeq, resp>> /\ call[i] = "no" /\ call' = [call EXCEPT ![i] = "slot"]
    BY <1>7 DEF Call
  <2> QED
    BY <1>2, <1>6, <2>1
<1>8. ASSUME NEW i \in Calls, Complete(i) PROVE NumbersInv'
  <2>1. PICK v \in {"done", "err"} : call' = [call EXCEPT ![i] = v]
    BY <1>8 DEF Complete
  <2>2. call[i] = "wait" /\ Frees(SlotOf(i)) /\ UNCHANGED era
    BY <1>8 DEF Complete
  <2> QED
    BY <1>5, <1>6, <2>1, <2>2
<1>9. ASSUME NEW i \in Calls, Cancel(i) PROVE NumbersInv'
  <2>1. /\ call' = [call EXCEPT ![i] = "gone"] /\ UNCHANGED era
        /\ \/ call[i] = "slot" /\ UNCHANGED <<owner, slotSeq, resp>>
           \/ call[i] \in {"queue", "wait"} /\ Frees(SlotOf(i))
    BY <1>9 DEF Cancel, Pending
  <2>2. \A j \in Calls : ~ Queue(j)
    BY <1>6, <2>1
  <2> QED
    BY <1>2, <1>5, <2>1, <2>2
<1>10. ASSUME NEW i \in Calls, UNCHANGED call, Queue(i) PROVE FALSE
  <2>1. call[i] = "queue" /\ call' = [call EXCEPT ![i] = "wait"] /\ call \in [Calls -> Statuses]
    BY <1>10 DEF Queue, ClientTypes
  <2> QED
    BY <1>10, <2>1
<1>11. ASSUME Reads PROVE NumbersInv'
  <2>1. up # <<>> /\ UNCHANGED <<era, call, owner, slotSeq>>
    BY <1>11 DEF Reads
  <2>2. \A j \in Calls : ~ Queue(j)
    BY <1>10, <2>1
  <2>3. Head(up) = up[1] /\ Head(up) \in Reply /\ 1 \in 1 .. Len(up)
    BY <1>1, <2>1, Tails
  <2>4. Travels(Head(up).f) /\ Head(up).f \in Frame
    BY <2>3 DEF Travels, Reply
  <2>5. \/ UNCHANGED resp
        \/ resp' = [s \in Slots |-> IF s \in WaiterFor(Head(up)) THEN Head(up) ELSE resp[s]]
    BY <1>11 DEF Reads
  <2>6. CASE UNCHANGED resp
    BY <1>2, <2>1, <2>2, <2>6
  <2>7. CASE resp' = [s \in Slots |-> IF s \in WaiterFor(Head(up)) THEN Head(up) ELSE resp[s]]
    <3>1. ASSUME NEW s \in Slots, slotSeq[s] # 0, NEW g \in Frame, Travels(g)', g.seq = slotSeq[s]
          PROVE  Answer(g, s)'
      <4>1. g # NoFrame
        BY <3>1 DEF NoFrame
      <4>2. Travels(g)
        BY <2>2, <3>1, <4>1, NothingMadeUp
      <4>3. Answer(g, s)
        BY <3>1, <4>2 DEF NumbersInv, NumbersAreDistinct
      <4> QED
        BY <1>1, <2>1, <4>3 DEF Answer
    <3>2. ASSUME NEW s \in Slots, resp'[s] # NoReply
          PROVE  slotSeq[s] # 0 /\ Answer(resp[s].f, s)'
      <4>1. CASE s \in WaiterFor(Head(up))
        <5>1. resp'[s] = Head(up) /\ slotSeq[s] # 0 /\ Head(up).f.seq = slotSeq[s]
          BY <2>7, <4>1 DEF WaiterFor
        <5>2. Answer(Head(up).f, s)
          BY <2>4, <5>1 DEF NumbersInv, NumbersAreDistinct
        <5> QED
          BY <1>1, <2>1, <5>1, <5>2 DEF Answer
      <4>2. CASE s \notin WaiterFor(Head(up))
        <5>1. resp'[s] = resp[s]
          BY <2>7, <4>2
        <5>2. slotSeq[s] # 0 /\ Answer(resp[s].f, s)
          BY <3>2, <5>1 DEF NumbersInv, NumbersAreDistinct
        <5> QED
          BY <1>1, <2>1, <5>1, <5>2 DEF Answer
      <4> QED
        BY <4>1, <4>2
    <3> QED
      BY <2>1, <3>1, <3>2 DEF NumbersInv, NumbersAreDistinct
  <2> QED
    BY <2>5, <2>6, <2>7
<1>12. ASSUME ProgramRestarts PROVE NumbersInv'
  <2>1. /\ call' = NoCalls
        /\ \A s \in Slots : slotSeq'[s] = 0 /\ resp'[s] = NoReply
    BY <1>12 DEF ProgramRestarts, AllFree, NoResp
  <2>2. \A j \in Calls : ~ Queue(j)
    <3>1. \A j \in Calls : call'[j] = "no"
      BY <2>1 DEF NoCalls
    <3>2. ASSUME NEW j \in Calls, Queue(j) PROVE FALSE
      <4>1. call' = [call EXCEPT ![j] = "wait"] /\ call \in [Calls -> Statuses]
        BY <3>2 DEF Queue, ClientTypes
      <4> QED
        BY <3>1, <4>1
    <3> QED
      BY <3>2
  <2> QED
    BY <2>1, <2>2, SlotsKept
<1>13. ASSUME \/ \E i \in Calls \union {TopicPull} : TakePump(i)
              \/ TakeTopic \/ WritesZero \/ WritesFrame \/ Carries \/ Probe \/ DeviceReads
              \/ Serve \/ Forward \/ LayerChanges \/ KeysChange
       PROVE  NumbersInv'
  <2>1. UNCHANGED <<era, call, owner, slotSeq, resp>>
    BY <1>13 DEF TakePump, TakeTopic, WritesZero, WritesFrame, Carries, Probe, DeviceReads, Serve,
                 Forward, LayerChanges, KeysChange, client
  <2>2. \A j \in Calls : ~ Queue(j)
    BY <1>10, <2>1
  <2> QED
    BY <1>2, <2>1, <2>2
<1> QED
  BY <1>3, <1>4, <1>7, <1>8, <1>9, <1>11, <1>12, <1>13 DEF Next

LEMMA Inherits == RynkInv /\ NumbersInv => RepliesMatch
<1> SUFFICES ASSUME RynkInv, NumbersInv, NEW s \in Slots, resp[s] # NoReply
             PROVE  /\ owner[s] # 0 /\ resp[s].f.cmd = Cmd(owner[s])
                    /\ resp[s].f.era = era => resp[s].f.id = owner[s]
  BY DEF RepliesMatch
<1>1. slotSeq[s] # 0 /\ Answer(resp[s].f, s)
  BY DEF NumbersInv, NumbersAreDistinct
<1> QED
  BY <1>1 DEF Answer, RynkInv, ClientTypes

\* Nothing of another request, program or session is taken for the own while numbers are handed
\* out that are free: cancelled requests, frames that run together in the buffer, failed writes
\* and restarts of either side never make a reply to one request look like one to another.
THEOREM FreeNumbersSuffice == Spec /\ [][NumberIsFree]_vars => []NothingInherited
<1>1. Init => NumbersInv
  BY DEF Init, NumbersInv, NumbersAreDistinct, AllFree, NoResp
<1>2. RynkInv /\ NumbersInv /\ [Next]_vars /\ [NumberIsFree]_vars => NumbersInv'
  <2> SUFFICES ASSUME RynkInv, NumbersInv, [Next]_vars, [NumberIsFree]_vars PROVE NumbersInv'
    OBVIOUS
  <2>1. CASE Next /\ NumberIsFree
    BY <2>1, NumbersStep DEF RynkInv
  <2>2. CASE UNCHANGED vars
    BY <2>2 DEF vars, client, driver, device, NumbersInv, NumbersAreDistinct, Answer, Travels, Shows, Cmd
  <2> QED
    BY <2>1, <2>2
<1>3. RynkInv /\ NumbersInv /\ TypeOK /\ SlotsAreWhole => NothingInherited
  BY Inherits DEF NothingInherited, NumbersInv
<1> QED
  BY <1>1, <1>2, <1>3, RynkIsSound, SlotsStayWhole, PTL DEF Spec

-----------------------------------------------------------------------------
(* Programs with fewer requests than there are numbers.                    *)

\* Fewer requests than numbers; and a program that is started again cancels none, because the
\* request behind a cancelled one may take its number.
FewRequests ==
    \A c \in Scenarios : Len(c.calls) + 2 < MaxSeq /\ (c.cancel = 0 \/ c.restart = 0)

Unclaimed(i) == call[i] \in {"no", "slot"}

\* Calls claim in order, and a call that waits to claim has not been overtaken in the numbers.
CountInv ==
    /\ Len(left.calls) + 2 < MaxSeq
    /\ \A i, j \in Calls : Unclaimed(i) /\ i < j => call[j] = "no"
    /\ \A i \in Calls : Unclaimed(i) => nextSeq <= i
    /\ nextSeq <= Len(left.calls) + 3
    /\ \A s \in Slots : slotSeq[s] < nextSeq

\* What is on its way is of this program or an earlier one, with a number handed out already.
SentInv ==
    \A g \in Frame : Travels(g) /\ g.seq # 0 => g.era <= era /\ (g.era = era => g.seq < nextSeq)

\* Without cancelled requests a call's number is its place in the program.
PlaceInv ==
    /\ left.cancel = 0
    /\ \A i \in Calls : ~ Unclaimed(i) => i < nextSeq
    /\ \A s \in Slots : slotSeq[s] # 0 => slotSeq[s] = owner[s]
    /\ \A g \in Frame : Travels(g) /\ g.seq # 0 => g.seq \in Calls /\ g.cmd = Cmd(g.seq)

FewInv == CountInv /\ SentInv /\ (PlaceInv \/ (left.restart = 0 /\ era = 0))

LEMMA BoundsStay ==
    ASSUME left \in Scenario, Next
    PROVE  /\ left.cancel = 0 => left'.cancel = 0 /\ \A i \in Calls : ~ Cancel(i)
           /\ left.restart = 0 => left'.restart = 0 /\ ~ ProgramRestarts
<1>1. \A w \in {"cancel", "restart"} : left[w] = 0 => ~ Spend(w)
  BY DEF Spend
<1>2. ASSUME NEW w \in {"cancel", "changes", "press", "restart", "junk", "txerr"}, Spend(w)
      PROVE  /\ w # "cancel" => left'.cancel = left.cancel
             /\ w # "restart" => left'.restart = left.restart
  BY <1>2 DEF Spend, Scenario
<1>3. left' = left \/ \E w \in {"cancel", "changes", "press", "restart", "junk", "txerr"} : Spend(w)
  BY DEF Next, Call, Claim, Queue, Complete, Cancel, TakePump, TakeTopic, WritesZero, WritesFrame,
      Carries, Reads, ProgramRestarts, Probe, DeviceReads, Serve, Answers, Forward, LayerChanges,
      KeysChange
<1>4. /\ left.cancel = 0 => \A i \in Calls : ~ Cancel(i)
      /\ left.restart = 0 => ~ ProgramRestarts
  BY <1>1 DEF Cancel, ProgramRestarts
<1> QED
  BY <1>1, <1>2, <1>3, <1>4

\* A call that claims with no cancelled call before it gets its own place as number.
LEMMA OwnPlace ==
    ASSUME ClientTypes, left \in Scenario, CountInv, PlaceInv, NEW i \in Calls, call[i] = "slot"
    PROVE  nextSeq = i
<1>1. Calls \subseteq Nat \ {0} /\ nextSeq \in Nat /\ nextSeq >= 1
  BY Scenarios_, Sizes DEF ClientTypes
<1>2. nextSeq <= i
  BY DEF CountInv, Unclaimed
<1>3. CASE i = 1
  BY <1>1, <1>2, <1>3
<1>4. CASE i # 1
  <2>1. i - 1 \in Calls
    BY <1>1, <1>4 DEF Calls
  <2>2. ~ Unclaimed(i - 1)
    <3>1. i - 1 < i
      BY <1>1
    <3> QED
      BY <2>1, <3>1 DEF CountInv
  <2>3. i - 1 < nextSeq
    BY <2>1, <2>2 DEF PlaceInv
  <2> QED
    BY <1>1, <1>2, <2>3
<1> QED
  BY <1>3, <1>4

\* The numbers of such a program are free when they are handed out.
LEMMA FewAreFree ==
    ASSUME RynkInv, FewInv
    PROVE  NumberIsFree
<1> SUFFICES ASSUME NEW i \in Calls, Claim(i)
             PROVE  /\ \A s \in Slots : slotSeq[s] # nextSeq
                    /\ \A g \in Frame : Travels(g) /\ g.seq = nextSeq => g.era # era /\ g.cmd = Cmd(i)
  BY DEF NumberIsFree
<1>1. /\ call[i] = "slot" /\ ClientTypes /\ left \in Scenario /\ nextSeq \in Nat /\ nextSeq # 0
      /\ slotSeq \in [Slots -> 0 .. MaxSeq] /\ MaxSeq \in Nat /\ era \in Nat
  BY Sizes DEF Claim, RynkInv, ClientTypes, HostTypes
<1>2. \A s \in Slots : slotSeq[s] # nextSeq
  <2>1. \A s \in Slots : slotSeq[s] < nextSeq /\ slotSeq[s] \in Nat
    BY <1>1 DEF FewInv, CountInv
  <2> QED
    BY <1>1, <2>1
<1>3. ASSUME NEW g \in Frame, Travels(g), g.seq = nextSeq PROVE g.era # era /\ g.cmd = Cmd(i)
  <2>1. g.era <= era /\ (g.era = era => g.seq < nextSeq) /\ g.era \in Nat
    BY <1>1, <1>3 DEF FewInv, SentInv, Frame
  <2>2. g.era # era
    BY <1>1, <1>3, <2>1
  <2>3. PlaceInv
    BY <1>1, <2>1, <2>2 DEF FewInv
  <2>4. nextSeq = i
    BY <1>1, <2>3, OwnPlace DEF FewInv
  <2> QED
    BY <1>1, <1>3, <2>2, <2>3, <2>4 DEF PlaceInv
<1> QED
  BY <1>2, <1>3

\* The calls and the numbers that a step hands out.
LEMMA CountStep ==
    ASSUME RynkInv, FewInv, Next
    PROVE  (CountInv' /\ nextSeq <= nextSeq') \/ ProgramRestarts
<1> SUFFICES ASSUME ~ ProgramRestarts PROVE CountInv' /\ nextSeq <= nextSeq'
  OBVIOUS
<1>1. /\ left \in Scenario /\ left'.calls = left.calls /\ Calls' = Calls
      /\ call \in [Calls -> Statuses] /\ nextSeq \in Nat /\ nextSeq >= 1
      /\ slotSeq \in [Slots -> 0 .. MaxSeq] /\ MaxSeq \in Nat /\ ClientTypes
  BY LeftStep, SameProgram, Sizes DEF RynkInv, HostTypes, ClientTypes
<1>2. Len(left.calls) \in Nat /\ Calls = 1 .. Len(left.calls) + 2
  BY <1>1 DEF Scenario, Calls
<1>3. /\ Len(left.calls) + 2 < MaxSeq /\ nextSeq <= Len(left.calls) + 3
      /\ \A i, j \in Calls : Unclaimed(i) /\ i < j => call[j] = "no"
      /\ \A i \in Calls : Unclaimed(i) => nextSeq <= i
      /\ \A s \in Slots : slotSeq[s] < nextSeq
  BY DEF FewInv, CountInv
<1>4. \A s \in Slots : slotSeq[s] \in Nat
  BY <1>1
<1>5. ASSUME NEW i \in Calls, NEW v, call' = [call EXCEPT ![i] = v]
      PROVE  \A j \in Calls : call'[j] = IF j = i THEN v ELSE call[j]
  BY <1>1, <1>5
<1>6. ASSUME nextSeq <= nextSeq', nextSeq' \in Nat, nextSeq' <= Len(left.calls) + 3,
             \A s \in Slots : slotSeq'[s] < nextSeq', \A j \in Calls : Unclaimed(j)' => nextSeq' <= j,
             \/ UNCHANGED call
             \/ \E i \in Calls : /\ call[i] # "no"
                                 /\ \A j \in Calls : j # i => call'[j] = call[j]
                                 /\ ~ (call'[i] \in {"no", "slot"})
      PROVE  CountInv' /\ nextSeq <= nextSeq'
  <2>1. ASSUME NEW i \in Calls, NEW j \in Calls, Unclaimed(i)', i < j PROVE call'[j] = "no"
    <3>1. Unclaimed(i) => call[j] = "no"
      BY <1>3, <2>1
    <3> QED
      BY <1>6, <2>1, <3>1 DEF Unclaimed
  <2> QED
    BY <1>1, <1>3, <1>6, <2>1 DEF CountInv
<1>7. ASSUME UNCHANGED nextSeq, \A s \in Slots : slotSeq'[s] \in {slotSeq[s], 0},
             \/ UNCHANGED call
             \/ \E i \in Calls, v \in {"queue", "wait", "done", "err", "gone"} :
                   call[i] # "no" /\ call' = [call EXCEPT ![i] = v]
      PROVE  CountInv' /\ nextSeq <= nextSeq'
  <2>1. \A s \in Slots : slotSeq'[s] < nextSeq'
    BY <1>1, <1>3, <1>4, <1>7
  <2>2. CASE UNCHANGED call
    BY <1>1, <1>3, <1>6, <1>7, <2>1, <2>2 DEF Unclaimed
  <2>3. ASSUME NEW i \in Calls, NEW v \in {"queue", "wait", "done", "err", "gone"},
               call[i] # "no", call' = [call EXCEPT ![i] = v]
        PROVE  CountInv' /\ nextSeq <= nextSeq'
    <3>1. \A j \in Calls : call'[j] = IF j = i THEN v ELSE call[j]
      BY <1>5, <2>3
    <3>2. \A j \in Calls : Unclaimed(j)' => Unclaimed(j)
      BY <3>1 DEF Unclaimed
    <3> QED
      BY <1>1, <1>3, <1>6, <1>7, <2>1, <2>3, <3>1, <3>2
  <2> QED
    BY <1>7, <2>2, <2>3
<1>8. ASSUME NEW i \in Calls, Call(i) PROVE CountInv' /\ nextSeq <= nextSeq'
  <2>1. /\ call[i] = "no" /\ (i > 2 => Connected) /\ (i \notin {1, 3} => ~ Unclaimed(i - 1))
        /\ call' = [call EXCEPT ![i] = "slot"] /\ UNCHANGED <<nextSeq, slotSeq>>
    BY <1>8 DEF Call, Unclaimed
  <2>2. \A j \in Calls : call'[j] = IF j = i THEN "slot" ELSE call[j]
    BY <1>5, <2>1
  <2>3. \A j \in Calls : Unclaimed(j)' => Unclaimed(j)
    BY <2>1, <2>2 DEF Unclaimed
  <2>4. i > 1 => ~ Unclaimed(i - 1)
    <3>1. Connected => ~ Unclaimed(2)
      BY DEF Connected, Unclaimed
    <3>2. i = 3 => i > 2 /\ i - 1 = 2
      BY <1>2
    <3>3. i > 1 => i \in {3} \/ i \notin {1, 3}
      BY <1>2
    <3> QED
      BY <2>1, <3>1, <3>2, <3>3
  <2>5. ASSUME NEW j \in Calls, NEW k \in Calls, Unclaimed(j)', j < k PROVE call'[k] = "no"
    <3>1. call[k] = "no"
      BY <1>3, <2>3, <2>5
    <3>2. k # i
      <4>1. SUFFICES ASSUME k = i PROVE FALSE
        OBVIOUS
      <4>2. j = i - 1 \/ j < i - 1
        BY <1>2, <2>5, <4>1
      <4>3. i > 1 /\ i - 1 \in Calls
        BY <1>2, <2>5, <4>1
      <4>4. j < i - 1
        BY <2>3, <2>4, <2>5, <4>2, <4>3
      <4>5. call[i - 1] = "no"
        BY <1>3, <2>3, <2>5, <4>3, <4>4
      <4> QED
        BY <2>4, <4>3, <4>5 DEF Unclaimed
    <3> QED
      BY <2>2, <3>1, <3>2
  <2> QED
    BY <1>1, <1>3, <2>1, <2>3, <2>5 DEF CountInv
<1>9. ASSUME NEW i \in Calls, Claim(i) PROVE CountInv' /\ nextSeq <= nextSeq'
  <2>1. PICK s \in Slots : slotSeq' = [slotSeq EXCEPT ![s] = nextSeq]
    BY <1>9, Claimed DEF RynkInv
  <2>2. /\ call[i] = "slot" /\ nextSeq' = SeqAfter(nextSeq) /\ call' = [call EXCEPT ![i] = "queue"]
    BY <1>9 DEF Claim
  <2>3. nextSeq <= i /\ i \in Nat /\ i <= Len(left.calls) + 2
    BY <1>2, <1>3, <2>2 DEF Unclaimed
  <2>4. nextSeq' = nextSeq + 1
    BY <1>1, <1>2, <1>3, <2>2, <2>3 DEF SeqAfter
  <2>5. \A j \in Calls : call'[j] = IF j = i THEN "queue" ELSE call[j]
    BY <1>5, <2>2
  <2>6. ASSUME NEW j \in Calls, Unclaimed(j)' PROVE nextSeq' <= j
    <3>1. j # i /\ Unclaimed(j)
      BY <2>5, <2>6 DEF Unclaimed
    <3>2. ~ (j < i)
      <4>1. call[i] # "no"
        BY <2>2
      <4> QED
        BY <1>3, <3>1, <4>1
    <3> QED
      BY <1>1, <1>2, <2>3, <2>4, <3>1, <3>2
  <2>7. \A t \in Slots : slotSeq'[t] < nextSeq'
    <3>1. \A t \in Slots : slotSeq'[t] = IF t = s THEN nextSeq ELSE slotSeq[t]
      BY <1>1, <2>1
    <3>2. \A t \in Slots : slotSeq[t] < nextSeq + 1
      BY <1>1, <1>3, <1>4
    <3> QED
      BY <1>1, <2>4, <3>1, <3>2
  <2>8. nextSeq <= nextSeq' /\ nextSeq' \in Nat /\ nextSeq' <= Len(left.calls) + 3
    BY <1>1, <1>2, <2>3, <2>4
  <2>9. call[i] # "no" /\ ~ (call'[i] \in {"no", "slot"}) /\ \A j \in Calls : j # i => call'[j] = call[j]
    BY <2>2, <2>5
  <2> QED
    BY <1>6, <2>6, <2>7, <2>8, <2>9
<1>10. ASSUME NEW i \in Calls, Queue(i) PROVE CountInv' /\ nextSeq <= nextSeq'
  <2>1. call[i] = "queue" /\ call' = [call EXCEPT ![i] = "wait"] /\ UNCHANGED <<nextSeq, slotSeq>>
    BY <1>10 DEF Queue
  <2> QED
    BY <1>7, <2>1
<1>11. ASSUME NEW s PROVE Frees(s) => \A t \in Slots : slotSeq'[t] \in {slotSeq[t], 0}
  BY <1>1 DEF Frees
<1>12. ASSUME NEW i \in Calls, Complete(i) PROVE CountInv' /\ nextSeq <= nextSeq'
  <2>1. PICK v \in {"done", "err"} : call' = [call EXCEPT ![i] = v]
    BY <1>12 DEF Complete
  <2>2. call[i] = "wait" /\ Frees(SlotOf(i)) /\ UNCHANGED nextSeq
    BY <1>12 DEF Complete
  <2> QED
    BY <1>7, <1>11, <2>1, <2>2
<1>13. ASSUME NEW i \in Calls, Cancel(i) PROVE CountInv' /\ nextSeq <= nextSeq'
  <2>1. call' = [call EXCEPT ![i] = "gone"] /\ call[i] # "no" /\ UNCHANGED nextSeq
    BY <1>13 DEF Cancel, Pending
  <2>2. UNCHANGED slotSeq \/ Frees(SlotOf(i))
    BY <1>13 DEF Cancel
  <2> QED
    BY <1>7, <1>11, <2>1, <2>2
<1>14. ASSUME \/ \E i \in Calls \union {TopicPull} : TakePump(i)
              \/ TakeTopic \/ WritesZero \/ WritesFrame \/ Carries \/ Probe \/ DeviceReads
              \/ Reads \/ Serve \/ Forward \/ LayerChanges \/ KeysChange
       PROVE  CountInv' /\ nextSeq <= nextSeq'
  <2>1. UNCHANGED <<call, nextSeq, slotSeq>>
    BY <1>14 DEF TakePump, TakeTopic, WritesZero, WritesFrame, Carries, Probe, DeviceReads, Serve,
                 Reads, Forward, LayerChanges, KeysChange, client
  <2> QED
    BY <1>7, <2>1
<1> QED
  BY <1>8, <1>9, <1>10, <1>12, <1>13, <1>14 DEF Next

LEMMA SentStep ==
    ASSUME RynkInv, FewInv, Next
    PROVE  SentInv'
<1>1. /\ era \in Nat /\ nextSeq \in Nat /\ ClientTypes /\ FreeInv /\ HostTypes /\ BoardTypes
      /\ left \in Scenario
  BY Sizes DEF RynkInv, HostTypes, ClientTypes
<1>2. \/ ProgramRestarts /\ era' = era + 1
      \/ UNCHANGED era /\ nextSeq <= nextSeq' /\ nextSeq' \in Nat
  <2>1. CASE ProgramRestarts
    BY <2>1 DEF ProgramRestarts
  <2>2. CASE ~ ProgramRestarts
    <3>1. nextSeq <= nextSeq'
      BY <2>2, CountStep
    <3>2. UNCHANGED era
      BY <2>2 DEF Next, Call, Claim, Queue, Complete, Cancel, TakePump, TakeTopic, WritesZero,
                  WritesFrame, Carries, Reads, Probe, DeviceReads, Serve, Forward, LayerChanges,
                  KeysChange
    <3>3. nextSeq' \in Nat
      BY <1>1, ClientStep, Sizes DEF ClientTypes, BoardTypes
    <3> QED
      BY <3>1, <3>2, <3>3
  <2> QED
    BY <2>1, <2>2
<1>3. ASSUME NEW g \in Frame, Travels(g)', g.seq # 0
      PROVE  g.era <= era' /\ (g.era = era' => g.seq < nextSeq')
  <2>1. g # NoFrame /\ g.era \in Nat /\ g.seq \in Nat
    BY <1>3, Sizes DEF NoFrame, Frame
  <2>2. CASE Travels(g)
    <3>1. g.era <= era /\ (g.era = era => g.seq < nextSeq)
      BY <1>3, <2>2 DEF FewInv, SentInv
    <3> QED
      BY <1>1, <1>2, <2>1, <3>1
  <2>3. CASE ~ Travels(g)
    <3>1. PICK i \in Calls : Queue(i) /\ message'[1] = g
      BY <1>1, <1>3, <2>1, <2>3, NothingMadeUp
    <3>2. /\ g = [cmd |-> Cmd(i), seq |-> slotSeq[SlotOf(i)], era |-> era, id |-> i]
          /\ UNCHANGED <<era, nextSeq>> /\ call[i] = "queue"
      BY <3>1 DEF Queue
    <3>3. SlotOf(i) \in Slots
      BY <1>1, <3>2, OwnerFacts
    <3>4. slotSeq[SlotOf(i)] < nextSeq
      BY <3>3 DEF FewInv, CountInv
    <3> QED
      BY <1>1, <3>2, <3>4
  <2> QED
    BY <2>2, <2>3
<1> QED
  BY <1>3 DEF SentInv

LEMMA PlaceStep ==
    ASSUME RynkInv, FewInv, PlaceInv, Next
    PROVE  PlaceInv'
<1> DEFINE Place == \A i \in Calls : ~ Unclaimed(i) => i < nextSeq
           Own   == \A s \in Slots : slotSeq[s] # 0 => slotSeq[s] = owner[s]
<1>1. /\ left \in Scenario /\ left'.calls = left.calls /\ Calls' = Calls
      /\ call \in [Calls -> Statuses] /\ nextSeq \in Nat /\ MaxSeq \in Nat
      /\ slotSeq \in [Slots -> 0 .. MaxSeq] /\ owner \in [Slots -> Calls \union {0}]
      /\ ClientTypes /\ HostTypes /\ BoardTypes /\ \A i : Cmd(i)' = Cmd(i)
  BY LeftStep, SameProgram, Sizes DEF RynkInv, HostTypes, ClientTypes
<1>2. left.cancel = 0 /\ left'.cancel = 0 /\ (\A i \in Calls : ~ Cancel(i)) /\ Place /\ Own
  BY <1>1, BoundsStay DEF PlaceInv
<1>3. ASSUME NEW g \in Frame, Travels(g)', g.seq # 0 PROVE g.seq \in Calls' /\ g.cmd = Cmd(g.seq)'
  <2>1. g # NoFrame
    BY <1>3 DEF NoFrame
  <2>2. CASE Travels(g)
    BY <1>1, <1>3, <2>2 DEF PlaceInv
  <2>3. CASE ~ Travels(g)
    <3>1. PICK i \in Calls : Queue(i) /\ message'[1] = g
      BY <1>1, <1>3, <2>1, <2>3, NothingMadeUp
    <3>2. /\ g = [cmd |-> Cmd(i), seq |-> slotSeq[SlotOf(i)], era |-> era, id |-> i]
          /\ call[i] = "queue"
      BY <3>1 DEF Queue
    <3>3. SlotOf(i) \in Slots /\ owner[SlotOf(i)] = i
      BY <1>1, <3>2, OwnerFacts
    <3>4. g.seq = i /\ g.cmd = Cmd(i)
      BY <1>2, <1>3, <3>2, <3>3
    <3> QED
      BY <1>1, <3>4
  <2> QED
    BY <2>2, <2>3
<1>4. Place' /\ Own' => PlaceInv'
  BY <1>2, <1>3 DEF PlaceInv
<1>5. ASSUME UNCHANGED nextSeq,
             \A s \in Slots : slotSeq'[s] = 0 \/ (slotSeq'[s] = slotSeq[s] /\ owner'[s] = owner[s]),
             \/ UNCHANGED call
             \/ \E i \in Calls : \E v : call' = [call EXCEPT ![i] = v]
                                    /\ (~ Unclaimed(i) \/ v \in {"no", "slot"})
      PROVE  PlaceInv'
  <2>1. \A i \in Calls : ~ Unclaimed(i)' => ~ Unclaimed(i)
    BY <1>1, <1>5 DEF Unclaimed
  <2>2. Place'
    BY <1>1, <1>2, <1>5, <2>1
  <2>3. Own'
    BY <1>2, <1>5
  <2> QED
    BY <1>4, <2>2, <2>3
<1>6. ASSUME NEW i \in Calls, Call(i) PROVE PlaceInv'
  <2>1. call' = [call EXCEPT ![i] = "slot"] /\ UNCHANGED <<nextSeq, slotSeq, owner>>
    BY <1>6 DEF Call
  <2> QED
    BY <1>5, <2>1
<1>7. ASSUME NEW i \in Calls, Claim(i) PROVE PlaceInv'
  <2>1. PICK s \in Slots : /\ owner' = [owner EXCEPT ![s] = i]
                           /\ slotSeq' = [slotSeq EXCEPT ![s] = nextSeq]
    BY <1>7, Claimed DEF RynkInv
  <2>2. /\ call[i] = "slot" /\ nextSeq' = SeqAfter(nextSeq) /\ call' = [call EXCEPT ![i] = "queue"]
    BY <1>7 DEF Claim
  <2>3. nextSeq = i
    BY <1>1, <2>2, OwnPlace DEF FewInv
  <2>4. nextSeq' = i + 1 /\ i \in Nat
    <3>1. Len(left.calls) + 2 < MaxSeq /\ i <= Len(left.calls) + 2 /\ Len(left.calls) \in Nat
      BY <1>1 DEF FewInv, CountInv, Calls, Scenario
    <3> QED
      BY <1>1, <2>2, <2>3, <3>1 DEF SeqAfter
  <2>5. Place'
    <3>1. \A j \in Calls : call'[j] = IF j = i THEN "queue" ELSE call[j]
      BY <1>1, <2>2
    <3>2. Calls \subseteq Nat
      BY <1>1, Scenarios_
    <3>3. ASSUME NEW j \in Calls, ~ Unclaimed(j)' PROVE j < nextSeq'
      <4>1. j # i => ~ Unclaimed(j)
        BY <3>1, <3>3 DEF Unclaimed
      <4>2. j # i => j < i
        BY <1>2, <2>3, <4>1
      <4> QED
        BY <2>4, <3>2, <4>2
    <3> QED
      BY <1>1, <3>3
  <2>6. Own'
    <3>1. \A t \in Slots : /\ slotSeq'[t] = IF t = s THEN nextSeq ELSE slotSeq[t]
                           /\ owner'[t] = IF t = s THEN i ELSE owner[t]
      BY <1>1, <2>1
    <3> QED
      BY <1>2, <2>3, <3>1
  <2> QED
    BY <1>4, <2>5, <2>6
<1>8. ASSUME NEW i \in Calls, Queue(i) PROVE PlaceInv'
  <2>1. /\ call[i] = "queue" /\ call' = [call EXCEPT ![i] = "wait"]
        /\ UNCHANGED <<nextSeq, slotSeq, owner>>
    BY <1>8 DEF Queue
  <2>2. ~ Unclaimed(i)
    BY <2>1 DEF Unclaimed
  <2> QED
    BY <1>5, <2>1, <2>2
<1>9. ASSUME NEW i \in Calls, Complete(i) PROVE PlaceInv'
  <2>1. PICK v : call' = [call EXCEPT ![i] = v]
    BY <1>9 DEF Complete
  <2>2. call[i] = "wait" /\ Frees(SlotOf(i)) /\ UNCHANGED nextSeq
    BY <1>9 DEF Complete
  <2>3. ~ Unclaimed(i)
    BY <2>2 DEF Unclaimed
  <2>4. \A s \in Slots : slotSeq'[s] = 0 \/ (slotSeq'[s] = slotSeq[s] /\ owner'[s] = owner[s])
    BY <1>1, <2>2 DEF Frees
  <2> QED
    BY <1>5, <2>1, <2>2, <2>3, <2>4
<1>10. ASSUME ProgramRestarts PROVE PlaceInv'
  <2>1. call' = NoCalls /\ slotSeq' = AllFree
    BY <1>10 DEF ProgramRestarts
  <2>2. \A i \in Calls : Unclaimed(i)'
    BY <2>1 DEF NoCalls, Unclaimed
  <2>3. \A s \in Slots : slotSeq'[s] = 0
    BY <2>1 DEF AllFree
  <2> QED
    BY <1>1, <1>4, <2>2, <2>3
<1>11. ASSUME \/ \E i \in Calls \union {TopicPull} : TakePump(i)
              \/ TakeTopic \/ WritesZero \/ WritesFrame \/ Carries \/ Probe \/ DeviceReads
              \/ Reads \/ Serve \/ Forward \/ LayerChanges \/ KeysChange
       PROVE  PlaceInv'
  <2>1. UNCHANGED <<call, nextSeq, slotSeq, owner>>
    BY <1>11 DEF TakePump, TakeTopic, WritesZero, WritesFrame, Carries, Probe, DeviceReads, Serve,
                 Reads, Forward, LayerChanges, KeysChange, client
  <2> QED
    BY <1>5, <2>1
<1> QED
  BY <1>2, <1>6, <1>7, <1>8, <1>9, <1>10, <1>11 DEF Next

LEMMA FewStep ==
    ASSUME RynkInv, FewInv, Next
    PROVE  FewInv'
<1>1. /\ left \in Scenario /\ left'.calls = left.calls /\ Calls' = Calls
      /\ Len(left.calls) \in Nat /\ Calls \subseteq Nat \ {0}
  <2>1. left \in Scenario
    BY DEF RynkInv, HostTypes
  <2>2. left.calls \in Seq(Commands) /\ Calls \subseteq Nat \ {0}
    BY <2>1, Scenarios_
  <2> QED
    BY <2>1, <2>2, LeftStep, SameProgram
<1>2. CountInv'
  <2>1. CASE ProgramRestarts
    <3>1. call' = NoCalls /\ slotSeq' = AllFree /\ nextSeq' = 1
      BY <2>1 DEF ProgramRestarts
    <3>2. (\A i \in Calls : call'[i] = "no") /\ \A s \in Slots : slotSeq'[s] = 0
      BY <3>1 DEF NoCalls, AllFree
    <3>3. Len(left.calls) + 2 < MaxSeq
      BY DEF FewInv, CountInv
    <3>4. \A i \in Calls : nextSeq' <= i
      BY <1>1, <3>1
    <3>5. \A s \in Slots : slotSeq'[s] < nextSeq'
      BY <3>1, <3>2
    <3>6. nextSeq' <= Len(left'.calls) + 3 /\ Len(left'.calls) + 2 < MaxSeq
      BY <1>1, <3>1, <3>3
    <3> QED
      BY <1>1, <3>2, <3>4, <3>5, <3>6 DEF CountInv
  <2> QED
    BY <2>1, CountStep
<1>3. SentInv'
  BY SentStep
<1>4. CASE PlaceInv
  BY <1>2, <1>3, <1>4, PlaceStep DEF FewInv
<1>5. CASE left.restart = 0 /\ era = 0
  <2>1. left'.restart = 0 /\ ~ ProgramRestarts
    BY <1>1, <1>5, BoundsStay
  <2>2. UNCHANGED era
    BY <2>1 DEF Next, Call, Claim, Queue, Complete, Cancel, TakePump, TakeTopic, WritesZero,
                WritesFrame, Carries, Reads, Probe, DeviceReads, Serve, Forward, LayerChanges,
                KeysChange
  <2> QED
    BY <1>2, <1>3, <1>5, <2>1, <2>2 DEF FewInv
<1> QED
  BY <1>4, <1>5 DEF FewInv

\* With fewer requests than numbers (255, alloc_seq) no reply reaches another request than its
\* own, with any cancelled requests; and none of another command, with any restarts of the
\* program.
THEOREM FewRequestsInheritNothing == ASSUME FewRequests PROVE Spec => []NothingInherited
<1>1. Init => FewInv
  <2> SUFFICES ASSUME Init PROVE FewInv
    OBVIOUS
  <2>1. /\ left \in Scenario /\ Len(left.calls) + 2 < MaxSeq
        /\ left.cancel = 0 \/ left.restart = 0
    BY RynkScenarios, FewRequests DEF Init, FewRequests
  <2>2. left.calls \in Seq(Commands) /\ Calls \subseteq Nat \ {0} /\ Len(left.calls) \in Nat
    BY <2>1, Scenarios_
  <2>3. /\ \A i \in Calls : call[i] = "no"
        /\ \A s \in Slots : slotSeq[s] = 0
        /\ nextSeq = 1 /\ era = 0
    BY DEF Init, NoCalls, AllFree
  <2>4. \A g : ~ Travels(g)
    BY Empty DEF Init, Travels, Shows
  <2>5. CountInv
    <3>1. \A i \in Calls : nextSeq <= i
      BY <2>2, <2>3
    <3>2. nextSeq <= Len(left.calls) + 3 /\ \A s \in Slots : slotSeq[s] < nextSeq
      BY <2>2, <2>3
    <3> QED
      BY <2>1, <2>3, <3>1, <3>2 DEF CountInv
  <2>6. left.cancel = 0 => PlaceInv
    BY <2>3, <2>4 DEF PlaceInv, Unclaimed
  <2> QED
    BY <2>1, <2>3, <2>4, <2>5, <2>6 DEF FewInv, SentInv
<1>2. RynkInv /\ FewInv /\ [Next]_vars => FewInv' /\ [NumberIsFree]_vars
  <2> SUFFICES ASSUME RynkInv, FewInv, [Next]_vars PROVE FewInv' /\ NumberIsFree
    OBVIOUS
  <2>1. CASE Next
    BY <2>1, FewStep, FewAreFree
  <2>2. CASE UNCHANGED vars
    BY <2>2, FewAreFree
    DEF vars, client, driver, device, FewInv, CountInv, SentInv, PlaceInv, Unclaimed, Travels,
        Shows, Calls, Cmd
  <2> QED
    BY <2>1, <2>2
<1> QED
  BY <1>1, <1>2, RynkIsSound, FreeNumbersSuffice, PTL DEF Spec
=============================================================================
