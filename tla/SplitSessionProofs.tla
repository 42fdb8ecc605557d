-------------------------- MODULE SplitSessionProofs --------------------------
(***************************************************************************)
(* TLAPS proofs about SplitSession, for any size and place of the board's  *)
(* matrix in the keymap and any capacity of the key channel.               *)
(*                                                                         *)
(* Each thing the sides share is a pipeline: its source, the queues its    *)
(* changes go through, and its copy.  The invariant says of each pipeline  *)
(* that the last change in it, wherever it is, carries the source's value, *)
(* and that the copy does when there is none.                              *)
(***************************************************************************)
EXTENDS SplitSession, SequenceTheorems, TLAPS

-----------------------------------------------------------------------------
(* The invariant.                                                          *)

KeyEvent == [key : Keys, pressed : BOOLEAN, some : BOOLEAN]
DownMsg  == [t : Topics, v : Value, key : KeyEvent]
UpMsg    == [t : {"key", "battery"}, v : Value, key : KeyEvent]

Types ==
    /\ state \in [Mirrored -> Value] /\ view \in [Mirrored -> Value]
    /\ mgr \in {"off", "discover", "sync", "loop", "store"}
    /\ toSync \in Seq(DownMsg) /\ Len(toSync) <= 3 /\ (toSync # <<>> <=> mgr = "sync")
    /\ \A i \in 1 .. Len(toSync) : toSync[i].t # "clear"
    /\ subs \in [Topics -> Seq(Value)] /\ \A t \in Topics : Len(subs[t]) <= TopicCap[t]
    /\ down \in Seq(DownMsg) /\ up \in Seq(UpMsg)
    /\ link \in BOOLEAN /\ board \in BOOLEAN /\ wake \in BOOLEAN
    /\ keys \subseteq Keys /\ blocked \in KeyEvent
    /\ keySub \in Seq(KeyEvent) /\ Len(keySub) <= KeyCap
    /\ keymap \subseteq Offset .. Offset + Size - 1
    /\ battery \in Value /\ batView \in Value /\ batSub \in Seq(Value) /\ Len(batSub) <= 1
    /\ params \in [st : {"off", "request", "next"}, sub : Seq(Value), sleeping : Value,
                   applied : Value]
    /\ Len(params.sub) <= 1
    /\ peer \in [central : BOOLEAN, board : BOOLEAN]
    /\ lost \in [keys : SUBSET Keys, params : BOOLEAN, clear : BOOLEAN]
    /\ left \in Scenario

\* Sessions: a board that is not running has nothing queued.
SessionInv ==
    /\ link => board /\ mgr # "off"
    /\ ~ board => keySub = <<>> /\ batSub = <<>> /\ ~ blocked.some

\* No element of s is in P; the last one that is in P is in Q, too.
Lacks(s, P)       == \A i \in 1 .. Len(s) : s[i] \notin P
Settles(s, P, Q) == \E i \in 1 .. Len(s) : /\ s[i] \in P /\ s[i] \in Q
                                           /\ \A j \in i + 1 .. Len(s) : s[j] \notin P

About(t) == {m \in DownMsg : m.t = t}
With(v)  == {m \in DownMsg : m.v = v}

\* The central's state: the subscription, the initial messages, the link and the board.
MirrorOf(t) ==
    IF subs[t] # <<>> THEN subs[t][Len(subs[t])] = state[t]
    ELSE \/ Settles(toSync, About(t), With(state[t]))
         \/ Lacks(toSync, About(t)) /\ Settles(down, About(t), With(state[t]))
         \/ Lacks(toSync, About(t)) /\ Lacks(down, About(t)) /\ view[t] = state[t]
MirrorInv == Listening => \A t \in Mirrored \ {"layer"} : MirrorOf(t)

\* The board's keys: the scanner, the board's subscription, the link and the keymap.
Of(k)        == {e \in KeyEvent : e.key = k}
Pressed(b)   == {e \in KeyEvent : e.pressed = b}
UpOf(k)      == {m \in UpMsg : m.t = "key" /\ m.key.key = k}
UpPressed(b) == {m \in UpMsg : m.key.pressed = b}
Waits(k)     == blocked.some /\ blocked.key = k
QueuedKey(k) ==
    /\ Waits(k) => blocked.pressed = (k \in keys)
    /\ Waits(k) \/ Lacks(keySub, Of(k)) \/ Settles(keySub, Of(k), Pressed(k \in keys))
SentKey(k) ==
    k \in lost.keys \/ Waits(k) \/ ~ Lacks(keySub, Of(k))
      \/ Settles(up, UpOf(k), UpPressed(k \in keys))
      \/ (Lacks(up, UpOf(k)) /\ (k \in keys <=> Offset + k \in keymap))
KeyInv == \A k \in 0 .. Size - 1 : QueuedKey(k) /\ SentKey(k)

\* The battery: a level that is queued, a status message that will be answered with it, the
\* link and the central's copy.
BatteryMsg   == {m \in UpMsg : m.t = "battery"}
LevelIs(v)    == {m \in UpMsg : m.v = v}
WillAnswer   == subs["status"] # <<>> \/ ~ Lacks(toSync, About("status")) \/ ~ Lacks(down, About("status"))
BatteryInv ==
    /\ batSub # <<>> => batSub[1] = battery
    /\ Listening => \/ batSub # <<>> \/ WillAnswer
                    \/ Settles(up, BatteryMsg, LevelIs(battery))
                    \/ Lacks(up, BatteryMsg) /\ batView = battery

\* The parameters: what the task has heard, and what it applied.
ParamsInv ==
    params.st # "off" =>
        /\ IF params.sub # <<>> THEN params.sub[1] = state["sleep"] ELSE params.sleeping = state["sleep"]
        /\ params.st = "next" => lost.params \/ params.applied = params.sleeping

\* ClearPeer: the board still has the bond that the central gave up only while the message
\* is on its way.
ClearInv ==
    /\ ~ Lacks(down, About("clear")) \/ ~ peer.board => ~ peer.central
    /\ ~ lost.clear /\ ~ peer.central /\ peer.board => ~ Lacks(down, About("clear"))

SSInv == Types /\ SessionInv /\ MirrorInv /\ KeyInv /\ BatteryInv /\ ParamsInv /\ ClearInv

-----------------------------------------------------------------------------
(* Pipelines.                                                              *)

LEMMA ChainAppend ==
    ASSUME NEW S, NEW s \in Seq(S), NEW m \in S, NEW P, NEW Q
    PROVE  /\ m \notin P => /\ Lacks(Append(s, m), P) <=> Lacks(s, P)
                            /\ Settles(s, P, Q) => Settles(Append(s, m), P, Q)
           /\ m \in P => ~ Lacks(Append(s, m), P)
           /\ m \in P /\ m \in Q => Settles(Append(s, m), P, Q)
<1> DEFINE a == Append(s, m)
<1>1. /\ Len(s) \in Nat /\ Len(a) = Len(s) + 1 /\ a[Len(a)] = m
      /\ \A i \in 1 .. Len(s) : a[i] = s[i]
  OBVIOUS
<1> HIDE DEF a
<1>2. Len(a) \in 1 .. Len(a) /\ \A i \in 1 .. Len(a) : i \in 1 .. Len(s) \/ i = Len(a)
  BY <1>1
<1>3. ASSUME m \notin P PROVE Lacks(a, P) <=> Lacks(s, P)
  <2>1. ASSUME Lacks(a, P), NEW i \in 1 .. Len(s) PROVE s[i] \notin P
    <3>1. i \in 1 .. Len(a)
      BY <1>1
    <3> QED
      BY <1>1, <2>1, <3>1 DEF Lacks
  <2>2. ASSUME Lacks(s, P), NEW i \in 1 .. Len(a) PROVE a[i] \notin P
    BY <1>1, <1>2, <1>3, <2>2 DEF Lacks
  <2> QED
    BY <2>1, <2>2 DEF Lacks
<1>4. ASSUME m \notin P, Settles(s, P, Q) PROVE Settles(a, P, Q)
  <2>1. PICK i \in 1 .. Len(s) : s[i] \in P /\ s[i] \in Q /\ \A j \in i + 1 .. Len(s) : s[j] \notin P
    BY <1>4 DEF Settles
  <2>2. i \in 1 .. Len(a) /\ a[i] = s[i]
    BY <1>1
  <2>3. ASSUME NEW j \in i + 1 .. Len(a) PROVE a[j] \notin P
    <3>1. CASE j = Len(a)
      BY <1>1, <1>4, <3>1
    <3>2. CASE j # Len(a)
      <4>1. j \in i + 1 .. Len(s) /\ j \in 1 .. Len(s)
        BY <1>1, <3>2
      <4> QED
        BY <1>1, <2>1, <4>1
    <3> QED
      BY <3>1, <3>2
  <2> QED
    BY <2>1, <2>2, <2>3 DEF Settles
<1>5. ASSUME m \in P PROVE ~ Lacks(a, P)
  BY <1>1, <1>2, <1>5 DEF Lacks
<1>6. ASSUME m \in P, m \in Q PROVE Settles(a, P, Q)
  <2>1. \A j \in Len(a) + 1 .. Len(a) : a[j] \notin P
    BY <1>1
  <2> QED
    BY <1>1, <1>2, <1>6, <2>1 DEF Settles
<1> QED
  BY <1>3, <1>4, <1>5, <1>6 DEF a

LEMMA ChainTail ==
    ASSUME NEW S, NEW s \in Seq(S), s # <<>>, NEW P, NEW Q
    PROVE  /\ Head(s) \notin P => (Lacks(Tail(s), P) <=> Lacks(s, P))
           /\ Lacks(s, P) => Head(s) \notin P /\ Lacks(Tail(s), P)
           /\ Settles(s, P, Q) => \/ Settles(Tail(s), P, Q)
                                  \/ Lacks(Tail(s), P) /\ Head(s) \in P /\ Head(s) \in Q
           /\ Settles(Tail(s), P, Q) => ~ Lacks(Tail(s), P)
<1> DEFINE t == Tail(s)
           h == Head(s)
<1>1. /\ Len(s) \in Nat /\ Len(s) > 0 /\ Len(t) = Len(s) - 1 /\ h = s[1]
      /\ \A i \in 1 .. Len(t) : t[i] = s[i + 1]
  OBVIOUS
<1> HIDE DEF t, h
<1>2. /\ 1 \in 1 .. Len(s) /\ \A i \in 1 .. Len(t) : i + 1 \in 1 .. Len(s)
      /\ \A i \in 1 .. Len(s) : i = 1 \/ (i - 1 \in 1 .. Len(t) /\ t[i - 1] = s[i])
  BY <1>1
<1>3. ASSUME h \notin P, Lacks(t, P) PROVE Lacks(s, P)
  BY <1>1, <1>2, <1>3 DEF Lacks
<1>4. ASSUME Lacks(s, P) PROVE h \notin P /\ Lacks(t, P)
  BY <1>1, <1>2, <1>4 DEF Lacks
<1>5. ASSUME Settles(s, P, Q)
      PROVE  Settles(t, P, Q) \/ (Lacks(t, P) /\ h \in P /\ h \in Q)
  <2>1. PICK i \in 1 .. Len(s) : s[i] \in P /\ s[i] \in Q /\ \A j \in i + 1 .. Len(s) : s[j] \notin P
    BY <1>5 DEF Settles
  <2>2. ASSUME NEW j \in 1 .. Len(t), j >= i PROVE t[j] \notin P
    <3>1. j + 1 \in i + 1 .. Len(s)
      BY <1>1, <2>2
    <3> QED
      BY <1>1, <2>1, <3>1
  <2>3. CASE i = 1
    BY <1>1, <2>1, <2>2, <2>3 DEF Lacks
  <2>4. CASE i # 1
    <3>1. i - 1 \in 1 .. Len(t) /\ t[i - 1] = s[i]
      BY <1>2, <2>4
    <3>2. \A j \in (i - 1) + 1 .. Len(t) : t[j] \notin P
      BY <1>1, <2>2, <2>4
    <3> QED
      BY <2>1, <3>1, <3>2 DEF Settles
  <2> QED
    BY <2>3, <2>4
<1>6. Settles(t, P, Q) => ~ Lacks(t, P)
  BY DEF Settles, Lacks
<1> QED
  BY <1>3, <1>4, <1>5, <1>6 DEF t, h

LEMMA ChainEmpty ==
    ASSUME NEW P, NEW Q
    PROVE  Lacks(<<>>, P) /\ ~ Settles(<<>>, P, Q)
BY DEF Lacks, Settles

LEMMA ChainExcludes ==
    ASSUME NEW s, NEW P, NEW Q, Lacks(s, P)
    PROVE  ~ Settles(s, P, Q)
BY DEF Lacks, Settles

LEMMA ChainOne ==
    ASSUME NEW S, NEW s \in Seq(S), s # <<>>, Len(s) <= 1 \/ Tail(s) = <<>>
    PROVE  Len(s) = 1 /\ Head(s) = s[1] /\ Head(s) = s[Len(s)] /\ Tail(s) = <<>>
<1> DEFINE t == Tail(s)
           n == Len(t)
<1>1. Len(s) \in Nat /\ Len(s) > 0 /\ Head(s) = s[1] /\ n = Len(s) - 1 /\ t \in Seq(S)
  OBVIOUS
<1>2. (t = <<>> => n = 0) /\ (n = 0 => t = <<>>) /\ (Len(s) <= 1 \/ t = <<>>)
  <2>1. t \in Seq(S)
    OBVIOUS
  <2>2. Len(s) <= 1 \/ t = <<>>
    OBVIOUS
  <2> HIDE DEF t
  <2> QED
    BY <2>1, <2>2
<1> HIDE DEF n, t
<1>3. Len(s) = 1 /\ n = 0
  BY <1>1, <1>2
<1> QED
  BY <1>1, <1>2, <1>3 DEF t

-----------------------------------------------------------------------------
(* Types and sessions.                                                     *)

LEMMA Names ==
    /\ Mirrored = {"led", "layer", "status", "sleep"}
    /\ Topics = {"led", "layer", "status", "sleep", "clear"}
    /\ \A t \in Topics : TopicCap[t] \in 1 .. 2
    /\ 0 \in Value /\ 1 \in Value /\ \A v \in Value : 1 - v \in Value
    /\ NoKey \in KeyEvent /\ ~ NoKey.some /\ 0 \in Keys
<1>1. 0 \in Keys
  BY SessionSizes DEF Keys
<1> QED
  BY <1>1 DEF Mirrored, Topics, TopicCap, Value, NoKey, KeyEvent

LEMMA SpendKeeps ==
    ASSUME left \in Scenario,
           NEW w \in {"changes", "strokes", "levels", "faults", "clears"}, Spend(w)
    PROVE  left' \in Scenario
BY DEF Spend, Scenario

LEMMA PublishedTypes ==
    ASSUME NEW q \in Seq(Value), NEW v \in Value, NEW n \in Nat \ {0}, Len(q) <= n
    PROVE  /\ Published(q, v, n) \in Seq(Value) /\ Len(Published(q, v, n)) <= n
           /\ Published(q, v, n) # <<>>
           /\ Published(q, v, n)[Len(Published(q, v, n))] = v
           /\ Len(Published(q, v, n)) \in Nat \ {0}
<1>1. CASE Len(q) < n
  <2>1. Published(q, v, n) = Append(q, v)
    BY <1>1 DEF Published
  <2> QED
    BY <1>1, <2>1
<1>2. CASE ~ (Len(q) < n)
  <2>1. Published(q, v, n) = Append(Tail(q), v)
    BY <1>2 DEF Published
  <2>2. q # <<>> /\ Tail(q) \in Seq(Value) /\ Len(Tail(q)) = Len(q) - 1
    BY <1>2
  <2> QED
    BY <1>2, <2>1, <2>2
<1> QED
  BY <1>1, <1>2

LEMMA PublishTypes ==
    ASSUME Types, NEW t \in Topics, NEW v \in Value, subs' = Publish(t, v)
    PROVE  /\ subs' \in [Topics -> Seq(Value)] /\ \A u \in Topics : Len(subs'[u]) <= TopicCap[u]
           /\ \A u \in Topics \ {t} : subs'[u] = subs[u]
           /\ Subscribed => subs'[t] # <<>> /\ subs'[t][Len(subs'[t])] = v
<1>1. subs \in [Topics -> Seq(Value)] /\ \A u \in Topics : Len(subs[u]) <= TopicCap[u]
  BY DEF Types
<1>2. CASE ~ Subscribed
  BY <1>1, <1>2 DEF Publish
<1>3. CASE Subscribed
  <2> DEFINE p == Published(subs[t], v, TopicCap[t])
  <2>1. subs' = [subs EXCEPT ![t] = p]
    BY <1>3 DEF Publish
  <2>2. p \in Seq(Value) /\ Len(p) <= TopicCap[t] /\ p # <<>> /\ p[Len(p)] = v
    <3>1. TopicCap[t] \in Nat \ {0}
      BY Names
    <3> QED
      BY <1>1, <3>1, PublishedTypes
  <2> HIDE DEF p
  <2>3. subs'[t] = p /\ \A u \in Topics \ {t} : subs'[u] = subs[u]
    BY <1>1, <2>1
  <2>4. subs' \in [Topics -> Seq(Value)]
    BY <1>1, <2>1, <2>2
  <2> QED
    BY <1>1, <2>2, <2>3, <2>4
<1> QED
  BY <1>2, <1>3

LEMMA StateSet ==
    ASSUME Types, NEW t \in Mirrored, NEW v \in Value, SetState(t, v)
    PROVE  /\ state' \in [Mirrored -> Value] /\ state'[t] = v
           /\ \A u \in Mirrored \ {t} : state'[u] = state[u]
           /\ subs' = Publish(t, v) /\ t \in Topics
           /\ params' \in [st : {"off", "request", "next"}, sub : Seq(Value), sleeping : Value,
                           applied : Value]
           /\ Len(params'.sub) <= 1
           /\ params'.st = params.st /\ params'.sleeping = params.sleeping
           /\ params'.applied = params.applied
           /\ t # "sleep" => params' = params
           /\ t = "sleep" /\ params.st # "off" => params'.sub = <<v>>
<1>1. state' \in [Mirrored -> Value] /\ state'[t] = v /\ \A u \in Mirrored \ {t} : state'[u] = state[u]
  BY DEF SetState, Types
<1>2. subs' = Publish(t, v) /\ t \in Topics
  BY DEF SetState, Topics
<1>3. params' = params \/ (t = "sleep" /\ params.st # "off" /\ params' = [params EXCEPT !.sub = <<v>>])
  BY DEF SetState, ToParams
<1>4. t # "sleep" => params' = params
  BY DEF SetState
<1>5. t = "sleep" /\ params.st # "off" => params' = [params EXCEPT !.sub = <<v>>]
  BY DEF SetState, ToParams
<1>6. <<v>> \in Seq(Value) /\ Len(<<v>>) = 1
  OBVIOUS
<1>7. params \in [st : {"off", "request", "next"}, sub : Seq(Value), sleeping : Value,
                           applied : Value] /\ Len(params.sub) <= 1
  BY DEF Types
<1> QED
  BY <1>1, <1>2, <1>3, <1>4, <1>5, <1>6, <1>7

LEMMA DownMsgs ==
    ASSUME Types
    PROVE  /\ \A t \in Mirrored : Message(t) \in DownMsg /\ Message(t).t = t /\ Message(t).v = state[t]
           /\ \A t \in Mirrored, v \in Value :
                 /\ [Message(t) EXCEPT !.v = v] \in DownMsg
                 /\ [Message(t) EXCEPT !.v = v].t = t /\ [Message(t) EXCEPT !.v = v].v = v
           /\ [t |-> "clear", v |-> 0, key |-> NoKey] \in DownMsg
           /\ \A v \in Value : Level(v) \in UpMsg /\ Level(v).t = "battery" /\ Level(v).v = v
           /\ \A e \in KeyEvent : [t |-> "key", v |-> 0, key |-> e] \in UpMsg
<1>1. \A t \in Mirrored : t \in Topics /\ state[t] \in Value
  BY DEF Types, Topics
<1>2. "clear" \in Topics
  BY Names
<1> QED
  BY <1>1, <1>2, Names DEF DownMsg, UpMsg, Message, Level

LEMMA InitTypes ==
    ASSUME Init
    PROVE  Types /\ SessionInv
<1> USE DEF Init
<1>1. state \in [Mirrored -> Value] /\ view \in [Mirrored -> Value] /\ left \in Scenario
  BY Names, SessionScenarios DEF AtRest
<1>2. subs \in [Topics -> Seq(Value)] /\ \A t \in Topics : Len(subs[t]) <= TopicCap[t]
  BY Names
<1>3. toSync \in Seq(DownMsg) /\ Len(toSync) <= 3 /\ (toSync # <<>> <=> mgr = "sync")
      /\ \A i \in 1 .. Len(toSync) : toSync[i].t # "clear"
  OBVIOUS
<1>4. down \in Seq(DownMsg) /\ up \in Seq(UpMsg) /\ keySub \in Seq(KeyEvent) /\ batSub \in Seq(Value)
      /\ Len(keySub) <= KeyCap /\ Len(batSub) <= 1
  BY SessionSizes
<1>5. /\ link \in BOOLEAN /\ board \in BOOLEAN /\ wake \in BOOLEAN
      /\ mgr \in {"off", "discover", "sync", "loop", "store"}
  OBVIOUS
<1>6. blocked \in KeyEvent /\ battery \in Value /\ batView \in Value /\ ~ blocked.some
  BY Names
<1>7. params \in [st : {"off", "request", "next"}, sub : Seq(Value), sleeping : Value, applied : Value]
      /\ Len(params.sub) <= 1
  <2>1. <<>> \in Seq(Value) /\ Len(<<>>) = 0
    OBVIOUS
  <2> QED
    BY <2>1, Names DEF Idle
<1>8. peer \in [central : BOOLEAN, board : BOOLEAN]
      /\ lost \in [keys : SUBSET Keys, params : BOOLEAN, clear : BOOLEAN]
  OBVIOUS
<1>9. keys \subseteq Keys /\ keymap \subseteq Offset .. Offset + Size - 1
  OBVIOUS
<1>10. Types
  BY <1>1, <1>2, <1>3, <1>4, <1>5, <1>6, <1>7, <1>8, <1>9 DEF Types
<1>11. SessionInv
  BY <1>6 DEF SessionInv
<1> QED
  BY <1>10, <1>11

\* The steps of the central and of its manager.
LEMMA CentralTypes ==
    ASSUME Types, SessionInv,
           \/ Change \/ Activity \/ ClearPeerKey \/ ManagerStart \/ ManagerSync
           \/ (\E t \in Topics : ManagerSend(t)) \/ ManagerStored \/ ManagerReads \/ SessionEnds
           \/ ParamsRequest \/ ParamsNext
    PROVE  Types' /\ SessionInv'
<1>1. ASSUME Change PROVE Types' /\ SessionInv'
  <2>1. UNCHANGED <<mgr, toSync, down, view, up, link, board, keys, blocked, keySub, keymap, battery,
                    batSub, batView, wake, peer, lost>> /\ Spend("changes")
    BY <1>1 DEF Change, keyVars, batteryVars
  <2>2. left.topics \subseteq Mirrored
    BY DEF Types, Scenario, Mirrored
  <2>3. PICK t \in Mirrored : SetState(t, 1 - state[t])
    BY <1>1, <2>2 DEF Change
  <2>4. 1 - state[t] \in Value
    BY Names DEF Types
  <2>5. left' \in Scenario
    BY <2>1, SpendKeeps DEF Types
  <2>6. /\ state' \in [Mirrored -> Value] /\ Len(params'.sub) <= 1
        /\ params' \in [st : {"off", "request", "next"}, sub : Seq(Value), sleeping : Value,
                        applied : Value]
        /\ subs' \in [Topics -> Seq(Value)] /\ \A u \in Topics : Len(subs'[u]) <= TopicCap[u]
    <3>1. subs' = Publish(t, 1 - state[t]) /\ t \in Topics
      BY <2>3, <2>4, StateSet
    <3>2. subs' \in [Topics -> Seq(Value)] /\ \A u \in Topics : Len(subs'[u]) <= TopicCap[u]
      BY <2>4, <3>1, PublishTypes
    <3> QED
      BY <2>3, <2>4, <3>2, StateSet
  <2> QED
    BY <2>1, <2>5, <2>6 DEF Types, SessionInv
<1>2. ASSUME Activity PROVE Types' /\ SessionInv'
  <2>1. UNCHANGED <<mgr, toSync, down, view, up, link, board, keys, blocked, keySub, keymap, battery,
                    batSub, batView, peer, lost, left>> /\ wake' = FALSE
    BY <1>2 DEF Activity, keyVars, batteryVars
  <2>2. wake' \in BOOLEAN
    BY <2>1
  <2>3. CASE SetState("sleep", 0)
    <3>1. "sleep" \in Mirrored /\ 0 \in Value
      BY Names
    <3>2. subs' = Publish("sleep", 0) /\ "sleep" \in Topics
      BY <2>3, <3>1, StateSet
    <3>3. subs' \in [Topics -> Seq(Value)] /\ \A u \in Topics : Len(subs'[u]) <= TopicCap[u]
      BY <3>1, <3>2, PublishTypes
    <3>4. /\ state' \in [Mirrored -> Value] /\ Len(params'.sub) <= 1
          /\ params' \in [st : {"off", "request", "next"}, sub : Seq(Value), sleeping : Value,
                          applied : Value]
      BY <2>3, <3>1, StateSet
    <3> QED
      BY <2>1, <2>2, <3>3, <3>4 DEF Types, SessionInv
  <2>4. CASE UNCHANGED <<state, subs, params>>
    BY <2>1, <2>2, <2>4 DEF Types, SessionInv
  <2> QED
    BY <1>2, <2>3, <2>4 DEF Activity
<1>3. ASSUME ClearPeerKey PROVE Types' /\ SessionInv'
  <2>1. UNCHANGED <<state, mgr, toSync, down, view, up, link, board, keys, blocked, keySub, keymap,
                    battery, batSub, batView, params, wake, peer, lost>>
        /\ Spend("clears") /\ subs' = Publish("clear", 0)
    BY <1>3 DEF ClearPeerKey, keyVars, batteryVars
  <2>2. left' \in Scenario
    BY <2>1, SpendKeeps DEF Types
  <2> QED
    <3>1. subs' \in [Topics -> Seq(Value)] /\ \A u \in Topics : Len(subs'[u]) <= TopicCap[u]
      <4>1. "clear" \in Topics /\ 0 \in Value
        BY Names
      <4> QED
        BY <2>1, <4>1, PublishTypes
    <3> QED
      BY <2>1, <2>2, <3>1 DEF Types, SessionInv
<1>4. ASSUME ManagerStart PROVE Types' /\ SessionInv'
  <2>1. UNCHANGED <<state, down, view, up, link, board, keys, blocked, keySub, keymap,
                    battery, batSub, batView, params, wake, peer, lost, left>>
        /\ mgr' = "sync" /\ subs' = [t \in Topics |-> <<>>]
        /\ toSync' = <<Message("status"), Message("led"), Message("sleep")>>
    BY <1>4 DEF ManagerStart, keyVars, batteryVars
  <2>2. subs' \in [Topics -> Seq(Value)] /\ \A t \in Topics : Len(subs'[t]) <= TopicCap[t]
    BY <2>1, Names
  <2>3. /\ Message("status") \in DownMsg /\ Message("led") \in DownMsg /\ Message("sleep") \in DownMsg
        /\ Message("status").t # "clear" /\ Message("led").t # "clear" /\ Message("sleep").t # "clear"
    BY DownMsgs, Names
  <2>4. toSync' \in Seq(DownMsg) /\ Len(toSync') <= 3 /\ toSync' # <<>>
        /\ \A i \in 1 .. Len(toSync') : toSync'[i].t # "clear"
    BY <2>1, <2>3
  <2> QED
    BY <2>1, <2>2, <2>4 DEF Types, SessionInv
<1>5. ASSUME ManagerSync PROVE Types' /\ SessionInv'
  <2>1. UNCHANGED <<state, subs, view, up, link, board, keys, blocked, keySub, keymap,
                    battery, batSub, batView, params, wake, peer, lost, left>>
        /\ mgr = "sync" /\ down' = Append(down, Head(toSync)) /\ toSync' = Tail(toSync)
        /\ mgr' = IF toSync' = <<>> THEN "loop" ELSE "sync"
    BY <1>5 DEF ManagerSync, keyVars, batteryVars
  <2>2. toSync # <<>> /\ toSync \in Seq(DownMsg) /\ Len(toSync) <= 3
        /\ \A i \in 1 .. Len(toSync) : toSync[i].t # "clear"
    BY <2>1 DEF Types
  <2>3. toSync' \in Seq(DownMsg) /\ Len(toSync') <= 3 /\ Head(toSync) \in DownMsg
        /\ \A i \in 1 .. Len(toSync') : toSync'[i].t # "clear"
    BY <2>1, <2>2
  <2>4. down' \in Seq(DownMsg)
    BY <2>1, <2>3 DEF Types
  <2> QED
    BY <2>1, <2>3, <2>4 DEF Types, SessionInv
<1>6. ASSUME NEW t \in Topics, ManagerSend(t) PROVE Types' /\ SessionInv'
  <2>1. UNCHANGED <<state, toSync, view, up, link, board, keys, blocked, keySub, keymap,
                    battery, batSub, batView, params, wake, peer, lost, left>>
        /\ mgr = "loop" /\ link /\ subs[t] # <<>> /\ subs' = [subs EXCEPT ![t] = Tail(@)]
        /\ mgr' \in {"loop", "store"}
        /\ (down' = down \/ (t # "clear" /\ down' = Append(down, [Message(t) EXCEPT !.v = Head(subs[t])])))
    BY <1>6 DEF ManagerSend, keyVars, batteryVars
  <2>2. subs[t] \in Seq(Value) /\ Tail(subs[t]) \in Seq(Value) /\ Head(subs[t]) \in Value
        /\ Len(Tail(subs[t])) <= Len(subs[t]) /\ Len(subs[t]) <= TopicCap[t]
    BY <2>1 DEF Types
  <2>3. subs' \in [Topics -> Seq(Value)] /\ \A u \in Topics : Len(subs'[u]) <= TopicCap[u]
    <3>1. TopicCap[t] \in Nat /\ Len(Tail(subs[t])) \in Nat /\ Len(subs[t]) \in Nat
      BY <2>2, Names
    <3>2. subs'[t] = Tail(subs[t]) /\ \A u \in Topics \ {t} : subs'[u] = subs[u]
      BY <2>1 DEF Types
    <3> QED
      BY <2>1, <2>2, <3>1, <3>2 DEF Types
  <2>4. down' \in Seq(DownMsg)
    <3>1. t # "clear" => t \in Mirrored
      BY Names
    <3> DEFINE m == [Message(t) EXCEPT !.v = Head(subs[t])]
    <3>2. t # "clear" => m \in DownMsg
      BY <2>2, <3>1, DownMsgs
    <3>3. down' = down \/ (t # "clear" /\ down' = Append(down, m))
      BY <2>1
    <3>4. down \in Seq(DownMsg)
      BY DEF Types
    <3> HIDE DEF m
    <3> QED
      BY <3>2, <3>3, <3>4
  <2> QED
    BY <2>1, <2>3, <2>4 DEF Types, SessionInv
<1>7. ASSUME ManagerStored PROVE Types' /\ SessionInv'
  <2>1. UNCHANGED <<state, toSync, subs, view, up, link, board, keys, blocked, keySub, keymap,
                    battery, batSub, batView, params, wake, left>>
        /\ mgr = "store" /\ mgr' = "loop" /\ peer' = [peer EXCEPT !.central = FALSE]
        /\ lost' = [lost EXCEPT !.clear = lost.clear \/ ~ link]
        /\ (down' = down \/ down' = Append(down, [t |-> "clear", v |-> 0, key |-> NoKey]))
    BY <1>7 DEF ManagerStored, keyVars, batteryVars
  <2>2. down' \in Seq(DownMsg)
    <3> DEFINE m == [t |-> "clear", v |-> 0, key |-> NoKey]
    <3>1. m \in DownMsg /\ (down' = down \/ down' = Append(down, m))
      BY <2>1, DownMsgs
    <3>2. down \in Seq(DownMsg)
      BY DEF Types
    <3> HIDE DEF m
    <3> QED
      BY <3>1, <3>2
  <2>3. peer' \in [central : BOOLEAN, board : BOOLEAN]
    BY <2>1 DEF Types
  <2>4. lost' \in [keys : SUBSET Keys, params : BOOLEAN, clear : BOOLEAN]
    BY <2>1 DEF Types
  <2> QED
    BY <2>1, <2>2, <2>3, <2>4 DEF Types, SessionInv
<1>8. ASSUME ManagerReads PROVE Types' /\ SessionInv'
  <2>1. UNCHANGED <<state, toSync, subs, down, view, link, board, keys, blocked, keySub,
                    battery, batSub, params, peer, lost, left>>
        /\ mgr \in {"loop", "store"} /\ up # <<>> /\ mgr' = "loop" /\ up' = Tail(up)
    BY <1>8 DEF ManagerReads
  <2> DEFINE m == Head(up)
  <2>2. m \in UpMsg /\ up' \in Seq(UpMsg)
    BY <2>1 DEF Types
  <2>3. m.key.key \in Keys /\ m.v \in Value
    BY <2>2 DEF UpMsg, KeyEvent
  <2>4. KeyPlace(m.key.key) \subseteq Offset .. Offset + Size - 1
    BY <2>3, SessionSizes DEF KeyPlace, Keys
  <2>5. \/ keymap' \in {keymap \union KeyPlace(m.key.key), keymap \ KeyPlace(m.key.key)}
             /\ wake' = (wake \/ state["sleep"] = 1) /\ batView' = batView
        \/ batView' = m.v /\ UNCHANGED <<keymap, wake>>
    BY <1>8 DEF ManagerReads
  <2> HIDE DEF m
  <2>6. keymap' \subseteq Offset .. Offset + Size - 1 /\ batView' \in Value
    BY <2>3, <2>4, <2>5 DEF Types
  <2>7. wake' \in BOOLEAN
    BY <2>5 DEF Types
  <2> QED
    BY <2>1, <2>2, <2>6, <2>7 DEF Types, SessionInv
<1>9. ASSUME SessionEnds PROVE Types' /\ SessionInv'
  <2>1. UNCHANGED <<state, down, view, up, link, board, keys, blocked, keySub, keymap,
                    battery, batSub, batView, wake, peer, lost, left>> /\ ~ link
        /\ mgr' = "off" /\ toSync' = <<>> /\ subs' = [t \in Topics |-> <<>>] /\ params' = Idle
    BY <1>9 DEF SessionEnds, keyVars, batteryVars
  <2>2. subs' \in [Topics -> Seq(Value)] /\ \A t \in Topics : Len(subs'[t]) <= TopicCap[t]
    BY <2>1, Names
  <2>3. params' \in [st : {"off", "request", "next"}, sub : Seq(Value), sleeping : Value,
                     applied : Value] /\ Len(params'.sub) <= 1
    <3>1. <<>> \in Seq(Value) /\ Len(<<>>) = 0
      OBVIOUS
    <3> QED
      BY <2>1, <3>1, Names DEF Idle
  <2>4. toSync' \in Seq(DownMsg) /\ Len(toSync') <= 3 /\ \A i \in 1 .. Len(toSync') : toSync'[i].t # "clear"
    BY <2>1
  <2> QED
    BY <2>1, <2>2, <2>3, <2>4 DEF Types, SessionInv
<1>10. ASSUME ParamsRequest \/ ParamsNext PROVE Types' /\ SessionInv'
  <2>1. UNCHANGED <<state, mgr, toSync, subs, down, view, up, link, board, keys, blocked, keySub,
                    keymap, battery, batSub, batView, wake, peer>>
    BY <1>10 DEF ParamsRequest, ParamsNext, mirrorVars, keyVars, batteryVars
  <2>2. left' \in Scenario
    BY <1>10, SpendKeeps DEF ParamsRequest, ParamsNext, Types
  <2>3. lost' \in [keys : SUBSET Keys, params : BOOLEAN, clear : BOOLEAN]
    BY <1>10 DEF ParamsRequest, ParamsNext, Types
  <2>4. params' \in [st : {"off", "request", "next"}, sub : Seq(Value), sleeping : Value,
                     applied : Value] /\ Len(params'.sub) <= 1
    <3>1. params \in [st : {"off", "request", "next"}, sub : Seq(Value), sleeping : Value,
                      applied : Value] /\ Len(params.sub) <= 1
      BY DEF Types
    <3>2. CASE ParamsRequest
      BY <3>1, <3>2 DEF ParamsRequest, ParamsDone
    <3>3. CASE ParamsNext
      <4>1. params.sub # <<>> /\ Tail(params.sub) \in Seq(Value) /\ Head(params.sub) \in Value
            /\ Len(Tail(params.sub)) <= 1
        BY <3>1, <3>3 DEF ParamsNext
      <4>2. params' = Asked([params EXCEPT !.sub = Tail(params.sub), !.sleeping = Head(params.sub)])
        BY <3>3 DEF ParamsNext
      <4> QED
        BY <3>1, <4>1, <4>2 DEF Asked
    <3> QED
      BY <1>10, <3>2, <3>3
  <2> QED
    BY <2>1, <2>2, <2>3, <2>4 DEF Types, SessionInv
<1> QED
  BY <1>1, <1>2, <1>3, <1>4, <1>5, <1>6, <1>7, <1>8, <1>9, <1>10

LEMMA NotifyTypes ==
    ASSUME Types, NEW m \in UpMsg, Notify(m)
    PROVE  up' \in Seq(UpMsg)
BY DEF Types, Notify

\* The steps of the board and of the link.
LEMMA BoardTypes ==
    ASSUME Types, SessionInv,
           \/ Stroke \/ KeyPublished \/ BatteryLevel \/ BoardSends \/ BoardReads
           \/ BoardDisconnected \/ LinkUp \/ LinkDown
    PROVE  Types' /\ SessionInv'
<1>1. ASSUME Stroke PROVE Types' /\ SessionInv'
  <2>1. UNCHANGED <<state, mgr, toSync, subs, down, view, up, link, board, keySub, keymap, battery,
                    batSub, batView, params, wake, peer>> /\ Spend("strokes") /\ ~ blocked.some
    BY <1>1 DEF Stroke, mirrorVars, batteryVars
  <2>2. left' \in Scenario
    BY <2>1, SpendKeeps DEF Types
  <2>3. left.keys \subseteq Keys
    BY DEF Types, Scenario, Keys
  <2>4. PICK k \in left.keys :
          /\ keys' = IF k \in keys THEN keys \ {k} ELSE keys \union {k}
          /\ IF board
               THEN /\ blocked' = [key |-> k, pressed |-> k \in keys', some |-> TRUE]
                    /\ UNCHANGED lost
               ELSE /\ lost' = [lost EXCEPT !.keys = lost.keys \union {k}] /\ UNCHANGED blocked
    BY <1>1 DEF Stroke
  <2>5. keys' \subseteq Keys
    BY <2>3, <2>4 DEF Types
  <2>6. blocked' \in KeyEvent /\ (~ board => ~ blocked'.some)
    <3>1. CASE board
      <4> DEFINE b == k \in keys'
      <4>1. b \in BOOLEAN /\ k \in Keys
        BY <2>3
      <4>2. blocked' = [key |-> k, pressed |-> b, some |-> TRUE]
        BY <2>4, <3>1
      <4> HIDE DEF b
      <4> QED
        BY <3>1, <4>1, <4>2 DEF KeyEvent
    <3>2. CASE ~ board
      <4>1. blocked' = blocked
        BY <2>4, <3>2
      <4> QED
        BY <2>1, <4>1 DEF Types
    <3> QED
      BY <3>1, <3>2
  <2>7. lost' \in [keys : SUBSET Keys, params : BOOLEAN, clear : BOOLEAN]
    <3>1. k \in Keys
      BY <2>3
    <3>2. lost' = lost \/ lost' = [lost EXCEPT !.keys = lost.keys \union {k}]
      BY <2>4
    <3>3. lost \in [keys : SUBSET Keys, params : BOOLEAN, clear : BOOLEAN]
      BY DEF Types
    <3>4. [lost EXCEPT !.keys = lost.keys \union {k}]
             \in [keys : SUBSET Keys, params : BOOLEAN, clear : BOOLEAN]
      <4> DEFINE more == lost.keys \union {k}
      <4>1. more \subseteq Keys
        BY <3>1, <3>3
      <4> HIDE DEF more
      <4>2. [lost EXCEPT !.keys = more] \in [keys : SUBSET Keys, params : BOOLEAN, clear : BOOLEAN]
        BY <3>3, <4>1
      <4> QED
        BY <4>2 DEF more
    <3> QED
      BY <3>2, <3>3, <3>4
  <2> QED
    BY <2>1, <2>2, <2>5, <2>6, <2>7 DEF Types, SessionInv
<1>2. ASSUME KeyPublished PROVE Types' /\ SessionInv'
  <2>1. UNCHANGED <<state, mgr, toSync, subs, down, view, up, link, board, keys, keymap, battery,
                    batSub, batView, params, wake, peer, lost, left>>
        /\ blocked.some /\ Len(keySub) < KeyCap /\ keySub' = Append(keySub, blocked) /\ blocked' = NoKey
    BY <1>2 DEF KeyPublished, mirrorVars, batteryVars
  <2>2. keySub' \in Seq(KeyEvent) /\ Len(keySub') <= KeyCap
    BY <2>1, SessionSizes DEF Types
  <2>3. board
    BY <2>1 DEF SessionInv
  <2> QED
    BY <2>1, <2>2, <2>3, Names DEF Types, SessionInv
<1>3. ASSUME BatteryLevel PROVE Types' /\ SessionInv'
  <2>1. UNCHANGED <<state, mgr, toSync, subs, down, view, up, link, board, keys, blocked, keySub,
                    keymap, batView, params, wake, peer, lost>>
        /\ battery' = 1 - battery /\ Spend("levels")
        /\ batSub' = IF board THEN Published(batSub, battery', 1) ELSE batSub
    BY <1>3 DEF BatteryLevel, mirrorVars, keyVars
  <2>2. left' \in Scenario /\ battery' \in Value
    BY <2>1, SpendKeeps, Names DEF Types
  <2>3. Published(batSub, battery', 1) \in Seq(Value) /\ Len(Published(batSub, battery', 1)) <= 1
    BY <2>2, PublishedTypes DEF Types
  <2> QED
    BY <2>1, <2>2, <2>3 DEF Types, SessionInv
<1>4. ASSUME BoardSends PROVE Types' /\ SessionInv'
  <2>1. UNCHANGED <<state, mgr, toSync, subs, down, view, link, board, keys, blocked, keymap, battery,
                    batView, params, wake, peer, left>> /\ board
    BY <1>4 DEF BoardSends, mirrorVars
  <2>2. CASE /\ keySub # <<>> /\ keySub' = Tail(keySub) /\ UNCHANGED batSub
             /\ Notify([t |-> "key", v |-> 0, key |-> Head(keySub)])
             /\ lost' = [lost EXCEPT !.keys = IF Listening THEN lost.keys \ {Head(keySub).key}
                                              ELSE lost.keys \union {Head(keySub).key}]
    <3>1. Head(keySub) \in KeyEvent /\ keySub' \in Seq(KeyEvent) /\ Len(keySub') <= KeyCap
      BY <2>2, SessionSizes DEF Types
    <3>2. up' \in Seq(UpMsg)
      <4>1. [t |-> "key", v |-> 0, key |-> Head(keySub)] \in UpMsg
        BY <3>1, DownMsgs
      <4> QED
        BY <2>2, <4>1, NotifyTypes
    <3>3. Head(keySub).key \in Keys
      BY <3>1 DEF KeyEvent
    <3>4. lost' \in [keys : SUBSET Keys, params : BOOLEAN, clear : BOOLEAN]
      BY <2>2, <3>3 DEF Types
    <3> QED
      BY <2>1, <2>2, <3>1, <3>2, <3>4 DEF Types, SessionInv
  <2>3. CASE /\ keySub = <<>> /\ batSub # <<>> /\ batSub' = Tail(batSub)
             /\ Notify(Level(Head(batSub))) /\ UNCHANGED <<keySub, lost>>
    <3>1. Head(batSub) \in Value /\ batSub' \in Seq(Value) /\ Len(batSub') <= 1
      BY <2>3 DEF Types
    <3>2. up' \in Seq(UpMsg)
      BY <2>3, <3>1, DownMsgs, NotifyTypes
    <3> QED
      BY <2>1, <2>3, <3>1, <3>2 DEF Types, SessionInv
  <2> QED
    BY <1>4, <2>2, <2>3 DEF BoardSends
<1>5. ASSUME BoardReads PROVE Types' /\ SessionInv'
  <2> DEFINE m == Head(down)
  <2>1. UNCHANGED <<state, mgr, toSync, subs, link, board, keys, blocked, keySub, keymap, battery,
                    batSub, batView, params, wake, lost, left>>
        /\ down # <<>> /\ down' = Tail(down)
        /\ \/ m.t = "clear" /\ peer' = [peer EXCEPT !.board = FALSE] /\ view' = view
           \/ m.t # "clear" /\ view' = [view EXCEPT ![m.t] = m.v] /\ peer' = peer
        /\ (Notify(Level(battery)) \/ up' = up)
    BY <1>5 DEF BoardReads, keyVars, batteryVars
  <2>2. m \in DownMsg /\ down' \in Seq(DownMsg)
    BY <2>1 DEF Types
  <2>3. m.v \in Value
    BY <2>2 DEF DownMsg
  <2>4. view' \in [Mirrored -> Value] /\ peer' \in [central : BOOLEAN, board : BOOLEAN]
    BY <2>1, <2>3 DEF Types
  <2>5. up' \in Seq(UpMsg)
    <3>1. Level(battery) \in UpMsg
      BY DownMsgs DEF Types
    <3>2. up \in Seq(UpMsg)
      BY DEF Types
    <3> QED
      BY <2>1, <3>1, <3>2, NotifyTypes
  <2> HIDE DEF m
  <2> QED
    BY <2>1, <2>2, <2>4, <2>5 DEF Types, SessionInv
<1>6. ASSUME BoardDisconnected PROVE Types' /\ SessionInv'
  <2>1. UNCHANGED <<state, mgr, toSync, subs, down, up, link, keys, keymap, battery, batView,
                    params, wake, peer, left>> /\ ~ link /\ board' = FALSE
        /\ view' = [view EXCEPT !["status"] = 0, !["sleep"] = 0]
        /\ keySub' = <<>> /\ batSub' = <<>> /\ blocked' = NoKey
    BY <1>6 DEF BoardDisconnected
  <2>2. keySub' \in Seq(KeyEvent) /\ batSub' \in Seq(Value) /\ Len(keySub') <= KeyCap /\ Len(batSub') <= 1
    BY <2>1, SessionSizes
  <2>3. blocked' \in KeyEvent /\ ~ blocked'.some
    BY <2>1, Names
  <2>4. lost' \in [keys : SUBSET Keys, params : BOOLEAN, clear : BOOLEAN]
    <3> DEFINE more == {keySub[i].key : i \in DOMAIN keySub}
                         \union (IF blocked.some THEN {blocked.key} ELSE {})
    <3>1. more \subseteq Keys
      <4>1. \A i \in DOMAIN keySub : keySub[i] \in KeyEvent
        BY DEF Types
      <4>2. blocked \in KeyEvent
        BY DEF Types
      <4> QED
        BY <4>1, <4>2 DEF KeyEvent
    <3>2. lost' = [lost EXCEPT !.keys = lost.keys \union more]
      BY <1>6 DEF BoardDisconnected
    <3> HIDE DEF more
    <3> QED
      BY <3>1, <3>2 DEF Types
  <2>5. view' \in [Mirrored -> Value]
    BY <2>1, Names DEF Types
  <2>6. board' \in BOOLEAN
    BY <2>1
  <2> QED
    BY <2>1, <2>2, <2>3, <2>4, <2>5, <2>6 DEF Types, SessionInv
<1>7. ASSUME LinkUp PROVE Types' /\ SessionInv'
  <2>1. UNCHANGED <<state, toSync, subs, down, view, up, keys, blocked, keySub, keymap, battery,
                    batSub, batView, wake, peer, left>> /\ mgr = "off"
        /\ link' = TRUE /\ board' = TRUE /\ mgr' = "discover"
        /\ params' = Asked([Idle EXCEPT !.sleeping = state["sleep"]])
        /\ lost' = [lost EXCEPT !.params = FALSE]
    BY <1>7 DEF LinkUp, mirrorVars, keyVars, batteryVars
  <2>2. params' \in [st : {"off", "request", "next"}, sub : Seq(Value), sleeping : Value,
                     applied : Value] /\ Len(params'.sub) <= 1
    <3>1. <<>> \in Seq(Value) /\ Len(<<>>) = 0 /\ state["sleep"] \in Value /\ 0 \in Value
      BY Names DEF Types
    <3> DEFINE p == [Idle EXCEPT !.sleeping = state["sleep"]]
    <3>2. p = [st |-> "off", sub |-> <<>>, sleeping |-> state["sleep"], applied |-> 0]
      BY DEF Idle
    <3>3. p \in [st : {"off", "request", "next"}, sub : Seq(Value), sleeping : Value, applied : Value]
          /\ p.sub = <<>>
      BY <3>1, <3>2
    <3> HIDE DEF p
    <3>4. Asked(p) \in [st : {"off", "request", "next"}, sub : Seq(Value), sleeping : Value,
                       applied : Value] /\ Asked(p).sub = <<>>
      BY <3>3 DEF Asked
    <3>5. params' = Asked(p)
      BY <2>1 DEF p
    <3> QED
      BY <3>1, <3>4, <3>5
  <2>3. lost' \in [keys : SUBSET Keys, params : BOOLEAN, clear : BOOLEAN]
    BY <2>1 DEF Types
  <2>4. link' \in BOOLEAN /\ board' \in BOOLEAN
    BY <2>1
  <2> QED
    BY <2>1, <2>2, <2>3, <2>4 DEF Types, SessionInv
<1>8. ASSUME LinkDown PROVE Types' /\ SessionInv'
  <2>1. UNCHANGED <<state, mgr, toSync, subs, view, board, keys, blocked, keySub, keymap, battery,
                    batSub, batView, params, wake, peer>> /\ Spend("faults")
        /\ link' = FALSE /\ up' = <<>>
    BY <1>8 DEF LinkDown, keyVars, batteryVars
  <2>2. PICK n \in 0 .. Len(down) :
          /\ down' = SubSeq(down, 1, n)
          /\ lost' = [lost EXCEPT
                !.keys = lost.keys \union {up[i].key.key : i \in {j \in DOMAIN up : up[j].t = "key"}},
                !.clear = lost.clear \/ \E i \in n + 1 .. Len(down) : down[i].t = "clear"]
    BY <1>8 DEF LinkDown
  <2>3. down' \in Seq(DownMsg)
    BY <2>2 DEF Types
  <2>4. lost' \in [keys : SUBSET Keys, params : BOOLEAN, clear : BOOLEAN]
    <3> DEFINE more == {up[i].key.key : i \in {j \in DOMAIN up : up[j].t = "key"}}
               cut == lost.clear \/ \E i \in n + 1 .. Len(down) : down[i].t = "clear"
    <3>1. \A i \in DOMAIN up : up[i].key.key \in Keys
      <4>1. \A i \in DOMAIN up : up[i] \in UpMsg
        BY DEF Types
      <4> QED
        BY <4>1 DEF UpMsg, KeyEvent
    <3>2. more \subseteq Keys
      BY <3>1
    <3>3. cut \in BOOLEAN
      BY DEF Types
    <3>4. lost' = [lost EXCEPT !.keys = lost.keys \union more, !.clear = cut]
      BY <2>2
    <3> HIDE DEF more, cut
    <3> QED
      BY <3>2, <3>3, <3>4 DEF Types
  <2>5. left' \in Scenario /\ link' \in BOOLEAN
    BY <2>1, SpendKeeps DEF Types
  <2>6. up' \in Seq(UpMsg)
    BY <2>1
  <2> QED
    BY <2>1, <2>3, <2>4, <2>5, <2>6 DEF Types, SessionInv
<1> QED
  BY <1>1, <1>2, <1>3, <1>4, <1>5, <1>6, <1>7, <1>8

-----------------------------------------------------------------------------
(* The central's state on the board.                                       *)

LEMMA MirrorKept ==
    ASSUME MirrorInv, UNCHANGED <<state, toSync, subs, down, view>>, Listening' => Listening
    PROVE  MirrorInv'
BY DEF MirrorInv, MirrorOf

\* A change is in the subscription; the other topics stay as they are.
LEMMA MirrorSet ==
    ASSUME Types, MirrorInv, NEW t \in Mirrored, NEW v \in Value, SetState(t, v),
           UNCHANGED <<toSync, down, view, link, mgr>>
    PROVE  MirrorInv'
<1>1. Listening' <=> Listening
  BY DEF Listening, Subscribed
<1>2. ASSUME NEW u \in Mirrored \ {"layer"}, Listening PROVE MirrorOf(u)'
  <2>1. /\ state'[t] = v /\ \A w \in Mirrored \ {t} : state'[w] = state[w]
        /\ subs' = Publish(t, v) /\ t \in Topics
    BY StateSet
  <2>2. /\ \A w \in Topics \ {t} : subs'[w] = subs[w]
        /\ subs'[t] # <<>> /\ subs'[t][Len(subs'[t])] = v
    BY <1>2, <2>1, PublishTypes DEF Listening
  <2>3. CASE u = t
    BY <2>1, <2>2, <2>3 DEF MirrorOf
  <2>4. CASE u # t
    <3>1. u \in Topics /\ state'[u] = state[u] /\ subs'[u] = subs[u]
      BY <2>1, <2>2, <2>4, Names
    <3> QED
      BY <1>2, <3>1 DEF MirrorInv, MirrorOf
  <2> QED
    BY <2>3, <2>4
<1> QED
  BY <1>1, <1>2 DEF MirrorInv

LEMMA Abouts ==
    ASSUME NEW m \in DownMsg
    PROVE  /\ \A t : m \in About(t) <=> m.t = t
           /\ \A v : m \in With(v) <=> m.v = v
BY DEF About, With

LEMMA MirrorStep ==
    ASSUME SSInv, Next
    PROVE  MirrorInv'
<1> USE DEF SSInv
<1>1. ASSUME Change PROVE MirrorInv'
  <2>1. UNCHANGED <<mgr, toSync, down, view, link>>
    BY <1>1 DEF Change
  <2>2. left.topics \subseteq Mirrored
    BY DEF Types, Scenario, Mirrored
  <2>3. PICK t \in Mirrored : SetState(t, 1 - state[t])
    BY <1>1, <2>2 DEF Change
  <2>4. 1 - state[t] \in Value
    BY Names DEF Types
  <2> QED
    BY <2>1, <2>3, <2>4, MirrorSet
<1>2. ASSUME Activity PROVE MirrorInv'
  <2>1. UNCHANGED <<mgr, toSync, down, view, link>>
    BY <1>2 DEF Activity
  <2>2. CASE SetState("sleep", 0)
    BY <2>1, <2>2, Names, MirrorSet
  <2>3. CASE UNCHANGED <<state, subs, params>>
    BY <2>1, <2>3, MirrorKept DEF Listening, Subscribed
  <2> QED
    BY <1>2, <2>2, <2>3 DEF Activity
<1>3. ASSUME ClearPeerKey PROVE MirrorInv'
  <2>1. UNCHANGED <<state, mgr, toSync, down, view, link>> /\ subs' = Publish("clear", 0)
    BY <1>3 DEF ClearPeerKey
  <2>2. \A u \in Mirrored : subs'[u] = subs[u]
    BY <2>1, Names, PublishTypes
  <2> QED
    BY <2>1, <2>2 DEF MirrorInv, MirrorOf, Listening, Subscribed
<1>4. ASSUME ManagerStart PROVE MirrorInv'
  <2>1. UNCHANGED <<state, down, view, link>>
        /\ subs' = [t \in Topics |-> <<>>]
        /\ toSync' = <<Message("status"), Message("led"), Message("sleep")>>
    BY <1>4 DEF ManagerStart
  <2>2. ASSUME NEW u \in Mirrored \ {"layer"} PROVE MirrorOf(u)'
    <3>1. subs'[u] = <<>>
      BY <2>1, <2>2, Names
    <3>2. /\ toSync'[1] = Message("status") /\ toSync'[2] = Message("led")
          /\ toSync'[3] = Message("sleep") /\ Len(toSync') = 3
      BY <2>1
    <3>3. /\ Message("status") \in About("status") /\ Message("led") \in About("led")
          /\ Message("sleep") \in About("sleep")
          /\ Message("status") \notin About("led") /\ Message("sleep") \notin About("led")
          /\ Message("led") \notin About("status") /\ Message("sleep") \notin About("status")
          /\ \A w \in Mirrored : Message(w) \in With(state[w])
      BY DownMsgs, Abouts, Names
    <3>4. Settles(toSync', About(u), With(state[u]))
      <4>1. CASE u = "status"
        <5>1. toSync'[1] \in About(u) /\ toSync'[1] \in With(state[u])
          BY <3>2, <3>3, <4>1, Names
        <5>2. \A j \in 1 + 1 .. Len(toSync') : toSync'[j] \notin About(u)
          BY <3>2, <3>3, <4>1
        <5>3. 1 \in 1 .. Len(toSync')
          BY <3>2
        <5> QED
          BY <5>1, <5>2, <5>3 DEF Settles
      <4>2. CASE u = "led"
        <5>1. toSync'[2] \in About(u) /\ toSync'[2] \in With(state[u])
          BY <3>2, <3>3, <4>2, Names
        <5>2. \A j \in 2 + 1 .. Len(toSync') : toSync'[j] \notin About(u)
          BY <3>2, <3>3, <4>2
        <5>3. 2 \in 1 .. Len(toSync')
          BY <3>2
        <5> QED
          BY <5>1, <5>2, <5>3 DEF Settles
      <4>3. CASE u = "sleep"
        <5>1. toSync'[3] \in About(u) /\ toSync'[3] \in With(state[u])
          BY <3>2, <3>3, <4>3, Names
        <5>2. \A j \in 3 + 1 .. Len(toSync') : toSync'[j] \notin About(u)
          BY <3>2
        <5>3. 3 \in 1 .. Len(toSync')
          BY <3>2
        <5> QED
          BY <5>1, <5>2, <5>3 DEF Settles
      <4> QED
        BY <2>2, <4>1, <4>2, <4>3, Names
    <3> QED
      BY <2>1, <3>1, <3>4 DEF MirrorOf
  <2> QED
    BY <2>2 DEF MirrorInv
<1>5. ASSUME ManagerSync PROVE MirrorInv'
  <2> DEFINE m == Head(toSync)
  <2>1. UNCHANGED <<state, subs, view, link>> /\ mgr = "sync" /\ link
        /\ down' = Append(down, m) /\ toSync' = Tail(toSync)
    BY <1>5 DEF ManagerSync
  <2>2. toSync # <<>> /\ toSync \in Seq(DownMsg) /\ m \in DownMsg /\ down \in Seq(DownMsg)
    BY <2>1 DEF Types
  <2>3. Listening
    BY <2>1 DEF Listening, Subscribed
  <2>4. ASSUME NEW u \in Mirrored \ {"layer"} PROVE MirrorOf(u)'
    <3> DEFINE P == About(u)
               Q == With(state[u])
    <3>1. MirrorOf(u)
      BY <2>3 DEF MirrorInv
    <3>2. CASE subs[u] # <<>>
      BY <2>1, <3>1, <3>2 DEF MirrorOf
    <3>3. CASE subs[u] = <<>>
      <4>1. \/ Settles(toSync, P, Q)
            \/ Lacks(toSync, P) /\ Settles(down, P, Q)
            \/ Lacks(toSync, P) /\ Lacks(down, P) /\ view[u] = state[u]
        BY <3>1, <3>3 DEF MirrorOf
      <4> HIDE DEF P, Q, m
      <4>2. \/ Settles(toSync', P, Q)
            \/ Lacks(toSync', P) /\ Settles(down', P, Q)
            \/ Lacks(toSync', P) /\ Lacks(down', P) /\ view[u] = state[u]
        <5>1. CASE Settles(toSync, P, Q)
          <6>1. \/ Settles(Tail(toSync), P, Q)
                \/ Lacks(Tail(toSync), P) /\ m \in P /\ m \in Q
            BY <2>2, <5>1, ChainTail DEF m
          <6>2. m \in P /\ m \in Q => Settles(Append(down, m), P, Q)
            BY <2>2, ChainAppend
          <6> QED
            BY <2>1, <6>1, <6>2
        <5>2. CASE Lacks(toSync, P)
          <6>1. m \notin P /\ Lacks(Tail(toSync), P)
            BY <2>2, <5>2, ChainTail DEF m
          <6>2. /\ Lacks(Append(down, m), P) <=> Lacks(down, P)
                /\ Settles(down, P, Q) => Settles(Append(down, m), P, Q)
            BY <2>2, <6>1, ChainAppend
          <6> QED
            BY <2>1, <4>1, <5>2, <6>1, <6>2, ChainExcludes
        <5> QED
          BY <4>1, <5>1, <5>2
      <4> QED
        BY <2>1, <3>3, <4>2 DEF MirrorOf, P, Q
    <3> QED
      BY <3>2, <3>3
  <2> QED
    BY <2>4 DEF MirrorInv
<1>6. ASSUME NEW t \in Topics, ManagerSend(t) PROVE MirrorInv'
  <2> DEFINE m == [Message(t) EXCEPT !.v = Head(subs[t])]
  <2>1. UNCHANGED <<state, toSync, view>> /\ mgr = "loop" /\ link /\ subs[t] # <<>>
        /\ subs' = [subs EXCEPT ![t] = Tail(subs[t])]
        /\ ((t = "clear" /\ down' = down) \/ (t # "clear" /\ down' = Append(down, m)))
    BY <1>6 DEF ManagerSend
  <2>2. Listening /\ toSync = <<>>
    BY <2>1 DEF Listening, Subscribed, Types
  <2>3. subs'[t] = Tail(subs[t]) /\ \A u \in Topics \ {t} : subs'[u] = subs[u]
    BY <2>1 DEF Types
  <2>4. subs[t] \in Seq(Value) /\ Head(subs[t]) \in Value /\ down \in Seq(DownMsg)
    BY <2>1 DEF Types
  <2>5. ASSUME NEW u \in Mirrored \ {"layer"} PROVE MirrorOf(u)'
    <3> DEFINE P == About(u)
               Q == With(state[u])
    <3>1. MirrorOf(u) /\ u \in Topics /\ u # "clear"
      BY <2>2, Names DEF MirrorInv
    <3>2. t # "clear" => t \in Mirrored /\ m \in DownMsg /\ m.t = t /\ m.v = Head(subs[t])
      BY <2>4, Names, DownMsgs
    <3> HIDE DEF m
    <3>3. CASE u # t
      <4>1. subs'[u] = subs[u]
        BY <2>3, <3>1, <3>3
      <4>2. CASE subs[u] # <<>>
        BY <2>1, <3>1, <4>1, <4>2 DEF MirrorOf
      <4>3. CASE subs[u] = <<>>
        <5>1. \/ Settles(toSync, P, Q)
              \/ Lacks(toSync, P) /\ Settles(down, P, Q)
              \/ Lacks(toSync, P) /\ Lacks(down, P) /\ view[u] = state[u]
          BY <3>1, <4>3 DEF MirrorOf
        <5>2. t # "clear" => m \notin P
          BY <3>2, <3>3, Abouts
        <5> HIDE DEF P, Q
        <5>3. t # "clear" => /\ Lacks(Append(down, m), P) <=> Lacks(down, P)
                             /\ Settles(down, P, Q) => Settles(Append(down, m), P, Q)
          BY <2>4, <3>2, <5>2, ChainAppend
        <5>4. \/ Settles(toSync', P, Q)
              \/ Lacks(toSync', P) /\ Settles(down', P, Q)
              \/ Lacks(toSync', P) /\ Lacks(down', P) /\ view[u] = state[u]
          BY <2>1, <5>1, <5>3
        <5> QED
          BY <2>1, <4>1, <4>3, <5>4 DEF MirrorOf, P, Q
      <4> QED
        BY <4>2, <4>3
    <3>4. CASE u = t
      <4>1. subs[t][Len(subs[t])] = state[u]
        BY <2>1, <3>1, <3>4 DEF MirrorOf
      <4>2. CASE Tail(subs[t]) # <<>>
        <5>1. subs'[u] # <<>> /\ subs'[u][Len(subs'[u])] = state[u]
          BY <2>1, <2>3, <2>4, <3>4, <4>1, <4>2
        <5> QED
          BY <2>1, <5>1 DEF MirrorOf
      <4>3. CASE Tail(subs[t]) = <<>>
        <5>1. Head(subs[t]) = state[u]
          <6>1. Head(subs[t]) = subs[t][Len(subs[t])]
            BY <2>1, <2>4, <4>3, ChainOne
          <6> QED
            BY <4>1, <6>1
        <5>2. m \in DownMsg /\ m \in P /\ m \in Q /\ down' = Append(down, m)
          BY <2>1, <3>1, <3>2, <3>4, <5>1, Abouts
        <5> HIDE DEF P, Q
        <5>3. Settles(Append(down, m), P, Q)
          BY <2>4, <5>2, ChainAppend
        <5>4. Lacks(toSync', P)
          BY <2>1, <2>2, ChainEmpty
        <5> QED
          BY <2>1, <2>3, <3>4, <4>3, <5>2, <5>3, <5>4 DEF MirrorOf, P, Q
      <4> QED
        BY <4>2, <4>3
    <3> QED
      BY <3>3, <3>4
  <2> QED
    BY <2>5 DEF MirrorInv
<1>7. ASSUME ManagerStored PROVE MirrorInv'
  <2> DEFINE m == [t |-> "clear", v |-> 0, key |-> NoKey]
  <2>1. UNCHANGED <<state, toSync, subs, view, link>> /\ mgr = "store"
        /\ (down' = down \/ down' = Append(down, m))
    BY <1>7 DEF ManagerStored
  <2>2. m \in DownMsg /\ m.t = "clear" /\ down \in Seq(DownMsg)
    BY DownMsgs DEF Types
  <2> HIDE DEF m
  <2>3. ASSUME Listening', NEW u \in Mirrored \ {"layer"} PROVE MirrorOf(u)'
    <3> DEFINE P == About(u)
               Q == With(state[u])
    <3>1. MirrorOf(u) /\ m \notin P
      BY <2>1, <2>2, <2>3, Abouts, Names DEF MirrorInv, Listening, Subscribed
    <3>2. /\ Lacks(Append(down, m), P) <=> Lacks(down, P)
          /\ Settles(down, P, Q) => Settles(Append(down, m), P, Q)
      <4> HIDE DEF P, Q
      <4> QED
        BY <2>2, <3>1, ChainAppend
    <3> QED
      BY <2>1, <3>1, <3>2 DEF MirrorOf
  <2> QED
    BY <2>3 DEF MirrorInv
<1>8. ASSUME ManagerReads \/ ParamsRequest \/ ParamsNext \/ Stroke \/ KeyPublished \/ BatteryLevel
             \/ BoardSends
      PROVE  MirrorInv'
  <2>1. UNCHANGED <<state, toSync, subs, down, view, link>> /\ (Subscribed' => Subscribed)
    BY <1>8 DEF ManagerReads, ParamsRequest, ParamsNext, Stroke, KeyPublished, BatteryLevel, BoardSends,
                mirrorVars, Subscribed
  <2> QED
    BY <2>1, MirrorKept DEF Listening
<1>9. ASSUME SessionEnds \/ BoardDisconnected \/ LinkUp \/ LinkDown PROVE MirrorInv'
  <2>1. ~ Listening'
    BY <1>9 DEF SessionEnds, BoardDisconnected, LinkUp, LinkDown, Listening, Subscribed
  <2> QED
    BY <2>1 DEF MirrorInv
<1>10. ASSUME BoardReads PROVE MirrorInv'
  <2> DEFINE m == Head(down)
  <2>1. UNCHANGED <<state, toSync, subs, link, mgr>>
        /\ down # <<>> /\ down' = Tail(down)
        /\ \/ m.t = "clear" /\ view' = view
           \/ m.t # "clear" /\ view' = [view EXCEPT ![m.t] = m.v]
    BY <1>10 DEF BoardReads
  <2>2. m \in DownMsg /\ down \in Seq(DownMsg)
    BY <2>1 DEF Types
  <2>3. ASSUME Listening', NEW u \in Mirrored \ {"layer"} PROVE MirrorOf(u)'
    <3> DEFINE P == About(u)
               Q == With(state[u])
    <3>1. MirrorOf(u)
      BY <2>1, <2>3 DEF MirrorInv, Listening, Subscribed
    <3>2. /\ m \in P /\ m \in Q => view'[u] = state[u]
          /\ m \notin P => view'[u] = view[u]
      <4>1. (m \in P <=> m.t = u) /\ (m \in Q <=> m.v = state[u])
        BY <2>2, Abouts
      <4>2. view \in [Mirrored -> Value] /\ m.t \in Topics /\ u # "clear"
        BY <2>2, Names DEF Types, DownMsg
      <4>3. m.t # "clear" => m.t \in Mirrored
        BY <4>2, Names
      <4> HIDE DEF P, Q, m
      <4> QED
        BY <2>1, <4>1, <4>2, <4>3
    <3>3. /\ m \notin P => (Lacks(Tail(down), P) <=> Lacks(down, P))
          /\ Lacks(down, P) => m \notin P /\ Lacks(Tail(down), P)
          /\ Settles(down, P, Q) => \/ Settles(Tail(down), P, Q)
                                    \/ Lacks(Tail(down), P) /\ m \in P /\ m \in Q
      <4> HIDE DEF P, Q
      <4> QED
        BY <2>1, <2>2, ChainTail
    <3> HIDE DEF m
    <3> QED
      BY <2>1, <3>1, <3>2, <3>3 DEF MirrorOf
  <2> QED
    BY <2>3 DEF MirrorInv
<1> QED
  BY <1>1, <1>2, <1>3, <1>4, <1>5, <1>6, <1>7, <1>8, <1>9, <1>10 DEF Next

-----------------------------------------------------------------------------
(* The board's keys.                                                       *)

LEMMA KeyKept ==
    ASSUME KeyInv, UNCHANGED <<keys, blocked, keySub, up, keymap>>, lost'.keys = lost.keys
    PROVE  KeyInv'
BY DEF KeyInv, QueuedKey, SentKey, Waits

\* What the two kinds of message say about a key.
LEMMA Keyed ==
    /\ \A e \in KeyEvent : \A k, b : (e \in Of(k) <=> e.key = k) /\ (e \in Pressed(b) <=> e.pressed = b)
    /\ \A m \in UpMsg : \A k, b : /\ m \in UpOf(k) <=> m.t = "key" /\ m.key.key = k
                                  /\ m \in UpPressed(b) <=> m.key.pressed = b
BY DEF Of, Pressed, UpOf, UpPressed

LEMMA PressedKept ==
    ASSUME NEW k, (k \in keys') <=> (k \in keys)
    PROVE  Pressed(k \in keys') = Pressed(k \in keys) /\ UpPressed(k \in keys') = UpPressed(k \in keys)
BY DEF Pressed, UpPressed

\* A battery level on the way says nothing about the keys.
LEMMA BatteryNotice ==
    ASSUME Types, KeyInv, NEW v \in Value, Notify(Level(v)) \/ up' = up,
           UNCHANGED <<keys, blocked, keySub, keymap>>, lost'.keys = lost.keys
    PROVE  KeyInv'
<1>1. CASE up' = up
  BY <1>1, KeyKept
<1>2. CASE up' = Append(up, Level(v))
  <2>1. Level(v) \in UpMsg /\ Level(v).t = "battery" /\ up \in Seq(UpMsg)
    BY DownMsgs DEF Types
  <2>2. ASSUME NEW k \in 0 .. Size - 1 PROVE QueuedKey(k)' /\ SentKey(k)'
    <3> DEFINE m == Level(v)
               P == UpOf(k)
               Q == UpPressed(k \in keys)
    <3>1. m \notin P
      BY <2>1, Keyed
    <3>2. (Lacks(up', P) <=> Lacks(up, P)) /\ (Settles(up, P, Q) => Settles(up', P, Q))
      <4> HIDE DEF m, P, Q
      <4> QED
        BY <1>2, <2>1, <3>1, ChainAppend DEF m
    <3> QED
      BY <3>2 DEF KeyInv, QueuedKey, SentKey, Waits
  <2> QED
    BY <2>2 DEF KeyInv
<1> QED
  BY <1>1, <1>2 DEF Notify

LEMMA StrokeKeys ==
    ASSUME SSInv, Stroke
    PROVE  KeyInv'
<1> USE DEF SSInv
<1>1. UNCHANGED <<up, board, keySub, keymap>> /\ ~ blocked.some
  BY DEF Stroke
<1>2. PICK s \in left.keys :
        /\ keys' = IF s \in keys THEN keys \ {s} ELSE keys \union {s}
        /\ IF board
             THEN /\ blocked' = [key |-> s, pressed |-> s \in keys', some |-> TRUE]
                  /\ UNCHANGED lost
             ELSE /\ lost' = [lost EXCEPT !.keys = lost.keys \union {s}] /\ UNCHANGED blocked
  BY DEF Stroke
<1>3. ASSUME NEW k \in 0 .. Size - 1 PROVE QueuedKey(k)' /\ SentKey(k)'
  <2>1. QueuedKey(k) /\ SentKey(k) /\ ~ Waits(k)
    BY <1>1 DEF KeyInv, Waits
  <2>2. CASE k # s
    <3>1. (k \in keys') <=> (k \in keys)
      BY <1>2, <2>2
    <3>2. ~ Waits(k)'
      BY <1>1, <1>2, <2>2 DEF Waits
    <3>3. k \in lost.keys => k \in lost'.keys
      BY <1>2 DEF Types
    <3> QED
      BY <1>1, <2>1, <3>1, <3>2, <3>3, PressedKept DEF QueuedKey, SentKey
  <2>3. CASE k = s /\ board
    <3> DEFINE b == s \in keys'
    <3>1. blocked' = [key |-> s, pressed |-> b, some |-> TRUE]
      BY <1>2, <2>3
    <3>2. Waits(k)' /\ blocked'.pressed = b
      <4> HIDE DEF b
      <4> QED
        BY <2>3, <3>1 DEF Waits
    <3> QED
      BY <2>3, <3>2 DEF QueuedKey, SentKey
  <2>4. CASE k = s /\ ~ board
    <3>1. k \in lost'.keys
      <4>1. lost' = [lost EXCEPT !.keys = lost.keys \union {s}]
        BY <1>2, <2>4
      <4> QED
        BY <2>4, <4>1 DEF Types
    <3>2. keySub' = <<>> /\ ~ Waits(k)'
      <4>1. keySub = <<>> /\ ~ blocked.some
        BY <2>4 DEF SessionInv
      <4>2. blocked' = blocked
        BY <1>2, <2>4
      <4> QED
        BY <1>1, <4>1, <4>2 DEF Waits
    <3>3. Lacks(keySub', Of(k))
      BY <3>2, ChainEmpty
    <3> QED
      BY <3>1, <3>2, <3>3 DEF QueuedKey, SentKey
  <2> QED
    BY <2>2, <2>3, <2>4
<1> QED
  BY <1>3 DEF KeyInv

LEMMA PublishedKeys ==
    ASSUME SSInv, KeyPublished
    PROVE  KeyInv'
<1> USE DEF SSInv
<1>1. /\ UNCHANGED <<up, keys, keymap, lost>> /\ blocked.some
      /\ keySub' = Append(keySub, blocked) /\ blocked' = NoKey
  BY DEF KeyPublished
<1>2. blocked \in KeyEvent /\ keySub \in Seq(KeyEvent) /\ ~ blocked'.some
  BY <1>1, Names DEF Types
<1>3. ASSUME NEW k \in 0 .. Size - 1 PROVE QueuedKey(k)' /\ SentKey(k)'
  <2> DEFINE P == Of(k)
             Q == Pressed(k \in keys)
  <2>1. QueuedKey(k) /\ SentKey(k) /\ ~ Waits(k)'
    BY <1>2 DEF KeyInv, Waits
  <2>2. (blocked \in P <=> Waits(k)) /\ (blocked \in Q <=> blocked.pressed = (k \in keys))
    BY <1>1, <1>2, Keyed DEF Waits
  <2>3. CASE Waits(k)
    <3>1. blocked \in P /\ blocked \in Q
      BY <2>1, <2>2, <2>3 DEF QueuedKey
    <3>2. Settles(keySub', P, Q) /\ ~ Lacks(keySub', P)
      <4> HIDE DEF P, Q
      <4> QED
        BY <1>1, <1>2, <3>1, ChainAppend
    <3> QED
      BY <1>1, <2>1, <3>2 DEF QueuedKey, SentKey
  <2>4. CASE ~ Waits(k)
    <3>1. (Lacks(keySub', P) <=> Lacks(keySub, P)) /\ (Settles(keySub, P, Q) => Settles(keySub', P, Q))
      <4> HIDE DEF P, Q
      <4> QED
        BY <1>1, <1>2, <2>2, <2>4, ChainAppend
    <3> QED
      BY <1>1, <2>1, <2>4, <3>1 DEF QueuedKey, SentKey
  <2> QED
    BY <2>3, <2>4
<1> QED
  BY <1>3 DEF KeyInv

LEMMA SentKeys ==
    ASSUME SSInv, BoardSends
    PROVE  KeyInv'
<1> USE DEF SSInv
<1>1. UNCHANGED <<keys, blocked, keymap>>
  BY DEF BoardSends
<1>2. CASE /\ keySub = <<>> /\ batSub # <<>> /\ UNCHANGED <<keySub, lost>>
           /\ Notify(Level(Head(batSub)))
  <2>1. Head(batSub) \in Value
    BY <1>2 DEF Types
  <2> QED
    BY <1>1, <1>2, <2>1, BatteryNotice
<1>3. CASE /\ keySub # <<>> /\ keySub' = Tail(keySub)
           /\ Notify([t |-> "key", v |-> 0, key |-> Head(keySub)])
           /\ lost' = [lost EXCEPT !.keys = IF Listening THEN lost.keys \ {Head(keySub).key}
                                            ELSE lost.keys \union {Head(keySub).key}]
  <2> DEFINE e == Head(keySub)
             m == [t |-> "key", v |-> 0, key |-> e]
  <2>1. e \in KeyEvent /\ keySub \in Seq(KeyEvent) /\ up \in Seq(UpMsg)
    BY <1>3 DEF Types
  <2>2. m \in UpMsg /\ m.t = "key" /\ m.key = e
    BY <2>1, DownMsgs
  <2>3. up' = IF Listening THEN Append(up, m) ELSE up
    BY <1>3 DEF Notify
  <2>4. lost'.keys = IF Listening THEN lost.keys \ {e.key} ELSE lost.keys \union {e.key}
    BY <1>3 DEF Types
  <2>5. keySub # <<>> /\ keySub' = Tail(keySub)
    BY <1>3
  <2> HIDE DEF m
  <2>6. ASSUME NEW k \in 0 .. Size - 1 PROVE QueuedKey(k)' /\ SentKey(k)'
    <3> DEFINE P == Of(k)
               Q == Pressed(k \in keys)
               R == UpOf(k)
               S == UpPressed(k \in keys)
    <3>1. QueuedKey(k) /\ SentKey(k) /\ (Waits(k)' <=> Waits(k))
      BY <1>1 DEF KeyInv, Waits
    <3>2. /\ e \in P <=> e.key = k
          /\ m \in R <=> e.key = k
          /\ e \in Q <=> m \in S
      <4>1. (e \in P <=> e.key = k) /\ (e \in Q <=> e.pressed = (k \in keys))
        BY <2>1, Keyed
      <4>2. (m \in R <=> m.t = "key" /\ m.key.key = k) /\ (m \in S <=> m.key.pressed = (k \in keys))
        BY <2>2, Keyed
      <4> HIDE DEF P, Q, R, S, e
      <4> QED
        BY <2>2, <4>1, <4>2
    <3>3. /\ e \notin P => (Lacks(keySub', P) <=> Lacks(keySub, P))
          /\ Lacks(keySub, P) => e \notin P /\ Lacks(keySub', P)
          /\ Settles(keySub, P, Q) => \/ Settles(keySub', P, Q)
                                      \/ Lacks(keySub', P) /\ e \in P /\ e \in Q
          /\ Settles(keySub', P, Q) => ~ Lacks(keySub', P)
      <4> HIDE DEF P, Q
      <4> QED
        BY <2>1, <2>5, ChainTail
    <3>4. QueuedKey(k)'
      BY <1>1, <3>1, <3>3 DEF QueuedKey
    <3>5. SentKey(k)'
      <4>1. CASE e.key # k
        <5>1. k \in lost.keys => k \in lost'.keys
          BY <2>4, <4>1
        <5>2. (Lacks(up', R) <=> Lacks(up, R)) /\ (Settles(up, R, S) => Settles(up', R, S))
          <6> HIDE DEF R, S
          <6> QED
            BY <2>1, <2>2, <2>3, <3>2, <4>1, ChainAppend
        <5>3. Lacks(keySub', P) <=> Lacks(keySub, P)
          BY <3>2, <3>3, <4>1
        <5> QED
          BY <1>1, <3>1, <5>1, <5>2, <5>3 DEF SentKey
      <4>2. CASE e.key = k /\ ~ Listening
        <5>1. k \in lost'.keys
          BY <2>4, <4>2
        <5> QED
          BY <5>1 DEF SentKey
      <4>3. CASE e.key = k /\ Listening
        <5>1. Waits(k) \/ Settles(keySub, P, Q)
          BY <3>1, <3>2, <3>3, <4>3 DEF QueuedKey
        <5>2. m \in S => Settles(up', R, S)
          <6> HIDE DEF R, S
          <6> QED
            BY <2>1, <2>2, <2>3, <3>2, <4>3, ChainAppend
        <5> QED
          BY <1>1, <3>1, <3>2, <3>3, <5>1, <5>2 DEF SentKey
      <4> QED
        BY <4>1, <4>2, <4>3
    <3> QED
      BY <3>4, <3>5
  <2> QED
    BY <2>6 DEF KeyInv
<1> QED
  BY <1>2, <1>3 DEF BoardSends

LEMMA ReadKeys ==
    ASSUME SSInv, ManagerReads
    PROVE  KeyInv'
<1> USE DEF SSInv
<1> DEFINE m == Head(up)
<1>1. UNCHANGED <<keys, blocked, keySub, lost>> /\ up # <<>> /\ up' = Tail(up)
  BY DEF ManagerReads
<1>2. /\ m.t = "key" /\ m.key.pressed => keymap' = keymap \union KeyPlace(m.key.key)
      /\ m.t = "key" /\ ~ m.key.pressed => keymap' = keymap \ KeyPlace(m.key.key)
      /\ m.t # "key" => keymap' = keymap
  BY DEF ManagerReads
<1>3. m \in UpMsg /\ up \in Seq(UpMsg)
  BY <1>1 DEF Types
<1>4. m.key.key \in Nat /\ m.key.pressed \in BOOLEAN
  BY <1>3, SessionSizes DEF UpMsg, KeyEvent, Keys
<1>5. ASSUME NEW k \in 0 .. Size - 1 PROVE QueuedKey(k)' /\ SentKey(k)'
  <2> DEFINE P == UpOf(k)
             Q == UpPressed(k \in keys)
  <2>1. QueuedKey(k) /\ SentKey(k)
    BY DEF KeyInv
  <2>2. QueuedKey(k)'
    BY <1>1, <2>1 DEF QueuedKey, Waits
  <2>3. m \notin P => (Offset + k \in keymap' <=> Offset + k \in keymap)
    <3>1. m \notin P => m.t # "key" \/ m.key.key # k
      <4>1. m \in P <=> m.t = "key" /\ m.key.key = k
        BY <1>3, Keyed
      <4> HIDE DEF P, m
      <4> QED
        BY <4>1
    <3>2. m.key.key # k => Offset + k \notin KeyPlace(m.key.key)
      <4> DEFINE n == m.key.key
      <4>1. n \in Nat
        BY <1>4
      <4> HIDE DEF n
      <4>2. n # k => Offset + k \notin KeyPlace(n)
        BY <4>1, SessionSizes DEF KeyPlace
      <4> QED
        BY <4>2 DEF n
    <3> HIDE DEF m, P
    <3> QED
      BY <1>2, <1>4, <3>1, <3>2
  <2>4. m \in P /\ m \in Q => (k \in keys <=> Offset + k \in keymap')
    <3>1. m \in P /\ m \in Q => m.t = "key" /\ m.key.key = k /\ m.key.pressed = (k \in keys)
      BY <1>3, Keyed
    <3>2. KeyPlace(k) = {Offset + k}
      BY SessionSizes DEF KeyPlace
    <3> HIDE DEF m, P, Q
    <3> QED
      BY <1>2, <1>4, <3>1, <3>2
  <2>5. /\ m \notin P => (Lacks(up', P) <=> Lacks(up, P))
        /\ Lacks(up, P) => m \notin P /\ Lacks(up', P)
        /\ Settles(up, P, Q) => Settles(up', P, Q) \/ (Lacks(up', P) /\ m \in P /\ m \in Q)
    <3> HIDE DEF P, Q
    <3> QED
      BY <1>1, <1>3, ChainTail
  <2>6. SentKey(k)'
    <3> HIDE DEF m
    <3> QED
      BY <1>1, <2>1, <2>3, <2>4, <2>5 DEF SentKey, Waits
  <2> QED
    BY <2>2, <2>6
<1> QED
  BY <1>5 DEF KeyInv

LEMMA CutKeys ==
    ASSUME SSInv, BoardDisconnected \/ LinkDown
    PROVE  KeyInv'
<1> USE DEF SSInv
<1>1. CASE BoardDisconnected
  <2>1. UNCHANGED <<keys, up, keymap>> /\ keySub' = <<>> /\ blocked' = NoKey
    BY <1>1 DEF BoardDisconnected
  <2>2. lost'.keys = lost.keys \union {keySub[i].key : i \in DOMAIN keySub}
                       \union (IF blocked.some THEN {blocked.key} ELSE {})
    BY <1>1 DEF BoardDisconnected, Types
  <2>3. keySub \in Seq(KeyEvent)
    BY DEF Types
  <2>4. ASSUME NEW k \in 0 .. Size - 1 PROVE QueuedKey(k)' /\ SentKey(k)'
    <3>1. SentKey(k)
      BY DEF KeyInv
    <3>2. ~ Waits(k)' /\ Lacks(keySub', Of(k))
      BY <2>1, Names, ChainEmpty DEF Waits
    <3>3. k \in lost.keys \/ Waits(k) => k \in lost'.keys
      BY <2>2 DEF Waits
    <3>4. ~ Lacks(keySub, Of(k)) => k \in lost'.keys
      <4>1. ASSUME NEW i \in 1 .. Len(keySub), keySub[i] \in Of(k) PROVE k \in lost'.keys
        <5>1. i \in DOMAIN keySub /\ keySub[i].key = k
          BY <2>3, <4>1 DEF Of
        <5> QED
          BY <2>2, <5>1
      <4> QED
        BY <4>1 DEF Lacks
    <3> QED
      BY <2>1, <3>1, <3>2, <3>3, <3>4 DEF QueuedKey, SentKey
  <2> QED
    BY <2>4 DEF KeyInv
<1>2. CASE LinkDown
  <2>1. UNCHANGED <<keys, blocked, keySub, keymap>> /\ up' = <<>>
    BY <1>2 DEF LinkDown, keyVars
  <2>2. lost'.keys = lost.keys \union {up[i].key.key : i \in {j \in DOMAIN up : up[j].t = "key"}}
    BY <1>2 DEF LinkDown, Types
  <2>3. up \in Seq(UpMsg)
    BY DEF Types
  <2>4. ASSUME NEW k \in 0 .. Size - 1 PROVE QueuedKey(k)' /\ SentKey(k)'
    <3>1. QueuedKey(k) /\ SentKey(k)
      BY DEF KeyInv
    <3>2. Lacks(up', UpOf(k))
      BY <2>1, ChainEmpty
    <3>3. k \in lost.keys => k \in lost'.keys
      BY <2>2
    <3>4. Settles(up, UpOf(k), UpPressed(k \in keys)) => k \in lost'.keys
      <4>1. ASSUME NEW i \in 1 .. Len(up), up[i] \in UpOf(k) PROVE k \in lost'.keys
        <5>1. i \in DOMAIN up /\ up[i].t = "key" /\ up[i].key.key = k
          BY <2>3, <4>1 DEF UpOf
        <5> QED
          BY <2>2, <5>1
      <4> QED
        BY <4>1 DEF Settles
    <3> QED
      BY <2>1, <3>1, <3>2, <3>3, <3>4 DEF QueuedKey, SentKey, Waits
  <2> QED
    BY <2>4 DEF KeyInv
<1> QED
  BY <1>1, <1>2

LEMMA KeyStep ==
    ASSUME SSInv, Next
    PROVE  KeyInv'
<1> USE DEF SSInv
<1>1. ASSUME \/ Change \/ Activity \/ ClearPeerKey \/ ManagerStart \/ ManagerSync
             \/ (\E t \in Topics : ManagerSend(t)) \/ ManagerStored \/ SessionEnds
             \/ ParamsRequest \/ ParamsNext \/ BatteryLevel \/ LinkUp
      PROVE  KeyInv'
  <2>1. UNCHANGED <<keys, blocked, keySub, up, keymap>>
    BY <1>1 DEF Change, Activity, ClearPeerKey, ManagerStart, ManagerSync, ManagerSend, ManagerStored,
                SessionEnds, ParamsRequest, ParamsNext, BatteryLevel, LinkUp, keyVars
  <2>2. lost'.keys = lost.keys
    <3>1. \/ lost' = lost
          \/ lost' = [lost EXCEPT !.clear = lost.clear \/ ~ link]
          \/ lost' = [lost EXCEPT !.params = TRUE]
          \/ lost' = [lost EXCEPT !.params = FALSE]
      BY <1>1 DEF Change, Activity, ClearPeerKey, ManagerStart, ManagerSync, ManagerSend, ManagerStored,
                  SessionEnds, ParamsRequest, ParamsNext, BatteryLevel, LinkUp
    <3> QED
      BY <3>1 DEF Types
  <2> QED
    BY <2>1, <2>2, KeyKept
<1>2. ASSUME BoardReads PROVE KeyInv'
  <2>1. UNCHANGED <<keys, blocked, keySub, keymap, lost>> /\ (Notify(Level(battery)) \/ up' = up)
    BY <1>2 DEF BoardReads, keyVars
  <2> QED
    BY <2>1, BatteryNotice DEF Types
<1> QED
  BY <1>1, <1>2, StrokeKeys, PublishedKeys, SentKeys, ReadKeys, CutKeys DEF Next

-----------------------------------------------------------------------------
(* The battery.                                                            *)

LEMMA BatteryAbouts ==
    /\ \A m \in UpMsg : /\ m \in BatteryMsg <=> m.t = "battery"
                        /\ \A v : m \in LevelIs(v) <=> m.v = v
    /\ \A m \in DownMsg : \A t : m \in About(t) <=> m.t = t
BY DEF BatteryMsg, LevelIs, About

\* What keeps the battery level on its way, or known.
LEMMA BatteryKept ==
    ASSUME BatteryInv, UNCHANGED <<battery, batSub, batView, up>>,
           Listening' => Listening /\ (WillAnswer => WillAnswer')
    PROVE  BatteryInv'
BY DEF BatteryInv

LEMMA BatterySet ==
    ASSUME Types, BatteryInv, NEW t \in Topics, NEW v \in Value, subs' = Publish(t, v),
           UNCHANGED <<toSync, down, link, mgr, battery, batSub, batView, up>>
    PROVE  BatteryInv'
<1>1. (Listening' <=> Listening) /\ (Listening => Subscribed)
  BY DEF Listening, Subscribed
<1>2. "status" \in Topics
  BY Names
<1>3. Listening => (subs["status"] # <<>> => subs'["status"] # <<>>)
  BY <1>1, <1>2, PublishTypes
<1> QED
  BY <1>1, <1>3, BatteryKept DEF WillAnswer

LEMMA BatteryStep ==
    ASSUME SSInv, Next
    PROVE  BatteryInv'
<1> USE DEF SSInv
<1>1. ASSUME Change \/ Activity \/ ClearPeerKey PROVE BatteryInv'
  <2>1. UNCHANGED <<toSync, down, link, mgr, battery, batSub, batView, up>>
    BY <1>1 DEF Change, Activity, ClearPeerKey, batteryVars
  <2>2. (subs' = subs) \/ \E t \in Topics, v \in Value : subs' = Publish(t, v)
    <3>1. CASE Change
      <4>1. left.topics \subseteq Mirrored
        BY DEF Types, Scenario, Mirrored
      <4>2. PICK t \in Mirrored : SetState(t, 1 - state[t])
        BY <3>1, <4>1 DEF Change
      <4>3. subs' = Publish(t, 1 - state[t]) /\ t \in Topics /\ 1 - state[t] \in Value
        BY <4>2, Names DEF SetState, Types
      <4> QED
        BY <4>3
    <3>2. CASE Activity
      BY <3>2, Names DEF Activity, SetState
    <3>3. CASE ClearPeerKey
      BY <3>3, Names DEF ClearPeerKey
    <3> QED
      BY <1>1, <3>1, <3>2, <3>3
  <2>3. CASE subs' = subs
    BY <2>1, <2>3, BatteryKept DEF Listening, Subscribed, WillAnswer
  <2>4. CASE \E t \in Topics, v \in Value : subs' = Publish(t, v)
    BY <2>1, <2>4, BatterySet
  <2> QED
    BY <2>2, <2>3, <2>4
<1>2. ASSUME ManagerStart PROVE BatteryInv'
  <2>1. UNCHANGED <<battery, batSub>>
        /\ toSync' = <<Message("status"), Message("led"), Message("sleep")>>
    BY <1>2 DEF ManagerStart, batteryVars
  <2>2. Message("status") \in About("status")
    BY DownMsgs, Names, BatteryAbouts
  <2>3. 1 \in 1 .. Len(toSync') /\ toSync'[1] = Message("status")
    BY <2>1
  <2>4. WillAnswer'
    BY <2>2, <2>3 DEF WillAnswer, Lacks
  <2> QED
    BY <2>1, <2>4 DEF BatteryInv
<1>3. ASSUME ManagerSync PROVE BatteryInv'
  <2> DEFINE m == Head(toSync)
             P == About("status")
  <2>1. UNCHANGED <<subs, link, battery, batSub, batView, up>> /\ mgr = "sync" /\ link
        /\ down' = Append(down, m) /\ toSync' = Tail(toSync)
    BY <1>3 DEF ManagerSync, batteryVars
  <2>2. toSync # <<>> /\ toSync \in Seq(DownMsg) /\ m \in DownMsg /\ down \in Seq(DownMsg)
    BY <2>1 DEF Types
  <2>3. ~ Lacks(toSync, P) => ~ Lacks(toSync', P) \/ m \in P
    <3> HIDE DEF P
    <3> QED
      BY <2>1, <2>2, ChainTail
  <2>4. (m \in P \/ ~ Lacks(down, P)) => ~ Lacks(down', P)
    <3> HIDE DEF P, m
    <3> QED
      BY <2>1, <2>2, ChainAppend
  <2>5. WillAnswer => WillAnswer'
    <3> HIDE DEF m
    <3> QED
      BY <2>1, <2>3, <2>4 DEF WillAnswer
  <2>6. Listening
    BY <2>1 DEF Listening, Subscribed
  <2> QED
    BY <2>1, <2>5, <2>6, BatteryKept
<1>4. ASSUME NEW t \in Topics, ManagerSend(t) PROVE BatteryInv'
  <2> DEFINE m == [Message(t) EXCEPT !.v = Head(subs[t])]
             P == About("status")
  <2>1. UNCHANGED <<toSync, battery, batSub, batView, up>> /\ mgr = "loop" /\ link /\ subs[t] # <<>>
        /\ subs' = [subs EXCEPT ![t] = Tail(subs[t])]
        /\ ((t = "clear" /\ down' = down) \/ (t # "clear" /\ down' = Append(down, m)))
    BY <1>4 DEF ManagerSend, batteryVars
  <2>2. Listening
    BY <2>1 DEF Listening, Subscribed
  <2>3. \A u \in Topics \ {t} : subs'[u] = subs[u]
    BY <2>1 DEF Types
  <2>4. Head(subs[t]) \in Value /\ down \in Seq(DownMsg) /\ "status" \in Topics
    <3>1. subs[t] \in Seq(Value) /\ down \in Seq(DownMsg)
      BY DEF Types
    <3> QED
      BY <2>1, <3>1, Names
  <2>5. t # "clear" => t \in Mirrored /\ m \in DownMsg /\ m.t = t
    BY <2>4, Names, DownMsgs
  <2>6. t = "status" => m \in P
    BY <2>5, BatteryAbouts
  <2> HIDE DEF m
  <2>7. (~ Lacks(down, P) => ~ Lacks(down', P)) /\ (t = "status" => ~ Lacks(down', P))
    <3> HIDE DEF P
    <3>1. CASE t = "clear"
      BY <2>1, <3>1
    <3>2. CASE t # "clear"
      <4>1. m \in DownMsg /\ down' = Append(down, m)
        BY <2>1, <2>5, <3>2
      <4>2. (m \notin P => (Lacks(down', P) <=> Lacks(down, P))) /\ (m \in P => ~ Lacks(down', P))
        BY <2>4, <4>1, ChainAppend
      <4> QED
        BY <2>6, <4>2
    <3> QED
      BY <3>1, <3>2
  <2>9. t # "status" => subs'["status"] = subs["status"]
    BY <2>3, <2>4
  <2>10. WillAnswer => WillAnswer'
    BY <2>1, <2>7, <2>9 DEF WillAnswer
  <2> QED
    BY <2>1, <2>2, <2>10, BatteryKept
<1>5. ASSUME ManagerStored PROVE BatteryInv'
  <2> DEFINE m == [t |-> "clear", v |-> 0, key |-> NoKey]
             P == About("status")
  <2>1. UNCHANGED <<toSync, subs, link, battery, batSub, batView, up>> /\ mgr = "store"
        /\ (down' = down \/ down' = Append(down, m))
    BY <1>5 DEF ManagerStored, batteryVars
  <2>2. m \in DownMsg /\ down \in Seq(DownMsg)
    BY DownMsgs DEF Types
  <2>3. ~ Lacks(down, P) => ~ Lacks(down', P)
    <3> HIDE DEF P, m
    <3> QED
      BY <2>1, <2>2, ChainAppend
  <2>4. WillAnswer => WillAnswer'
    <3> HIDE DEF m
    <3> QED
      BY <2>1, <2>3 DEF WillAnswer
  <2>5. Listening' => Listening
    BY <2>1 DEF Listening, Subscribed
  <2> QED
    BY <2>1, <2>4, <2>5, BatteryKept
<1>6. ASSUME ManagerReads PROVE BatteryInv'
  <2> DEFINE m == Head(up)
             P == BatteryMsg
             Q == LevelIs(battery)
  <2>1. UNCHANGED <<toSync, subs, down, link, battery, batSub>> /\ mgr \in {"loop", "store"} /\ link
        /\ up # <<>> /\ up' = Tail(up)
        /\ (m.t = "key" => batView' = batView) /\ (m.t # "key" => batView' = m.v)
    BY <1>6 DEF ManagerReads
  <2>2. m \in UpMsg /\ up \in Seq(UpMsg)
    BY <2>1 DEF Types
  <2>3. (m \in P <=> m.t = "battery") /\ (m \in Q <=> m.v = battery) /\ m.t \in {"key", "battery"}
    BY <2>2, BatteryAbouts DEF UpMsg
  <2>4. /\ m \notin P => (Lacks(up', P) <=> Lacks(up, P))
        /\ Lacks(up, P) => m \notin P /\ Lacks(up', P)
        /\ Settles(up, P, Q) => Settles(up', P, Q) \/ (Lacks(up', P) /\ m \in P /\ m \in Q)
    <3> HIDE DEF P, Q
    <3> QED
      BY <2>1, <2>2, ChainTail
  <2>5. Listening /\ (WillAnswer' <=> WillAnswer)
    BY <2>1 DEF Listening, Subscribed, WillAnswer
  <2> HIDE DEF m
  <2> QED
    BY <2>1, <2>3, <2>4, <2>5 DEF BatteryInv
<1>7. ASSUME SessionEnds \/ LinkUp \/ LinkDown PROVE BatteryInv'
  <2>1. UNCHANGED <<battery, batSub>> /\ ~ Listening'
    BY <1>7 DEF SessionEnds, LinkUp, LinkDown, Listening, Subscribed, batteryVars
  <2> QED
    BY <2>1 DEF BatteryInv
<1>8. ASSUME BoardDisconnected PROVE BatteryInv'
  <2>1. batSub' = <<>> /\ ~ Listening'
    BY <1>8 DEF BoardDisconnected, Listening
  <2> QED
    BY <2>1 DEF BatteryInv
<1>9. ASSUME ParamsRequest \/ ParamsNext \/ Stroke \/ KeyPublished PROVE BatteryInv'
  <2>1. UNCHANGED <<mgr, link, toSync, subs, down, up, battery, batSub, batView>>
    BY <1>9 DEF ParamsRequest, ParamsNext, Stroke, KeyPublished, mirrorVars, batteryVars
  <2> QED
    BY <2>1, BatteryKept DEF Listening, Subscribed, WillAnswer
<1>10. ASSUME BatteryLevel PROVE BatteryInv'
  <2>1. UNCHANGED <<mgr, link, board>> /\ battery' = 1 - battery
        /\ batSub' = IF board THEN Published(batSub, battery', 1) ELSE batSub
    BY <1>10 DEF BatteryLevel
  <2>2. battery' \in Value
    BY <2>1, Names DEF Types
  <2>3. CASE board
    <3> DEFINE q == Published(batSub, battery', 1)
    <3>1. q # <<>> /\ q[Len(q)] = battery' /\ Len(q) <= 1 /\ Len(q) \in Nat \ {0}
      BY <2>2, PublishedTypes DEF Types
    <3>2. batSub' = q
      BY <2>1, <2>3
    <3> HIDE DEF q
    <3>3. Len(q) = 1
      <4> DEFINE n == Len(q)
      <4>1. n <= 1 /\ n \in Nat \ {0}
        BY <3>1
      <4> HIDE DEF n
      <4>2. n = 1
        BY <4>1
      <4> QED
        BY <4>2 DEF n
    <3> QED
      BY <3>1, <3>2, <3>3 DEF BatteryInv
  <2>4. CASE ~ board
    <3>1. batSub' = <<>> /\ ~ Listening'
      BY <2>1, <2>4 DEF SessionInv, Listening
    <3> QED
      BY <3>1 DEF BatteryInv
  <2> QED
    BY <2>3, <2>4
<1>11. ASSUME BoardSends PROVE BatteryInv'
  <2>1. UNCHANGED <<mgr, link, toSync, subs, down, battery, batView>>
    BY <1>11 DEF BoardSends, mirrorVars
  <2>2. (Listening' <=> Listening) /\ (WillAnswer' <=> WillAnswer) /\ up \in Seq(UpMsg)
    BY <2>1 DEF Listening, Subscribed, WillAnswer, Types
  <2>3. CASE /\ keySub # <<>> /\ batSub' = batSub
             /\ Notify([t |-> "key", v |-> 0, key |-> Head(keySub)])
    <3> DEFINE m == [t |-> "key", v |-> 0, key |-> Head(keySub)]
               P == BatteryMsg
               Q == LevelIs(battery)
    <3>1. m \in UpMsg /\ m.t = "key"
      BY <2>3, DownMsgs DEF Types
    <3>2. m \notin P
      BY <3>1, BatteryAbouts
    <3>3. Listening => up' = Append(up, m)
      BY <2>3 DEF Notify
    <3> HIDE DEF m
    <3>4. ASSUME Listening
          PROVE  (Lacks(up', P) <=> Lacks(up, P)) /\ (Settles(up, P, Q) => Settles(up', P, Q))
      <4> HIDE DEF P, Q
      <4>1. up' = Append(up, m)
        BY <3>3, <3>4
      <4> QED
        BY <2>2, <3>1, <3>2, <4>1, ChainAppend
    <3> QED
      BY <2>1, <2>2, <2>3, <3>4 DEF BatteryInv
  <2>4. CASE /\ batSub # <<>> /\ batSub' = Tail(batSub) /\ Notify(Level(Head(batSub)))
    <3>1. batSub \in Seq(Value) /\ Len(batSub) <= 1
      BY DEF Types
    <3>2. Head(batSub) = battery /\ batSub' = <<>>
      <4>1. Head(batSub) = batSub[1] /\ Tail(batSub) = <<>>
        BY <2>4, <3>1, ChainOne
      <4> QED
        BY <2>4, <4>1 DEF BatteryInv
    <3> DEFINE m == Level(battery)
               P == BatteryMsg
               Q == LevelIs(battery)
    <3>3. m \in UpMsg /\ m \in P /\ m \in Q
      BY DownMsgs, BatteryAbouts DEF Types
    <3>4. Listening => up' = Append(up, m)
      BY <2>4, <3>2 DEF Notify
    <3>5. ASSUME Listening PROVE Settles(up', P, Q)
      <4> HIDE DEF m, P, Q
      <4>1. up' = Append(up, m)
        BY <3>4, <3>5
      <4> QED
        BY <2>2, <3>3, <4>1, ChainAppend
    <3> QED
      BY <2>1, <2>2, <3>2, <3>5 DEF BatteryInv
  <2> QED
    BY <1>11, <2>3, <2>4 DEF BoardSends
<1>12. ASSUME BoardReads PROVE BatteryInv'
  <2> DEFINE d == Head(down)
             D == About("status")
             m == Level(battery)
             P == BatteryMsg
             Q == LevelIs(battery)
  <2>1. UNCHANGED <<mgr, link, toSync, subs, battery, batSub, batView>>
        /\ down # <<>> /\ down' = Tail(down)
        /\ IF d.t = "status" THEN Notify(m) ELSE up' = up
    BY <1>12 DEF BoardReads, batteryVars
  <2>2. (Listening' <=> Listening) /\ up \in Seq(UpMsg) /\ d \in DownMsg /\ down \in Seq(DownMsg)
    BY <2>1 DEF Listening, Subscribed, Types
  <2>3. CASE d.t = "status"
    <3>1. m \in UpMsg /\ m \in P /\ m \in Q
      BY DownMsgs, BatteryAbouts DEF Types
    <3>2. Listening => up' = Append(up, m)
      BY <2>1, <2>3 DEF Notify
    <3>3. ASSUME Listening PROVE Settles(up', P, Q)
      <4> HIDE DEF m, P, Q
      <4>1. up' = Append(up, m)
        BY <3>2, <3>3
      <4> QED
        BY <2>2, <3>1, <4>1, ChainAppend
    <3> QED
      BY <2>1, <2>2, <3>3 DEF BatteryInv
  <2>4. CASE d.t # "status"
    <3>1. d \notin D
      BY <2>2, <2>4, BatteryAbouts
    <3>2. Lacks(down', D) <=> Lacks(down, D)
      <4> HIDE DEF D
      <4> QED
        BY <2>1, <2>2, <3>1, ChainTail
    <3>3. WillAnswer' <=> WillAnswer
      BY <2>1, <3>2 DEF WillAnswer
    <3>4. up' = up
      BY <2>1, <2>4
    <3> QED
      BY <2>1, <2>2, <3>3, <3>4, BatteryKept
  <2> QED
    BY <2>3, <2>4
<1> QED
  BY <1>1, <1>2, <1>3, <1>4, <1>5, <1>6, <1>7, <1>8, <1>9, <1>10, <1>11, <1>12 DEF Next

-----------------------------------------------------------------------------
(* The connection parameters and the bond.                                 *)

LEMMA ParamsStep ==
    ASSUME SSInv, Next
    PROVE  ParamsInv'
<1> USE DEF SSInv
<1>1. ASSUME UNCHANGED <<params, state>>, lost'.params = lost.params PROVE ParamsInv'
  BY <1>1 DEF ParamsInv
<1>2. ASSUME NEW t \in Mirrored, NEW v \in Value, SetState(t, v), UNCHANGED lost PROVE ParamsInv'
  <2>1. /\ state'[t] = v /\ \A u \in Mirrored \ {t} : state'[u] = state[u]
        /\ params'.st = params.st /\ params'.sleeping = params.sleeping
        /\ params'.applied = params.applied
        /\ t # "sleep" => params' = params
        /\ t = "sleep" /\ params.st # "off" => params'.sub = <<v>>
    BY <1>2, StateSet
  <2>2. CASE t = "sleep"
    <3>1. <<v>> # <<>> /\ <<v>>[1] = v
      OBVIOUS
    <3> QED
      BY <1>2, <2>1, <2>2, <3>1 DEF ParamsInv
  <2>3. CASE t # "sleep"
    <3>1. state'["sleep"] = state["sleep"]
      BY <2>1, <2>3, Names
    <3> QED
      BY <1>2, <2>1, <2>3, <3>1 DEF ParamsInv
  <2> QED
    BY <2>2, <2>3
<1>3. ASSUME Change PROVE ParamsInv'
  <2>1. left.topics \subseteq Mirrored
    BY DEF Types, Scenario, Mirrored
  <2>2. PICK t \in Mirrored : SetState(t, 1 - state[t])
    BY <1>3, <2>1 DEF Change
  <2>3. 1 - state[t] \in Value /\ lost' = lost
    BY <1>3, Names DEF Types, Change
  <2> QED
    BY <1>2, <2>2, <2>3
<1>4. ASSUME Activity PROVE ParamsInv'
  <2>1. lost' = lost
    BY <1>4 DEF Activity
  <2> QED
    BY <1>1, <1>2, <1>4, <2>1, Names DEF Activity
<1>5. ASSUME \/ ClearPeerKey \/ ManagerStart \/ ManagerSync \/ (\E t \in Topics : ManagerSend(t))
             \/ ManagerStored \/ ManagerReads \/ Stroke \/ KeyPublished \/ BatteryLevel \/ BoardSends
             \/ BoardReads \/ BoardDisconnected \/ LinkDown
      PROVE  ParamsInv'
  <2>1. UNCHANGED <<params, state>>
    BY <1>5 DEF ClearPeerKey, ManagerStart, ManagerSync, ManagerSend, ManagerStored, ManagerReads,
                Stroke, KeyPublished, BatteryLevel, BoardSends, BoardReads, BoardDisconnected, LinkDown
  <2>2. lost'.params = lost.params
    <3>1. \/ lost' = lost
          \/ \E c : lost' = [lost EXCEPT !.clear = c]
          \/ \E ks : lost' = [lost EXCEPT !.keys = ks]
          \/ \E ks, c : lost' = [lost EXCEPT !.keys = ks, !.clear = c]
      BY <1>5 DEF ClearPeerKey, ManagerStart, ManagerSync, ManagerSend, ManagerStored, ManagerReads,
                  Stroke, KeyPublished, BatteryLevel, BoardSends, BoardReads, BoardDisconnected, LinkDown
    <3> QED
      BY <3>1 DEF Types
  <2> QED
    BY <1>1, <2>1, <2>2
<1>6. ASSUME SessionEnds PROVE ParamsInv'
  BY <1>6 DEF SessionEnds, Idle, ParamsInv
<1>7. ASSUME LinkUp PROVE ParamsInv'
  <2> DEFINE p == [Idle EXCEPT !.sleeping = state["sleep"]]
  <2>1. state' = state /\ params' = Asked(p)
    BY <1>7 DEF LinkUp
  <2>2. p = [st |-> "off", sub |-> <<>>, sleeping |-> state["sleep"], applied |-> 0]
    BY DEF Idle
  <2> HIDE DEF p
  <2>3. /\ params'.sub = <<>> /\ params'.sleeping = state["sleep"] /\ params'.applied = 0
        /\ params'.st = IF state["sleep"] # 0 THEN "request" ELSE "next"
    BY <2>1, <2>2 DEF Asked
  <2> QED
    BY <2>1, <2>3 DEF ParamsInv
<1>8. ASSUME ParamsRequest PROVE ParamsInv'
  <2>1. params \in [st : {"off", "request", "next"}, sub : Seq(Value), sleeping : Value, applied : Value]
        /\ lost \in [keys : SUBSET Keys, params : BOOLEAN, clear : BOOLEAN]
    BY DEF Types
  <2>2. /\ state' = state /\ params.st = "request"
        /\ \/ params' = [params EXCEPT !.st = "next", !.applied = params.sleeping] /\ lost' = lost
           \/ params' = [params EXCEPT !.st = "next"] /\ lost' = [lost EXCEPT !.params = TRUE]
    BY <1>8 DEF ParamsRequest, ParamsDone
  <2>3. /\ params'.sub = params.sub /\ params'.sleeping = params.sleeping /\ params'.st = "next"
        /\ params'.applied = params'.sleeping \/ lost'.params
    BY <2>1, <2>2
  <2> QED
    BY <2>2, <2>3 DEF ParamsInv
<1>9. ASSUME ParamsNext PROVE ParamsInv'
  <2>1. params \in [st : {"off", "request", "next"}, sub : Seq(Value), sleeping : Value, applied : Value]
        /\ Len(params.sub) <= 1
    BY DEF Types
  <2> DEFINE s == params.sub
             p == [params EXCEPT !.sub = Tail(s), !.sleeping = Head(s)]
  <2>2. /\ state' = state /\ params.st = "next" /\ s # <<>>
        /\ params' = Asked(p)
    BY <1>9 DEF ParamsNext
  <2>3. s \in Seq(Value) /\ Len(s) <= 1
    BY <2>1
  <2>4. Head(s) = s[1] /\ Tail(s) = <<>>
    <3> HIDE DEF s
    <3> QED
      BY <2>2, <2>3, ChainOne
  <2>5. p.sub = <<>> /\ p.sleeping = s[1] /\ p.applied = params.applied
        /\ p \in [st : {"off", "request", "next"}, sub : Seq(Value), sleeping : Value, applied : Value]
    <3>1. Tail(s) \in Seq(Value) /\ Head(s) \in Value
      BY <2>2, <2>3
    <3> HIDE DEF s
    <3> QED
      BY <2>1, <2>4, <3>1
  <2> HIDE DEF p, s
  <2>6. /\ params'.sub = <<>> /\ params'.sleeping = s[1]
        /\ params'.st = "next" => params'.applied = params'.sleeping
    BY <2>2, <2>5 DEF Asked
  <2>7. s[1] = state["sleep"]
    BY <2>2 DEF ParamsInv, s
  <2> QED
    BY <2>2, <2>6, <2>7 DEF ParamsInv
<1> QED
  BY <1>3, <1>4, <1>5, <1>6, <1>7, <1>8, <1>9 DEF Next

LEMMA ClearKept ==
    ASSUME ClearInv, UNCHANGED peer, lost'.clear = lost.clear,
           Lacks(down', About("clear")) <=> Lacks(down, About("clear"))
    PROVE  ClearInv'
BY DEF ClearInv

LEMMA ClearStep ==
    ASSUME SSInv, Next
    PROVE  ClearInv'
<1> USE DEF SSInv
<1> DEFINE P == About("clear")
<1>1. ASSUME \/ Change \/ Activity \/ ClearPeerKey \/ ManagerStart \/ ManagerReads \/ SessionEnds
             \/ ParamsRequest \/ ParamsNext \/ Stroke \/ KeyPublished \/ BatteryLevel \/ BoardSends
             \/ BoardDisconnected \/ LinkUp
      PROVE  ClearInv'
  <2>1. UNCHANGED <<down, peer>>
    BY <1>1 DEF Change, Activity, ClearPeerKey, ManagerStart, ManagerReads, SessionEnds, ParamsRequest,
                ParamsNext, Stroke, KeyPublished, BatteryLevel, BoardSends, BoardDisconnected, LinkUp,
                mirrorVars
  <2>2. lost'.clear = lost.clear
    <3>1. \/ lost' = lost
          \/ \E b : lost' = [lost EXCEPT !.params = b]
          \/ \E ks : lost' = [lost EXCEPT !.keys = ks]
      BY <1>1 DEF Change, Activity, ClearPeerKey, ManagerStart, ManagerReads, SessionEnds, ParamsRequest,
                  ParamsNext, Stroke, KeyPublished, BatteryLevel, BoardSends, BoardDisconnected, LinkUp
    <3> QED
      BY <3>1 DEF Types
  <2> QED
    BY <2>1, <2>2, ClearKept
<1>2. ASSUME ManagerSync PROVE ClearInv'
  <2> DEFINE m == Head(toSync)
  <2>1. UNCHANGED <<peer, lost>> /\ mgr = "sync" /\ down' = Append(down, m)
    BY <1>2 DEF ManagerSync
  <2>2. toSync # <<>> /\ toSync \in Seq(DownMsg) /\ down \in Seq(DownMsg)
        /\ \A i \in 1 .. Len(toSync) : toSync[i].t # "clear"
    BY <2>1 DEF Types
  <2>3. m \in DownMsg /\ m.t # "clear"
    <3>1. m = toSync[1] /\ 1 \in 1 .. Len(toSync) /\ m \in DownMsg
      BY <2>2
    <3> QED
      BY <2>2, <3>1
  <2>4. m \notin P
    BY <2>3, BatteryAbouts
  <2>5. Lacks(down', P) <=> Lacks(down, P)
    <3> HIDE DEF m, P
    <3> QED
      BY <2>1, <2>2, <2>3, <2>4, ChainAppend
  <2> QED
    BY <2>1, <2>5, ClearKept
<1>3. ASSUME NEW t \in Topics, ManagerSend(t) PROVE ClearInv'
  <2> DEFINE m == [Message(t) EXCEPT !.v = Head(subs[t])]
  <2>1. UNCHANGED <<peer, lost>> /\ subs[t] # <<>>
        /\ ((t = "clear" /\ down' = down) \/ (t # "clear" /\ down' = Append(down, m)))
    BY <1>3 DEF ManagerSend
  <2>2. subs[t] \in Seq(Value) /\ down \in Seq(DownMsg)
    BY DEF Types
  <2>3. Head(subs[t]) \in Value
    BY <2>1, <2>2
  <2>4. CASE t = "clear"
    BY <2>1, <2>4, ClearKept
  <2>5. CASE t # "clear"
    <3>1. m \in DownMsg /\ m.t = t
      BY <2>3, <2>5, Names, DownMsgs
    <3>2. m \notin P /\ down' = Append(down, m)
      BY <2>1, <2>5, <3>1, BatteryAbouts
    <3>3. Lacks(down', P) <=> Lacks(down, P)
      <4> HIDE DEF m, P
      <4> QED
        BY <2>2, <3>1, <3>2, ChainAppend
    <3> QED
      BY <2>1, <3>3, ClearKept
  <2> QED
    BY <2>4, <2>5
<1>4. ASSUME ManagerStored PROVE ClearInv'
  <2> DEFINE m == [t |-> "clear", v |-> 0, key |-> NoKey]
  <2>1. /\ peer' = [peer EXCEPT !.central = FALSE]
        /\ lost' = [lost EXCEPT !.clear = lost.clear \/ ~ link]
        /\ link => down' = Append(down, m)
    BY <1>4 DEF ManagerStored
  <2>2. m \in DownMsg /\ m.t = "clear" /\ down \in Seq(DownMsg)
    BY DownMsgs DEF Types
  <2>3. ~ peer'.central
    BY <2>1 DEF Types
  <2>4. ~ link => lost'.clear
    BY <2>1 DEF Types
  <2>5. m \in P
    BY <2>2, BatteryAbouts
  <2>6. ASSUME link PROVE ~ Lacks(down', P)
    <3> HIDE DEF m, P
    <3>1. down' = Append(down, m)
      BY <2>1, <2>6
    <3> QED
      BY <2>2, <2>5, <3>1, ChainAppend
  <2> QED
    BY <2>3, <2>4, <2>6 DEF ClearInv
<1>5. ASSUME BoardReads PROVE ClearInv'
  <2> DEFINE m == Head(down)
  <2>1. UNCHANGED lost /\ down # <<>> /\ down' = Tail(down)
        /\ \/ m.t = "clear" /\ peer' = [peer EXCEPT !.board = FALSE]
           \/ m.t # "clear" /\ peer' = peer
    BY <1>5 DEF BoardReads
  <2>2. down \in Seq(DownMsg) /\ m \in DownMsg /\ peer \in [central : BOOLEAN, board : BOOLEAN]
    BY <2>1 DEF Types
  <2>3. m \in P <=> m.t = "clear"
    BY <2>2, BatteryAbouts
  <2>4. /\ m \notin P => (Lacks(down', P) <=> Lacks(down, P))
        /\ Lacks(down, P) => m \notin P
    <3> HIDE DEF P
    <3> QED
      BY <2>1, <2>2, ChainTail
  <2>5. CASE m.t # "clear"
    <3>1. Lacks(down', P) <=> Lacks(down, P)
      BY <2>3, <2>4, <2>5
    <3> QED
      BY <2>1, <2>5, <3>1, ClearKept
  <2>6. CASE m.t = "clear"
    <3>1. ~ peer.central
      BY <2>3, <2>4, <2>6 DEF ClearInv
    <3>2. peer'.central = peer.central /\ ~ peer'.board
      BY <2>1, <2>2, <2>6
    <3> QED
      BY <3>1, <3>2 DEF ClearInv
  <2> QED
    BY <2>5, <2>6
<1>6. ASSUME LinkDown PROVE ClearInv'
  <2>1. PICK n \in 0 .. Len(down) :
          /\ down' = SubSeq(down, 1, n)
          /\ lost' = [lost EXCEPT
                !.keys = lost.keys \union {up[i].key.key : i \in {j \in DOMAIN up : up[j].t = "key"}},
                !.clear = lost.clear \/ \E i \in n + 1 .. Len(down) : down[i].t = "clear"]
    BY <1>6 DEF LinkDown
  <2>2. peer' = peer /\ down \in Seq(DownMsg)
    BY <1>6 DEF LinkDown, Types
  <2>3. lost'.clear <=> lost.clear \/ \E i \in n + 1 .. Len(down) : down[i].t = "clear"
    <3> DEFINE cut == lost.clear \/ \E i \in n + 1 .. Len(down) : down[i].t = "clear"
               ks == lost.keys \union {up[i].key.key : i \in {j \in DOMAIN up : up[j].t = "key"}}
    <3>1. lost' = [lost EXCEPT !.keys = ks, !.clear = cut]
      BY <2>1
    <3> HIDE DEF cut, ks
    <3>2. lost'.clear = cut
      BY <3>1 DEF Types
    <3> QED
      BY <3>2 DEF cut
  <2>4. Len(down) \in Nat /\ Len(down') = n /\ \A i \in 1 .. n : down'[i] = down[i]
    BY <2>1, <2>2
  <2>5. \A i \in 1 .. Len(down) : down[i] \in P <=> down[i].t = "clear"
    BY <2>2, BatteryAbouts
  <2> HIDE DEF P
  <2>6. ~ Lacks(down', P) => ~ Lacks(down, P)
    <3>1. \A i \in 1 .. n : i \in 1 .. Len(down)
      BY <2>4
    <3> QED
      BY <2>4, <3>1 DEF Lacks
  <2>7. ~ lost'.clear /\ ~ Lacks(down, P) => ~ Lacks(down', P)
    <3>1. \A i \in 1 .. Len(down) : i \in 1 .. n \/ i \in n + 1 .. Len(down)
      BY <2>1, <2>4
    <3> QED
      BY <2>3, <2>4, <2>5, <3>1 DEF Lacks
  <2> QED
    BY <2>2, <2>3, <2>6, <2>7 DEF ClearInv, P
<1> QED
  BY <1>1, <1>2, <1>3, <1>4, <1>5, <1>6 DEF Next

-----------------------------------------------------------------------------
(* The theorem.                                                            *)

LEMMA InitSSInv ==
    ASSUME Init
    PROVE  SSInv
<1>1. Types /\ SessionInv
  BY InitTypes
<1>2. MirrorInv /\ BatteryInv
  BY DEF Init, MirrorInv, BatteryInv, Listening
<1>3. KeyInv
  <2>1. keys = {} /\ keymap = {} /\ keySub = <<>> /\ up = <<>> /\ ~ blocked.some
    BY DEF Init, NoKey
  <2>2. ASSUME NEW k \in 0 .. Size - 1 PROVE QueuedKey(k) /\ SentKey(k)
    <3>1. Lacks(keySub, Of(k)) /\ Lacks(up, UpOf(k)) /\ ~ Waits(k)
      BY <2>1, ChainEmpty DEF Waits
    <3> QED
      BY <2>1, <3>1 DEF QueuedKey, SentKey
  <2> QED
    BY <2>2 DEF KeyInv
<1>4. ParamsInv
  BY DEF Init, Idle, ParamsInv
<1>5. ClearInv
  <2>1. Lacks(down, About("clear")) /\ peer.central /\ peer.board
    BY ChainEmpty DEF Init
  <2> QED
    BY <2>1 DEF ClearInv
<1> QED
  BY <1>1, <1>2, <1>3, <1>4, <1>5 DEF SSInv

LEMMA StepSSInv ==
    ASSUME SSInv, [Next]_vars
    PROVE  SSInv'
<1>1. CASE Next
  <2>1. Types' /\ SessionInv'
    BY <1>1, CentralTypes, BoardTypes DEF Next, SSInv
  <2> QED
    BY <1>1, <2>1, MirrorStep, KeyStep, BatteryStep, ParamsStep, ClearStep DEF SSInv
<1>2. CASE UNCHANGED vars
  <2>1. Types' /\ SessionInv'
    BY <1>2 DEF vars, mirrorVars, keyVars, batteryVars, SSInv, Types, SessionInv
  <2>2. UNCHANGED <<state, mgr, toSync, subs, down, view, up, link, keys, blocked, keySub, keymap,
                    battery, batSub, batView, params, peer, lost>>
    BY <1>2 DEF vars, mirrorVars, keyVars, batteryVars
  <2>3. MirrorInv' /\ KeyInv' /\ BatteryInv'
    BY <2>2, MirrorKept, KeyKept, BatteryKept DEF SSInv, Listening, Subscribed, WillAnswer
  <2>4. ParamsInv' /\ ClearInv'
    BY <2>2 DEF SSInv, ParamsInv, ClearInv
  <2> QED
    BY <2>1, <2>3, <2>4 DEF SSInv
<1> QED
  BY <1>1, <1>2

LEMMA SSInvAgrees ==
    ASSUME SSInv
    PROVE  SidesAgree
<1> USE DEF SSInv
<1>1. TypeOK
  <2>1. Offset .. Offset + Size - 1 \subseteq Keymap
    BY SessionSizes DEF Keymap
  <2>2. keymap \subseteq Keymap /\ params.st \in {"off", "request", "next"}
    BY <2>1 DEF Types
  <2> QED
    BY <2>2 DEF TypeOK, Types
<1>2. Quiet => toSync = <<>> /\ Listening
  BY DEF Quiet, Types, Listening, Subscribed
<1>3. BoardInSync
  <2>1. ASSUME Quiet, NEW t \in Mirrored \ {"layer"} PROVE view[t] = state[t]
    <3>1. MirrorOf(t) /\ subs[t] = <<>> /\ down = <<>> /\ toSync = <<>>
      BY <1>2, <2>1, Names DEF MirrorInv, Quiet
    <3>2. ~ Settles(toSync, About(t), With(state[t])) /\ ~ Settles(down, About(t), With(state[t]))
      BY <3>1, ChainEmpty
    <3> QED
      BY <3>1, <3>2 DEF MirrorOf
  <2> QED
    BY <2>1 DEF BoardInSync
<1>4. KeysInSync
  <2>1. ASSUME Quiet, NEW k \in 0 .. Size - 1, k \notin lost.keys
        PROVE  k \in keys <=> Offset + k \in keymap
    <3>1. SentKey(k) /\ keySub = <<>> /\ up = <<>> /\ ~ Waits(k)
      BY <2>1 DEF KeyInv, Quiet, Waits
    <3>2. Lacks(keySub, Of(k)) /\ ~ Settles(up, UpOf(k), UpPressed(k \in keys))
      BY <3>1, ChainEmpty
    <3> QED
      BY <2>1, <3>1, <3>2 DEF SentKey
  <2> QED
    BY <2>1 DEF KeysInSync
<1>5. KeysInPlace
  BY DEF KeysInPlace, Types
<1>6. BatteryInSync
  <2>1. ASSUME Quiet PROVE batView = battery
    <3>1. subs["status"] = <<>> /\ toSync = <<>> /\ down = <<>> /\ up = <<>> /\ batSub = <<>> /\ Listening
      BY <1>2, <2>1, Names DEF Quiet
    <3>2. ~ WillAnswer /\ ~ Settles(up, BatteryMsg, LevelIs(battery))
      BY <3>1, ChainEmpty DEF WillAnswer
    <3> QED
      BY <3>1, <3>2 DEF BatteryInv
  <2> QED
    BY <2>1 DEF BatteryInSync
<1>7. ParamsInSync
  BY DEF ParamsInSync, ParamsInv
<1>8. ClearIsWhole
  <2>1. ASSUME Quiet, ~ lost.clear PROVE peer.central = peer.board
    <3>1. Lacks(down, About("clear"))
      BY <2>1, ChainEmpty DEF Quiet
    <3>2. peer.central \in BOOLEAN /\ peer.board \in BOOLEAN
      BY DEF Types
    <3> QED
      BY <2>1, <3>1, <3>2 DEF ClearInv
  <2> QED
    BY <2>1 DEF ClearIsWhole
<1> QED
  BY <1>1, <1>3, <1>4, <1>5, <1>6, <1>7, <1>8 DEF SidesAgree

\* When nothing is under way the central and the board hold the same state, keys, battery
\* level, connection parameters and bond, whatever was lost, queued or overtaken on the way
\* (PeripheralManager::run, SplitPeripheral::run).
THEOREM BothSidesAgree == Spec => []SidesAgree
<1>1. Init => SSInv
  BY InitSSInv
<1>2. SSInv /\ [Next]_vars => SSInv'
  BY StepSSInv
<1>3. SSInv => SidesAgree
  BY SSInvAgrees
<1> QED
  BY <1>1, <1>2, <1>3, PTL DEF Spec

=============================================================================
