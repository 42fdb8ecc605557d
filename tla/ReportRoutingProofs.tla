------------------------ MODULE ReportRoutingProofs ------------------------
(***************************************************************************)
(* TLAPS proofs about ReportRouting, for any set of report types, any      *)
(* channel that holds an all-up report of each of them, and either kind of *)
(* board.                                                                  *)
(*                                                                         *)
(* What a host will show of a type once everything on its way has arrived  *)
(* is decided by the last report of that type: the last in the channel, or *)
(* the one in the writer's hands, or what the host shows already.  The     *)
(* inductive invariant speaks of that one: for a transport that is not     *)
(* active it says nothing is pressed, for the active one nothing but what  *)
(* the keyboard holds.                                                     *)
(***************************************************************************)
EXTENDS ReportRouting, FiniteSetTheorems, SequenceTheorems, TLAPS

\* No report of type ty in the channel.
Without(q, ty) == \A i \in 1 .. Len(q) : q[i].type # ty

\* Of what is on its way, the channel q before the reports w in the writer's hands, the
\* last report of type ty says something of S; if there is none, the host shows something
\* of S, or l: a report was lost.
EndsWith(q, w, l, h, ty, S) ==
    /\ \A i \in 1 .. Len(q) :
          q[i].type = ty /\ (\A j \in i + 1 .. Len(q) : q[j].type # ty) => q[i].val \in S
    /\ Without(q, ty) =>
          /\ \A r \in w : r.type = ty => r.val \in S
          /\ (\A r \in w : r.type # ty) => l \/ h \in S

Ends(t, ty, S) == EndsWith(chan[t], writer[t], lost[t][ty], host[t][ty], ty, S)

\* A transport that is not active carries releases only, and ends with one of every type.
InactiveInv ==
    \A t \in Transports \ ActiveTransport :
        /\ \A i \in 1 .. Len(chan[t]) : chan[t][i].val = Up
        /\ \A ty \in Types : Ends(t, ty, {Up})

\* What the keyboard alone sends ends with what it holds, unless the keyboard task is
\* still blocked on the report that says so.
HeldInv ==
    \A t \in Transports, ty \in Types \ shared :
        \/ Ends(t, ty, {Up, held[ty]})
        \/ \E s \in sender["keyboard"] : s.to = t /\ s.report.type = ty

\* What the producers are blocked on, and what the writers have in hand.
HandsInv ==
    /\ \A p \in Producers : \A s, u \in sender[p] : s = u
    /\ \A s \in sender["keyboard"] : s.report.val = held[s.report.type]
    /\ \A s \in sender["pointing"] : s.report.type \in shared
    /\ \A t \in Transports : \A r, s \in writer[t] : r = s

PathInv == InactiveInv /\ HeldInv /\ HandsInv

\* The inductive invariant.
RInv == TypeOK /\ PathInv

-----------------------------------------------------------------------------
(* The last report of a type.                                              *)

LEMMA EndsWeaker ==
    ASSUME NEW q, NEW w, NEW l, NEW h, NEW ty, NEW S, NEW T,
           EndsWith(q, w, l, h, ty, S), S \subseteq T
    PROVE  EndsWith(q, w, l, h, ty, T)
BY DEF EndsWith

\* A host that forgets its keys, with or without the report in the writer's hands.
LEMMA EndsForgotten ==
    ASSUME NEW q, NEW w, NEW v, NEW l, NEW k, NEW h, NEW ty, NEW S,
           EndsWith(q, w, l, h, ty, S), Up \in S, v \in {w, {}}
    PROVE  EndsWith(q, v, k, Up, ty, S)
BY DEF EndsWith

\* A channel that is appended to.
LEMMA EndsAppended ==
    ASSUME NEW q \in Seq(Report), NEW w, NEW l, NEW h, NEW ty, NEW S, NEW r \in Report,
           IF r.type = ty THEN r.val \in S ELSE EndsWith(q, w, l, h, ty, S)
    PROVE  EndsWith(Append(q, r), w, l, h, ty, S)
<1> DEFINE a == Append(q, r)
<1>1. /\ Len(a) = Len(q) + 1 /\ Len(q) \in Nat /\ a[Len(q) + 1] = r
      /\ \A i \in 1 .. Len(q) : a[i] = q[i]
  OBVIOUS
<1> HIDE DEF a
<1>2. CASE r.type = ty
  <2>1. ~ Without(a, ty)
    BY <1>1, <1>2 DEF Without
  <2>2. ASSUME NEW i \in 1 .. Len(a), \A j \in i + 1 .. Len(a) : a[j].type # ty
        PROVE  i = Len(q) + 1
    <3>1. CASE i < Len(q) + 1
      <4>1. Len(q) + 1 \in i + 1 .. Len(a)
        BY <1>1, <3>1
      <4> QED
        BY <1>1, <1>2, <2>2, <4>1
    <3> QED
      BY <1>1, <3>1
  <2> QED
    BY <1>1, <1>2, <2>1, <2>2 DEF EndsWith, a
<1>3. CASE r.type # ty
  <2>1. Without(a, ty) => Without(q, ty)
    BY <1>1 DEF Without
  <2>2. ASSUME NEW i \in 1 .. Len(a), a[i].type = ty, \A j \in i + 1 .. Len(a) : a[j].type # ty
        PROVE  a[i].val \in S
    <3>1. i \in 1 .. Len(q) /\ q[i] = a[i]
      BY <1>1, <1>3, <2>2
    <3>2. \A j \in i + 1 .. Len(q) : j \in i + 1 .. Len(a) /\ q[j] = a[j]
      BY <1>1, <3>1
    <3>3. \A j \in i + 1 .. Len(q) : q[j].type # ty
      BY <2>2, <3>2
    <3> QED
      BY <1>3, <2>2, <3>1, <3>3 DEF EndsWith
  <2> QED
    BY <1>3, <2>1, <2>2 DEF EndsWith, a
<1> QED
  BY <1>2, <1>3

\* The positions of a channel whose first report is taken.
LEMMA TailPositions ==
    ASSUME NEW q \in Seq(Report), q # <<>>
    PROVE  /\ Len(Tail(q)) = Len(q) - 1 /\ Len(q) \in Nat /\ Len(q) > 0 /\ Head(q) = q[1]
           /\ Tail(q) \in Seq(Report) /\ Head(q) \in Report
           /\ \A i \in 1 .. Len(Tail(q)) : Tail(q)[i] = q[i + 1]
           /\ \A i \in 2 .. Len(q) : q[i] = Tail(q)[i - 1] /\ i - 1 \in 1 .. Len(Tail(q))
<1>1. Len(Tail(q)) = Len(q) - 1 /\ Len(q) \in Nat /\ Len(q) > 0 /\ Head(q) = q[1]
      /\ Tail(q) \in Seq(Report) /\ Head(q) \in Report
  OBVIOUS
<1>2. \A i \in 1 .. Len(Tail(q)) : Tail(q)[i] = q[i + 1]
  BY <1>1
<1>3. \A i \in 2 .. Len(q) : i - 1 \in 1 .. Len(Tail(q)) /\ (i - 1) + 1 = i
  BY <1>1
<1> QED
  BY <1>1, <1>2, <1>3

\* The writer takes the first report of the channel into its hands, or drops it.
LEMMA EndsTaken ==
    ASSUME NEW q \in Seq(Report), q # <<>>, NEW l, NEW h, NEW ty, NEW S,
           EndsWith(q, {}, l, h, ty, S)
    PROVE  /\ EndsWith(Tail(q), {Head(q)}, l, h, ty, S)
           /\ EndsWith(Tail(q), {}, IF Head(q).type = ty THEN TRUE ELSE l, h, ty, S)
<1> DEFINE p == Tail(q)
<1>1. /\ Len(p) = Len(q) - 1 /\ Len(q) \in Nat /\ Len(q) > 0 /\ Head(q) = q[1]
      /\ \A i \in 1 .. Len(p) : p[i] = q[i + 1]
      /\ \A i \in 2 .. Len(q) : q[i] = p[i - 1] /\ i - 1 \in 1 .. Len(p)
  BY TailPositions
<1> HIDE DEF p
<1>2. ASSUME NEW i \in 1 .. Len(p), p[i].type = ty, \A j \in i + 1 .. Len(p) : p[j].type # ty
      PROVE  p[i].val \in S
  <2>1. i + 1 \in 1 .. Len(q) /\ q[i + 1] = p[i]
    BY <1>1
  <2>2. \A j \in (i + 1) + 1 .. Len(q) : q[j] = p[j - 1] /\ j - 1 \in i + 1 .. Len(p)
    BY <1>1
  <2> QED
    BY <1>2, <2>1, <2>2 DEF EndsWith
<1>3. ASSUME Without(p, ty)
      PROVE  \A j \in 2 .. Len(q) : q[j].type # ty
  BY <1>1, <1>3 DEF Without
<1>4. ASSUME Without(p, ty), q[1].type = ty
      PROVE  q[1].val \in S
  BY <1>1, <1>3, <1>4 DEF EndsWith
<1>5. ASSUME Without(p, ty), q[1].type # ty
      PROVE  l \/ h \in S
  <2>1. \A i \in 1 .. Len(q) : i = 1 \/ i \in 2 .. Len(q)
    BY <1>1
  <2>2. Without(q, ty)
    BY <1>3, <1>5, <2>1 DEF Without
  <2> QED
    BY <2>2 DEF EndsWith
<1>6. EndsWith(p, {q[1]}, l, h, ty, S)
  BY <1>2, <1>4, <1>5 DEF EndsWith
<1>7. EndsWith(p, {}, IF q[1].type = ty THEN TRUE ELSE l, h, ty, S)
  BY <1>2, <1>5 DEF EndsWith
<1> QED
  BY <1>1, <1>6, <1>7 DEF p

\* The report in the writer's hands is delivered, or dropped.
LEMMA EndsWritten ==
    ASSUME NEW q, NEW r, NEW l, NEW h, NEW ty, NEW S,
           EndsWith(q, {r}, l, h, ty, S)
    PROVE  /\ EndsWith(q, {}, IF r.type = ty THEN FALSE ELSE l,
                       IF r.type = ty THEN r.val ELSE h, ty, S)
           /\ EndsWith(q, {}, IF r.type = ty THEN TRUE ELSE l, h, ty, S)
BY DEF EndsWith

-----------------------------------------------------------------------------
(* Flips.                                                                   *)

\* A release of every type is found, and fits into the channel.
LEMMA ReleaseAllReleases ==
    /\ ReleaseAll \in Seq(Report) /\ Len(ReleaseAll) <= ChannelSize
    /\ \A i \in 1 .. Len(ReleaseAll) : ReleaseAll[i].val = Up
    /\ \A ty \in Types : \E i \in 1 .. Len(ReleaseAll) : ReleaseAll[i].type = ty
<1> DEFINE n == Cardinality(Types)
           Ups == {[type |-> ty, val |-> Up] : ty \in Types}
           Good(s) == \A ty \in Types : \E i \in DOMAIN s : s[i].type = ty
<1>1. n \in Nat /\ ExistsBijection(1 .. n, Types)
  <2>1. PICK m \in Nat : ExistsBijection(1 .. m, Types)
    BY RoutingTypes, FS_NatBijection
  <2> QED
    BY <2>1, FS_CountingElements
<1>2. \E s \in [1 .. n -> Ups] : Good(s)
  <2>1. PICK f \in Bijection(1 .. n, Types) : TRUE
    BY <1>1 DEF ExistsBijection
  <2>2. f \in [1 .. n -> Types] /\ \A ty \in Types : \E i \in 1 .. n : f[i] = ty
    BY <2>1 DEF Bijection, Injection, Surjection
  <2>3. [i \in 1 .. n |-> [type |-> f[i], val |-> Up]] \in [1 .. n -> Ups]
    BY <2>2
  <2>4. Good([i \in 1 .. n |-> [type |-> f[i], val |-> Up]])
    BY <2>2
  <2> QED
    BY <2>3, <2>4
<1>3. ReleaseAll \in [1 .. n -> Ups] /\ Good(ReleaseAll)
  <2> HIDE DEF Good, Ups, n
  <2>1. ReleaseAll = CHOOSE s \in [1 .. n -> Ups] : Good(s)
    BY DEF ReleaseAll, Good, Ups, n
  <2> QED
    BY <1>2, <2>1
<1>4. Ups \subseteq Report
  BY DEF Report, Values
<1>5. ReleaseAll \in Seq(Report) /\ Len(ReleaseAll) = n
  <2>1. ReleaseAll \in [1 .. n -> Report]
    BY <1>3, <1>4
  <2> QED
    BY <1>1, <2>1, SeqDef, LenProperties
<1>6. \A i \in 1 .. Len(ReleaseAll) : ReleaseAll[i].val = Up
  BY <1>3, <1>5
<1>7. \A ty \in Types : \E i \in 1 .. Len(ReleaseAll) : ReleaseAll[i].type = ty
  BY <1>3, <1>5
<1>8. Len(ReleaseAll) <= ChannelSize
  BY <1>1, <1>5, ChannelHoldsRelease
<1> QED
  BY <1>5, <1>6, <1>7, <1>8

\* A released channel ends with a release of every type.
LEMMA EndsReleased ==
    ASSUME NEW w, NEW l, NEW h, NEW ty \in Types, NEW S, Up \in S
    PROVE  EndsWith(ReleaseAll, w, l, h, ty, S)
BY ReleaseAllReleases DEF EndsWith, Without

\* At most one transport is active.
LEMMA OneActive ==
    ASSUME NEW u, NEW b, NEW p \in Transports
    PROVE  Active(u, b, p) \in {{}, {"usb"}, {"ble"}}
BY DEF Active, UsbReady, BleReady, Transports

\* update_status: the transport that stops being active is released, no other channel
\* changes.
LEMMA StatusFlips ==
    ASSUME TypeOK, NEW u, NEW b, NEW p \in Transports, UpdateStatus(u, b, p)
    PROVE  /\ chan' \in [Transports -> Seq(Report)]
           /\ \A t \in Transports :
                /\ Len(chan'[t]) <= ChannelSize
                /\ \/ t \notin ActiveTransport' /\ chan'[t] = ReleaseAll
                   \/ chan'[t] = chan[t] /\ (t \in ActiveTransport => t \in ActiveTransport')
<1>1. ActiveTransport' = Active(u, b, p)
  BY DEF UpdateStatus, ActiveTransport
<1>2. ActiveTransport \in {{}, {"usb"}, {"ble"}} /\ ActiveTransport' \in {{}, {"usb"}, {"ble"}}
  BY <1>1, OneActive DEF TypeOK, ActiveTransport
<1>3. \A t \in Transports : Released(t) = ReleaseAll
  BY ReleaseAllReleases DEF Released, Fit
<1>4. \A t \in Transports :
         chan'[t] = IF t \in ActiveTransport /\ ActiveTransport' # ActiveTransport
                    THEN ReleaseAll ELSE chan[t]
  BY <1>1, <1>3 DEF UpdateStatus
<1>5. \A t \in Transports : t \in ActiveTransport /\ ActiveTransport' # ActiveTransport
                              => t \notin ActiveTransport'
  BY <1>2 DEF Transports
<1>6. chan' \in [Transports -> Seq(Report)] /\ \A t \in Transports : Len(chan'[t]) <= ChannelSize
  <2>1. chan' = [t \in Transports |-> chan'[t]]
    BY DEF UpdateStatus
  <2>2. \A t \in Transports : chan'[t] \in Seq(Report) /\ Len(chan'[t]) <= ChannelSize
    BY <1>4, ReleaseAllReleases DEF TypeOK
  <2> QED
    BY <2>1, <2>2
<1> QED
  BY <1>4, <1>5, <1>6

-----------------------------------------------------------------------------
(* Steps.                                                                   *)

LEMMA InitRInv == Init => RInv
<1> SUFFICES ASSUME Init PROVE RInv
  OBVIOUS
<1>1. TypeOK
  <2>1. Cardinality(shared) \in Nat
    BY RoutingTypes, FS_Subset, FS_CardinalityType DEF Init
  <2>2. Up \in Values
    BY DEF Values
  <2>3. AllUp \in [Types -> Values]
    BY <2>2 DEF AllUp
  <2>4. /\ host \in [Transports -> [Types -> Values]]
        /\ lost \in [Transports -> [Types -> BOOLEAN]]
        /\ writer \in [Transports -> SUBSET Report]
        /\ sender \in [Producers -> SUBSET [report : Report, to : Transports]]
        /\ chan \in [Transports -> Seq(Report)]
    BY <2>3 DEF Init
  <2>5. \A t \in Transports : Len(chan[t]) <= ChannelSize
    BY ChannelHoldsRelease DEF Init
  <2>6. /\ usb = "Disabled" /\ ble = "Inactive" /\ preferred \in Transports
        /\ preSuspend = "Disabled" /\ device = "run" /\ events \in 0 .. MaxLinkEvents
        /\ reports \in Nat /\ shared \in Pointing /\ held \in [Types -> Values]
        /\ bootMode = FALSE /\ wakeup = FALSE /\ serving = FALSE /\ link = FALSE
        /\ retrying = FALSE /\ asked = FALSE
    BY <2>1, <2>3, RoutingBounds DEF Init, Transports
  <2> QED
    BY <2>4, <2>5, <2>6 DEF TypeOK
<1>2. \A t \in Transports, ty \in Types : \A S : Up \in S => Ends(t, ty, S)
  BY DEF Init, Ends, EndsWith, AllUp
<1>3. \A t \in Transports : chan[t] = <<>>
  BY DEF Init
<1> QED
  BY <1>1, <1>2, <1>3
  DEF RInv, PathInv, InactiveInv, HeldInv, HandsInv, Init, Producers, Transports

\* What the events of the links do to what is on its way.
FlipStep ==
    \A t \in Transports :
        \/ t \notin ActiveTransport' /\ chan'[t] = ReleaseAll
        \/ chan'[t] = chan[t] /\ (t \in ActiveTransport => t \in ActiveTransport')

PathStep ==
    \A t \in Transports :
        \/ writer'[t] = writer[t] /\ host'[t] = host[t] /\ lost'[t] = lost[t]
        \/ writer'[t] \in {writer[t], {}} /\ host'[t] = AllUp

\* Whatever happens to the links, a transport that was left is released.
LEMMA LinkKeeps ==
    ASSUME RInv, FlipStep, PathStep, UNCHANGED <<sender, held, shared>>
    PROVE  PathInv'
<1> USE DEF RInv, PathInv
<1>1. ASSUME NEW t \in Transports, NEW ty \in Types, NEW S, Up \in S,
             Ends(t, ty, S) \/ chan'[t] = ReleaseAll
      PROVE  EndsWith(chan'[t], writer'[t], lost'[t][ty], host'[t][ty], ty, S)
  <2>1. CASE chan'[t] = ReleaseAll
    BY <1>1, <2>1, EndsReleased
  <2>2. CASE chan'[t] # ReleaseAll
    <3>1. chan'[t] = chan[t] /\ EndsWith(chan[t], writer[t], lost[t][ty], host[t][ty], ty, S)
      BY <1>1, <2>2 DEF FlipStep, Ends
    <3>2. CASE writer'[t] = writer[t] /\ host'[t] = host[t] /\ lost'[t] = lost[t]
      BY <3>1, <3>2
    <3>3. CASE writer'[t] \in {writer[t], {}} /\ host'[t] = AllUp
      <4>1. host'[t][ty] = Up
        BY <3>3 DEF AllUp
      <4> QED
        BY <1>1, <3>1, <3>3, <4>1, EndsForgotten
    <3> QED
      BY <3>2, <3>3 DEF PathStep
  <2> QED
    BY <2>1, <2>2
<1>2. InactiveInv'
  <2> SUFFICES ASSUME NEW t \in Transports, t \notin ActiveTransport'
               PROVE  /\ \A i \in 1 .. Len(chan'[t]) : chan'[t][i].val = Up
                      /\ \A ty \in Types : Ends(t, ty, {Up})'
    BY DEF InactiveInv
  <2>1. chan'[t] = ReleaseAll \/ (chan'[t] = chan[t] /\ t \notin ActiveTransport)
    BY DEF FlipStep
  <2>2. \A i \in 1 .. Len(chan'[t]) : chan'[t][i].val = Up
    BY <2>1, ReleaseAllReleases DEF InactiveInv
  <2>3. \A ty \in Types : Ends(t, ty, {Up})'
    BY <1>1, <2>1 DEF InactiveInv, Ends
  <2> QED
    BY <2>2, <2>3
<1>3. HeldInv'
  <2> SUFFICES ASSUME NEW t \in Transports, NEW ty \in Types, ty \notin shared
               PROVE  \/ Ends(t, ty, {Up, held[ty]})'
                      \/ \E s \in sender["keyboard"] : s.to = t /\ s.report.type = ty
    BY DEF HeldInv
  <2>1. CASE Ends(t, ty, {Up, held[ty]})
    BY <1>1, <2>1 DEF Ends
  <2>2. CASE ~ Ends(t, ty, {Up, held[ty]})
    BY <2>2 DEF HeldInv
  <2> QED
    BY <2>1, <2>2
<1>4. HandsInv'
  BY DEF HandsInv, PathStep
<1> QED
  BY <1>2, <1>3, <1>4

\* Steps of a writer: what is on its way to t moves on, every end of it stays.
LEMMA WriterKeeps ==
    ASSUME RInv, NEW t \in Transports, UNCHANGED <<usb, ble, preferred, sender, held, shared>>,
           \A u \in Transports \ {t} :
              chan'[u] = chan[u] /\ writer'[u] = writer[u] /\ host'[u] = host[u] /\ lost'[u] = lost[u],
           \A ty \in Types : \A S : Ends(t, ty, S) =>
              EndsWith(chan'[t], writer'[t], lost'[t][ty], host'[t][ty], ty, S),
           \A i \in 1 .. Len(chan'[t]) : \E j \in 1 .. Len(chan[t]) : chan'[t][i] = chan[t][j],
           \A r, s \in writer'[t] : r = s
    PROVE  PathInv'
<1> USE DEF RInv, PathInv
<1>1. ActiveTransport' = ActiveTransport
  BY DEF ActiveTransport
<1>2. \A u \in Transports, ty \in Types : \A S : Ends(u, ty, S) =>
         EndsWith(chan'[u], writer'[u], lost'[u][ty], host'[u][ty], ty, S)
  BY DEF Ends
<1>3. InactiveInv'
  <2> SUFFICES ASSUME NEW u \in Transports, u \notin ActiveTransport
               PROVE  /\ \A i \in 1 .. Len(chan'[u]) : chan'[u][i].val = Up
                      /\ \A ty \in Types : Ends(u, ty, {Up})'
    BY <1>1 DEF InactiveInv
  <2>1. \A i \in 1 .. Len(chan'[u]) : chan'[u][i].val = Up
    BY DEF InactiveInv
  <2>2. \A ty \in Types : Ends(u, ty, {Up})'
    BY <1>2 DEF InactiveInv, Ends
  <2> QED
    BY <2>1, <2>2
<1>4. HeldInv'
  <2> SUFFICES ASSUME NEW u \in Transports, NEW ty \in Types, ty \notin shared,
                      Ends(u, ty, {Up, held[ty]})
               PROVE  Ends(u, ty, {Up, held[ty]})'
    BY DEF HeldInv
  <2> QED
    BY <1>2 DEF Ends
<1>5. HandsInv'
  BY DEF HandsInv
<1> QED
  BY <1>3, <1>4, <1>5

\* The writer of t takes the first report: into its hands, or to drop it.
LEMMA TakesOne ==
    ASSUME RInv, NEW t \in Transports, UNCHANGED <<usb, ble, preferred, sender, held, shared>>,
           writer[t] = {}, chan[t] # <<>>, chan' = [chan EXCEPT ![t] = Tail(@)],
           \/ /\ writer' = [writer EXCEPT ![t] = {Head(chan[t])}]
              /\ UNCHANGED <<host, lost>>
           \/ UNCHANGED writer /\ Drop(t, Head(chan[t]))
    PROVE  PathInv'
<1>1. chan[t] \in Seq(Report) /\ chan'[t] = Tail(chan[t])
  BY DEF RInv, TypeOK
<1>2. \A u \in Transports \ {t} :
         chan'[u] = chan[u] /\ writer'[u] = writer[u] /\ host'[u] = host[u] /\ lost'[u] = lost[u]
  BY DEF RInv, TypeOK, Drop
<1>3. ASSUME NEW ty \in Types, NEW S, Ends(t, ty, S)
      PROVE  EndsWith(chan'[t], writer'[t], lost'[t][ty], host'[t][ty], ty, S)
  <2>1. /\ EndsWith(Tail(chan[t]), {Head(chan[t])}, lost[t][ty], host[t][ty], ty, S)
        /\ EndsWith(Tail(chan[t]), {}, IF Head(chan[t]).type = ty THEN TRUE ELSE lost[t][ty],
                    host[t][ty], ty, S)
    BY <1>1, <1>3, EndsTaken DEF Ends
  <2>2. CASE writer' = [writer EXCEPT ![t] = {Head(chan[t])}] /\ UNCHANGED <<host, lost>>
    <3>1. writer'[t] = {Head(chan[t])}
      BY <2>2 DEF RInv, TypeOK
    <3> QED
      BY <1>1, <2>1, <2>2, <3>1
  <2>3. CASE UNCHANGED writer /\ Drop(t, Head(chan[t]))
    <3>1. writer'[t] = {} /\ host'[t][ty] = host[t][ty]
          /\ lost'[t][ty] = IF Head(chan[t]).type = ty THEN TRUE ELSE lost[t][ty]
      BY <2>3 DEF Drop, RInv, TypeOK
    <3> QED
      BY <1>1, <2>1, <3>1
  <2> QED
    BY <2>2, <2>3
<1>4. \A i \in 1 .. Len(chan'[t]) : \E j \in 1 .. Len(chan[t]) : chan'[t][i] = chan[t][j]
  <2>1. ASSUME NEW i \in 1 .. Len(chan'[t]) PROVE i + 1 \in 1 .. Len(chan[t]) /\ chan'[t][i] = chan[t][i + 1]
    <3>1. i \in 1 .. Len(Tail(chan[t]))
      BY <1>1
    <3>2. /\ \A j \in 1 .. Len(Tail(chan[t])) : Tail(chan[t])[j] = chan[t][j + 1]
          /\ Len(Tail(chan[t])) = Len(chan[t]) - 1 /\ Len(chan[t]) \in Nat
      BY <1>1, TailPositions
    <3>3. chan'[t][i] = chan[t][i + 1]
      BY <1>1, <3>1, <3>2
    <3>4. i \in 1 .. Len(chan[t]) - 1
      BY <3>1, <3>2
    <3> QED
      BY <3>2, <3>3, <3>4
  <2> QED
    BY <2>1
<1>5. \A r, s \in writer'[t] : r = s
  BY DEF RInv, TypeOK
<1> QED
  BY <1>2, <1>3, <1>4, <1>5, WriterKeeps

\* The writer of t is done with the report in its hands.
LEMMA WritesOne ==
    ASSUME RInv, NEW t \in Transports, UNCHANGED <<usb, ble, preferred, sender, held, shared, chan>>,
           NEW r \in writer[t], writer' = [writer EXCEPT ![t] = {}],
           Deliver(t, r) \/ Drop(t, r)
    PROVE  PathInv'
<1>1. writer[t] = {r} /\ writer'[t] = {}
  BY DEF RInv, PathInv, HandsInv, TypeOK
<1>2. \A u \in Transports \ {t} :
         chan'[u] = chan[u] /\ writer'[u] = writer[u] /\ host'[u] = host[u] /\ lost'[u] = lost[u]
  BY DEF RInv, TypeOK, Drop, Deliver
<1>3. ASSUME NEW ty \in Types, NEW S, Ends(t, ty, S)
      PROVE  EndsWith(chan'[t], writer'[t], lost'[t][ty], host'[t][ty], ty, S)
  <2>1. /\ EndsWith(chan[t], {}, IF r.type = ty THEN FALSE ELSE lost[t][ty],
                    IF r.type = ty THEN r.val ELSE host[t][ty], ty, S)
        /\ EndsWith(chan[t], {}, IF r.type = ty THEN TRUE ELSE lost[t][ty], host[t][ty], ty, S)
    <3>1. EndsWith(chan[t], {r}, lost[t][ty], host[t][ty], ty, S)
      BY <1>1, <1>3 DEF Ends
    <3> QED
      BY <3>1 DEF EndsWith
  <2>2. CASE Deliver(t, r)
    <3>1. /\ host'[t][ty] = IF r.type = ty THEN r.val ELSE host[t][ty]
          /\ lost'[t][ty] = IF r.type = ty THEN FALSE ELSE lost[t][ty]
      BY <2>2 DEF Deliver, RInv, TypeOK
    <3> QED
      BY <1>1, <2>1, <3>1
  <2>3. CASE Drop(t, r)
    <3>1. /\ host'[t][ty] = host[t][ty]
          /\ lost'[t][ty] = IF r.type = ty THEN TRUE ELSE lost[t][ty]
      BY <2>3 DEF Drop, RInv, TypeOK
    <3> QED
      BY <1>1, <2>1, <3>1
  <2> QED
    BY <2>2, <2>3
<1>4. \A i \in 1 .. Len(chan'[t]) : \E j \in 1 .. Len(chan[t]) : chan'[t][i] = chan[t][j]
  OBVIOUS
<1> QED
  BY <1>1, <1>2, <1>3, <1>4, WriterKeeps

\* A report is put into the channel of the active transport.
LEMMA AppendKeeps ==
    ASSUME RInv, NEW t \in Transports, ActiveTransport = {t}, NEW r \in Report, Room(t),
           chan' = [chan EXCEPT ![t] = Append(@, r)],
           UNCHANGED <<usb, ble, preferred, writer, host, lost>>
    PROVE  /\ InactiveInv'
           /\ chan' \in [Transports -> Seq(Report)]
           /\ \A u \in Transports : Len(chan'[u]) <= ChannelSize
           /\ \A u \in Transports, ty \in Types : \A S :
                 /\ Ends(u, ty, S) \/ (u = t /\ r.type = ty)
                 /\ r.val \in S \/ u # t \/ r.type # ty
                 =>
                 EndsWith(chan'[u], writer'[u], lost'[u][ty], host'[u][ty], ty, S)
<1>1. chan \in [Transports -> Seq(Report)] /\ ChannelSize \in Nat
  BY ChannelHoldsRelease DEF RInv, TypeOK
<1>2. chan'[t] = Append(chan[t], r) /\ \A u \in Transports \ {t} : chan'[u] = chan[u]
  BY <1>1
<1>3. chan' \in [Transports -> Seq(Report)]
  BY <1>1
<1>4. \A u \in Transports : Len(chan'[u]) <= ChannelSize
  <2>1. Len(chan'[t]) = Len(chan[t]) + 1 /\ Len(chan[t]) \in Nat
    BY <1>1, <1>2
  <2> QED
    BY <1>1, <1>2, <2>1 DEF Room, RInv, TypeOK
<1>5. InactiveInv'
  <2>1. ActiveTransport' = {t}
    BY DEF ActiveTransport
  <2> SUFFICES ASSUME NEW u \in Transports, u # t
               PROVE  /\ \A i \in 1 .. Len(chan'[u]) : chan'[u][i].val = Up
                      /\ \A ty \in Types : Ends(u, ty, {Up})'
    BY <2>1 DEF InactiveInv
  <2>2. /\ \A i \in 1 .. Len(chan[u]) : chan[u][i].val = Up
        /\ \A ty \in Types : Ends(u, ty, {Up})
    BY DEF RInv, PathInv, InactiveInv
  <2> QED
    BY <1>2, <2>2 DEF Ends
<1>6. ASSUME NEW u \in Transports, NEW ty \in Types, NEW S,
             Ends(u, ty, S) \/ (u = t /\ r.type = ty), r.val \in S \/ u # t \/ r.type # ty
      PROVE  EndsWith(chan'[u], writer'[u], lost'[u][ty], host'[u][ty], ty, S)
  <2>1. CASE u # t
    BY <1>2, <1>6, <2>1 DEF Ends
  <2>2. CASE u = t
    <3>1. IF r.type = ty THEN r.val \in S
          ELSE EndsWith(chan[t], writer[t], lost[t][ty], host[t][ty], ty, S)
      BY <1>6, <2>2 DEF Ends
    <3>2. EndsWith(Append(chan[t], r), writer[t], lost[t][ty], host[t][ty], ty, S)
      BY <1>1, <3>1, EndsAppended
    <3> QED
      BY <1>2, <2>2, <3>2
  <2> QED
    BY <2>1, <2>2
<1> QED
  BY <1>3, <1>4, <1>5, <1>6

\* No channel changes, nor what is in hand.
LEMMA SameEnds ==
    ASSUME UNCHANGED <<chan, writer, host, lost>>
    PROVE  \A t, ty, S : Ends(t, ty, S) =>
              EndsWith(chan'[t], writer'[t], lost'[t][ty], host'[t][ty], ty, S)
BY DEF Ends

LEMMA SameInactive ==
    ASSUME InactiveInv, UNCHANGED <<usb, ble, preferred, chan, writer, host, lost>>
    PROVE  InactiveInv'
<1>1. ActiveTransport' = ActiveTransport
  BY DEF ActiveTransport
<1>2. \A t, ty : Ends(t, ty, {Up})' <=> Ends(t, ty, {Up})
  BY DEF Ends
<1> QED
  BY <1>1, <1>2 DEF InactiveInv

LEMMA SameHeld ==
    ASSUME HeldInv, UNCHANGED <<chan, writer, host, lost, held, shared>>,
           sender'["keyboard"] = sender["keyboard"]
    PROVE  HeldInv'
<1>1. \A t, ty : Ends(t, ty, {Up, held[ty]})' <=> Ends(t, ty, {Up, held[ty]})
  BY DEF Ends
<1> QED
  BY <1>1 DEF HeldInv

LEMMA KeyboardKeeps ==
    ASSUME RInv, NEW ty \in Types, NEW v \in Values, KeyboardReport(ty, v)
    PROVE  TypeOK' /\ PathInv'
<1> DEFINE r == [type |-> ty, val |-> v]
<1>1. /\ sender["keyboard"] = {} /\ held' = [held EXCEPT ![ty] = v] /\ Submit("keyboard", r)
      /\ reports' = reports + 1
      /\ UNCHANGED <<usb, ble, preferred, preSuspend, bootMode, device, wakeup, asked, serving,
                     link, writer, retrying, host, lost, events, shared>>
  BY DEF KeyboardReport, statusVars, usbVars, bleVars
<1>2. r \in Report /\ r.type = ty /\ r.val = v
  BY DEF Report
<1> HIDE DEF r
<1>3. held' \in [Types -> Values] /\ held'[ty] = v /\ \A x \in Types \ {ty} : held'[x] = held[x]
  BY <1>1 DEF RInv, TypeOK
<1>4. ActiveTransport' = ActiveTransport /\ ActiveTransport \in {{}, {"usb"}, {"ble"}}
  BY <1>1, OneActive DEF RInv, TypeOK, ActiveTransport
<1>5. \A t \in Transports, x \in Types \ shared : Ends(t, x, {Up, held[x]})
  BY <1>1 DEF RInv, PathInv, HeldInv
<1>6. \A t \in Transports \ ActiveTransport, x \in Types : Ends(t, x, {Up})
  BY DEF RInv, PathInv, InactiveInv
<1>7. CASE ActiveTransport = {} /\ UNCHANGED <<chan, sender>>
  <2>1. \A t \in Transports, x \in Types : EndsWith(chan'[t], writer'[t], lost'[t][x], host'[t][x], x, {Up})
    BY <1>1, <1>6, <1>7, SameEnds
  <2>2. \A t \in Transports, x \in Types : EndsWith(chan'[t], writer'[t], lost'[t][x], host'[t][x], x, {Up, held'[x]})
    BY <2>1, EndsWeaker
  <2>3. InactiveInv' /\ HeldInv'
    <3>1. InactiveInv'
      BY <1>1, <1>7, SameInactive DEF RInv, PathInv
    <3>2. HeldInv'
      BY <1>1, <2>2 DEF HeldInv, Ends
    <3> QED
      BY <3>1, <3>2
  <2>4. HandsInv'
    BY <1>1, <1>7 DEF HandsInv, RInv, PathInv
  <2>5. TypeOK'
    BY <1>1, <1>3, <1>7 DEF RInv, TypeOK
  <2> QED
    BY <2>3, <2>4, <2>5 DEF PathInv
<1>8. ASSUME NEW t \in ActiveTransport, Room(t),
             chan' = [chan EXCEPT ![t] = Append(@, r)], UNCHANGED sender
      PROVE  TypeOK' /\ PathInv'
  <2>1. t \in Transports /\ ActiveTransport = {t}
    BY <1>4, <1>8 DEF Transports
  <2>2. /\ InactiveInv'
        /\ chan' \in [Transports -> Seq(Report)]
        /\ \A u \in Transports : Len(chan'[u]) <= ChannelSize
        /\ \A u \in Transports, x \in Types : \A S :
              /\ Ends(u, x, S) \/ (u = t /\ r.type = x)
              /\ r.val \in S \/ u # t \/ r.type # x
              =>
              EndsWith(chan'[u], writer'[u], lost'[u][x], host'[u][x], x, S)
    BY <1>1, <1>2, <1>8, <2>1, AppendKeeps
  <2>3. HeldInv'
    <3> SUFFICES ASSUME NEW u \in Transports, NEW x \in Types, x \notin shared
                 PROVE  EndsWith(chan'[u], writer'[u], lost'[u][x], host'[u][x], x, {Up, held'[x]})
      BY <1>1 DEF HeldInv, Ends
    <3>1. CASE u = t
      BY <1>2, <1>3, <1>5, <2>2, <3>1
    <3>2. CASE u # t
      <4>1. Ends(u, x, {Up})
        BY <1>6, <2>1, <3>2
      <4>2. EndsWith(chan'[u], writer'[u], lost'[u][x], host'[u][x], x, {Up})
        BY <2>2, <3>2, <4>1
      <4> QED
        BY <4>2, EndsWeaker
    <3> QED
      BY <3>1, <3>2
  <2>4. HandsInv'
    BY <1>1, <1>8 DEF HandsInv, RInv, PathInv
  <2>5. TypeOK'
    BY <1>1, <1>3, <1>8, <2>2 DEF RInv, TypeOK
  <2> QED
    BY <2>2, <2>3, <2>4, <2>5 DEF PathInv
<1>9. ASSUME NEW t \in ActiveTransport, ~ Room(t),
             sender' = [sender EXCEPT !["keyboard"] = {[report |-> r, to |-> t]}], UNCHANGED chan
      PROVE  TypeOK' /\ PathInv'
  <2>1. t \in Transports /\ ActiveTransport = {t}
    BY <1>4, <1>9 DEF Transports
  <2>2. sender'["keyboard"] = {[report |-> r, to |-> t]} /\ sender'["pointing"] = sender["pointing"]
    BY <1>9 DEF RInv, TypeOK, Producers
  <2>3. InactiveInv'
    BY <1>1, <1>4, <1>9, SameInactive DEF RInv, PathInv
  <2>4. HeldInv'
    <3> SUFFICES ASSUME NEW u \in Transports, NEW x \in Types, x \notin shared, u # t \/ x # ty
                 PROVE  EndsWith(chan'[u], writer'[u], lost'[u][x], host'[u][x], x, {Up, held'[x]})
      BY <1>1, <1>2, <2>2 DEF HeldInv, Ends
    <3>1. CASE u = t
      BY <1>1, <1>3, <1>5, <1>9, <3>1, SameEnds
    <3>2. CASE u # t
      <4>1. EndsWith(chan'[u], writer'[u], lost'[u][x], host'[u][x], x, {Up})
        BY <1>1, <1>6, <1>9, <2>1, <3>2, SameEnds
      <4> QED
        BY <4>1, EndsWeaker
    <3> QED
      BY <3>1, <3>2
  <2>5. HandsInv'
    BY <1>1, <1>2, <1>3, <2>2 DEF HandsInv, RInv, PathInv, Producers
  <2>6. TypeOK'
    <3>1. sender' \in [Producers -> SUBSET [report : Report, to : Transports]]
      <4>1. [report |-> r, to |-> t] \in [report : Report, to : Transports]
        BY <1>2, <2>1
      <4> QED
        BY <1>9, <4>1 DEF RInv, TypeOK
    <3> QED
      BY <1>1, <1>3, <1>9, <3>1 DEF RInv, TypeOK
  <2> QED
    BY <2>3, <2>4, <2>5, <2>6 DEF PathInv
<1> QED
  BY <1>1, <1>7, <1>8, <1>9 DEF Submit

LEMMA PointingKeeps ==
    ASSUME RInv, NEW ty \in Types, PointingReport(ty)
    PROVE  TypeOK' /\ PathInv'
<1> DEFINE r == [type |-> ty, val |-> held[ty]]
<1>1. /\ sender["pointing"] = {} /\ Submit("pointing", r) /\ reports' = reports + 1 /\ ty \in shared
      /\ UNCHANGED <<usb, ble, preferred, preSuspend, bootMode, device, wakeup, asked, serving,
                     link, writer, retrying, held, host, lost, events, shared>>
  BY DEF PointingReport, statusVars, usbVars, bleVars
<1>2. r \in Report /\ r.type = ty
  BY DEF Report, RInv, TypeOK
<1> HIDE DEF r
<1>3. ActiveTransport' = ActiveTransport /\ ActiveTransport \in {{}, {"usb"}, {"ble"}}
  BY <1>1, OneActive DEF RInv, TypeOK, ActiveTransport
<1>4. CASE ActiveTransport = {} /\ UNCHANGED <<chan, sender>>
  <2>1. InactiveInv' /\ HeldInv'
    BY <1>1, <1>4, SameInactive, SameHeld DEF RInv, PathInv
  <2>2. HandsInv'
    BY <1>1, <1>4 DEF HandsInv, RInv, PathInv
  <2>3. TypeOK'
    BY <1>1, <1>4 DEF RInv, TypeOK
  <2> QED
    BY <2>1, <2>2, <2>3 DEF PathInv
<1>5. ASSUME NEW t \in ActiveTransport, Room(t),
             chan' = [chan EXCEPT ![t] = Append(@, r)], UNCHANGED sender
      PROVE  TypeOK' /\ PathInv'
  <2>1. t \in Transports /\ ActiveTransport = {t}
    BY <1>3, <1>5 DEF Transports
  <2>2. /\ InactiveInv'
        /\ chan' \in [Transports -> Seq(Report)]
        /\ \A u \in Transports : Len(chan'[u]) <= ChannelSize
        /\ \A u \in Transports, x \in Types : \A S :
              /\ Ends(u, x, S) \/ (u = t /\ r.type = x)
              /\ r.val \in S \/ u # t \/ r.type # x
              =>
              EndsWith(chan'[u], writer'[u], lost'[u][x], host'[u][x], x, S)
    BY <1>1, <1>2, <1>5, <2>1, AppendKeeps
  <2>3. HeldInv'
    <3> SUFFICES ASSUME NEW u \in Transports, NEW x \in Types, x \notin shared,
                        Ends(u, x, {Up, held[x]})
                 PROVE  Ends(u, x, {Up, held[x]})'
      BY <1>1, <1>5 DEF HeldInv, RInv, PathInv
    <3>1. EndsWith(chan'[u], writer'[u], lost'[u][x], host'[u][x], x, {Up, held[x]})
      BY <1>1, <1>2, <2>2
    <3> QED
      BY <1>1, <3>1 DEF Ends
  <2>4. HandsInv'
    BY <1>1, <1>5 DEF HandsInv, RInv, PathInv
  <2>5. TypeOK'
    BY <1>1, <1>5, <2>2 DEF RInv, TypeOK
  <2> QED
    BY <2>2, <2>3, <2>4, <2>5 DEF PathInv
<1>6. ASSUME NEW t \in ActiveTransport, ~ Room(t),
             sender' = [sender EXCEPT !["pointing"] = {[report |-> r, to |-> t]}], UNCHANGED chan
      PROVE  TypeOK' /\ PathInv'
  <2>1. t \in Transports
    BY <1>3, <1>6 DEF Transports
  <2>2. sender'["pointing"] = {[report |-> r, to |-> t]} /\ sender'["keyboard"] = sender["keyboard"]
    BY <1>6 DEF RInv, TypeOK, Producers
  <2>3. InactiveInv' /\ HeldInv'
    BY <1>1, <1>6, <2>2, SameInactive, SameHeld DEF RInv, PathInv
  <2>4. HandsInv'
    BY <1>1, <1>2, <2>2 DEF HandsInv, RInv, PathInv, Producers
  <2>5. TypeOK'
    <3>1. sender' \in [Producers -> SUBSET [report : Report, to : Transports]]
      <4>1. [report |-> r, to |-> t] \in [report : Report, to : Transports]
        BY <1>2, <2>1
      <4> QED
        BY <1>6, <4>1 DEF RInv, TypeOK
    <3> QED
      BY <1>1, <1>6, <3>1 DEF RInv, TypeOK
  <2> QED
    BY <2>3, <2>4, <2>5 DEF PathInv
<1> QED
  BY <1>1, <1>4, <1>5, <1>6 DEF Submit

LEMMA ResumeKeeps ==
    ASSUME RInv, NEW p \in Producers, Resume(p)
    PROVE  TypeOK' /\ PathInv'
<1>1. PICK s \in sender[p] :
          /\ Room(s.to)
          /\ chan' = IF StillActive(s.to)
                     THEN [chan EXCEPT ![s.to] = Append(@, s.report)] ELSE chan
  BY DEF Resume
<1>2. /\ sender' = [sender EXCEPT ![p] = {}]
      /\ UNCHANGED <<usb, ble, preferred, preSuspend, bootMode, device, wakeup, asked, serving,
                     link, writer, retrying, held, host, lost, reports, events, shared>>
  BY DEF Resume, statusVars, usbVars, bleVars
<1>3. sender[p] = {s} /\ s.to \in Transports /\ s.report \in Report
      /\ s.report.type \in Types
  BY DEF RInv, PathInv, HandsInv, TypeOK, Report
<1>4. sender'[p] = {} /\ \A q \in Producers \ {p} : sender'[q] = sender[q]
  BY <1>2 DEF RInv, TypeOK
<1>5. ActiveTransport' = ActiveTransport /\ ActiveTransport \in {{}, {"usb"}, {"ble"}}
  BY <1>2, OneActive DEF RInv, TypeOK, ActiveTransport
<1>6. HandsInv'
  <2>1. \A q \in Producers : sender'[q] \subseteq sender[q]
    BY <1>4
  <2> QED
    BY <1>2, <2>1 DEF HandsInv, RInv, PathInv, Producers
<1>7. sender' \in [Producers -> SUBSET [report : Report, to : Transports]]
  BY <1>2 DEF RInv, TypeOK
<1>8. p = "keyboard" => s.report.val = held[s.report.type]
  BY DEF RInv, PathInv, HandsInv
<1>9. p = "pointing" => s.report.type \in shared
  BY DEF RInv, PathInv, HandsInv
<1>10. CASE StillActive(s.to)
  <2>1. ActiveTransport = {s.to} /\ chan' = [chan EXCEPT ![s.to] = Append(@, s.report)]
    BY <1>1, <1>10 DEF StillActive
  <2>2. /\ InactiveInv'
        /\ chan' \in [Transports -> Seq(Report)]
        /\ \A u \in Transports : Len(chan'[u]) <= ChannelSize
        /\ \A u \in Transports, x \in Types : \A S :
              /\ Ends(u, x, S) \/ (u = s.to /\ s.report.type = x)
              /\ s.report.val \in S \/ u # s.to \/ s.report.type # x
              =>
              EndsWith(chan'[u], writer'[u], lost'[u][x], host'[u][x], x, S)
    BY <1>1, <1>2, <1>3, <2>1, AppendKeeps
  <2>3. HeldInv'
    <3> SUFFICES ASSUME NEW u \in Transports, NEW x \in Types, x \notin shared
                 PROVE  \/ EndsWith(chan'[u], writer'[u], lost'[u][x], host'[u][x], x, {Up, held[x]})
                        \/ \E y \in sender'["keyboard"] : y.to = u /\ y.report.type = x
      BY <1>2 DEF HeldInv, Ends
    <3>1. CASE p = "keyboard" /\ u = s.to /\ s.report.type = x
      BY <1>8, <2>2, <3>1
    <3>2. CASE ~ (p = "keyboard" /\ u = s.to /\ s.report.type = x)
      <4>1. s.report.type # x \/ u # s.to
        BY <1>9, <3>2 DEF Producers
      <4>2. CASE Ends(u, x, {Up, held[x]})
        BY <2>2, <4>1, <4>2
      <4>3. ASSUME NEW y \in sender["keyboard"], y.to = u, y.report.type = x
            PROVE  y \in sender'["keyboard"]
        BY <1>3, <1>4, <3>2, <4>3 DEF Producers
      <4> QED
        BY <4>2, <4>3 DEF HeldInv, RInv, PathInv
    <3> QED
      BY <3>1, <3>2
  <2>4. TypeOK'
    BY <1>2, <1>7, <2>2 DEF RInv, TypeOK
  <2> QED
    BY <1>6, <2>2, <2>3, <2>4 DEF PathInv
<1>11. CASE ~ StillActive(s.to)
  <2>1. chan' = chan /\ s.to \notin ActiveTransport
    BY <1>1, <1>5, <1>11 DEF StillActive
  <2>2. InactiveInv'
    BY <1>2, <1>5, <2>1 DEF InactiveInv, Ends, RInv, PathInv
  <2>3. HeldInv'
    <3> SUFFICES ASSUME NEW u \in Transports, NEW x \in Types, x \notin shared
                 PROVE  \/ EndsWith(chan'[u], writer'[u], lost'[u][x], host'[u][x], x, {Up, held[x]})
                        \/ \E y \in sender'["keyboard"] : y.to = u /\ y.report.type = x
      BY <1>2 DEF HeldInv, Ends
    <3>1. CASE u = s.to
      <4>1. EndsWith(chan'[u], writer'[u], lost'[u][x], host'[u][x], x, {Up})
        BY <1>2, <2>1, <3>1, SameEnds DEF RInv, PathInv, InactiveInv
      <4> QED
        BY <4>1, EndsWeaker
    <3>2. CASE u # s.to
      <4>1. CASE Ends(u, x, {Up, held[x]})
        BY <1>2, <2>1, <4>1, SameEnds
      <4>2. ASSUME NEW y \in sender["keyboard"], y.to = u, y.report.type = x
            PROVE  y \in sender'["keyboard"]
        BY <1>3, <1>4, <3>2, <4>2 DEF Producers
      <4> QED
        BY <4>1, <4>2 DEF HeldInv, RInv, PathInv
    <3> QED
      BY <3>1, <3>2
  <2>4. TypeOK'
    BY <1>2, <1>7, <2>1 DEF RInv, TypeOK
  <2> QED
    BY <1>6, <2>2, <2>3, <2>4 DEF PathInv
<1> QED
  BY <1>10, <1>11

\* The type of what a writer delivers to or drops.
LEMMA WriterTypes ==
    ASSUME TypeOK, NEW t \in Transports, NEW r \in Report, Deliver(t, r) \/ Drop(t, r)
    PROVE  /\ host' \in [Transports -> [Types -> Values]]
           /\ lost' \in [Transports -> [Types -> BOOLEAN]]
<1>1. r.type \in Types /\ r.val \in Values
  BY DEF Report
<1>2. CASE Deliver(t, r)
  <2>1. host' \in [Transports -> [Types -> Values]]
    BY <1>1, <1>2 DEF Deliver, TypeOK
  <2>2. lost' \in [Transports -> [Types -> BOOLEAN]]
    BY <1>1, <1>2 DEF Deliver, TypeOK
  <2> QED
    BY <2>1, <2>2
<1>3. CASE Drop(t, r)
  BY <1>1, <1>3 DEF Drop, TypeOK
<1> QED
  BY <1>2, <1>3

\* The writers: a report moves on from the channel to the writer's hands, from there to the
\* host, or is dropped; a first failed write leaves it where it is.
LEMMA UsbWriterKeeps ==
    ASSUME RInv, UsbWriter
    PROVE  TypeOK' /\ PathInv'
<1> USE DEF statusVars, usbVars, bleVars
<1>1. "usb" \in Transports
  BY DEF Transports
<1>2. CASE UsbReceive
  <2>1. chan["usb"] \in Seq(Report) /\ chan["usb"] # <<>>
    BY <1>1, <1>2 DEF UsbReceive, RInv, TypeOK
  <2>2. Head(chan["usb"]) \in Report /\ Tail(chan["usb"]) \in Seq(Report)
        /\ Len(Tail(chan["usb"])) <= ChannelSize
    <3>1. Len(Tail(chan["usb"])) = Len(chan["usb"]) - 1 /\ Len(chan["usb"]) \in Nat
          /\ Head(chan["usb"]) \in Report /\ Tail(chan["usb"]) \in Seq(Report)
      BY <2>1, TailPositions
    <3> QED
      BY <1>1, <3>1, ChannelHoldsRelease DEF RInv, TypeOK
  <2>3. PathInv'
    BY <1>1, <1>2, <2>1, TakesOne DEF UsbReceive
  <2>4. /\ chan' \in [Transports -> Seq(Report)]
        /\ \A t \in Transports : Len(chan'[t]) <= ChannelSize
    BY <1>1, <1>2, <2>2 DEF UsbReceive, RInv, TypeOK
  <2>5. /\ host' \in [Transports -> [Types -> Values]]
        /\ lost' \in [Transports -> [Types -> BOOLEAN]]
    <3>1. CASE UNCHANGED <<host, lost>>
      BY <3>1 DEF RInv, TypeOK
    <3>2. CASE Drop("usb", Head(chan["usb"]))
      BY <1>1, <2>2, <3>2, WriterTypes DEF RInv
    <3> QED
      BY <1>2, <3>1, <3>2 DEF UsbReceive
  <2>6. writer' \in [Transports -> SUBSET Report] /\ wakeup' \in BOOLEAN /\ asked' \in BOOLEAN
    <3>1. writer' = writer \/ writer' = [writer EXCEPT !["usb"] = {Head(chan["usb"])}]
      BY <1>2 DEF UsbReceive
    <3>2. writer' \in [Transports -> SUBSET Report]
      <4>1. {Head(chan["usb"])} \in SUBSET Report /\ writer \in [Transports -> SUBSET Report]
        BY <2>2 DEF RInv, TypeOK
      <4> QED
        BY <3>1, <4>1
    <3>3. /\ wakeup' = TRUE \/ wakeup' = wakeup
          /\ asked' = TRUE \/ asked' = asked
      BY <1>2 DEF UsbReceive
    <3>4. wakeup' \in BOOLEAN /\ asked' \in BOOLEAN
      BY <3>3 DEF RInv, TypeOK
    <3> QED
      BY <3>2, <3>4
  <2>7. UNCHANGED <<usb, ble, preferred, preSuspend, bootMode, device, serving, link, sender,
                    retrying, held, reports, events, shared>>
    BY <1>2 DEF UsbReceive
  <2>8. TypeOK'
    BY <2>4, <2>5, <2>6, <2>7 DEF RInv, TypeOK
  <2> QED
    BY <2>3, <2>8
<1>3. CASE UsbWrite
  <2>1. PICK r \in writer["usb"] : Deliver("usb", r) \/ Drop("usb", r)
    BY <1>3 DEF UsbWrite
  <2>2. r \in Report /\ r.type \in Types /\ r.val \in Values
    BY <1>1 DEF RInv, TypeOK, Report
  <2>3. PathInv'
    BY <1>1, <1>3, <2>1, WritesOne DEF UsbWrite
  <2>4. /\ writer' \in [Transports -> SUBSET Report]
        /\ host' \in [Transports -> [Types -> Values]]
        /\ lost' \in [Transports -> [Types -> BOOLEAN]]
    <3>1. writer' \in [Transports -> SUBSET Report]
      BY <1>3 DEF UsbWrite, RInv, TypeOK
    <3> QED
      BY <1>1, <2>1, <2>2, <3>1, WriterTypes DEF RInv
  <2>5. TypeOK'
    <3>1. retrying' = FALSE
          /\ UNCHANGED <<usb, ble, preferred, preSuspend, bootMode, device, wakeup, asked, serving,
                         link, chan, sender, held, reports, events, shared>>
      BY <1>3 DEF UsbWrite
    <3>2. retrying' \in BOOLEAN
      BY <3>1
    <3> QED
      BY <2>4, <3>1, <3>2 DEF RInv, TypeOK
  <2> QED
    BY <2>3, <2>5
<1>4. CASE UsbWriteDisabled
  <2>1. PICK r \in writer["usb"] :
            \/ /\ ~ retrying /\ retrying' = TRUE /\ wakeup' = TRUE
               /\ asked' = (asked \/ usb = "Suspended")
               /\ UNCHANGED <<writer, host, lost>>
            \/ /\ retrying /\ retrying' = FALSE
               /\ writer' = [writer EXCEPT !["usb"] = {}]
               /\ Drop("usb", r)
               /\ UNCHANGED <<wakeup, asked>>
    BY <1>4 DEF UsbWriteDisabled
  <2>2. r \in Report /\ r.type \in Types
    BY <1>1 DEF RInv, TypeOK, Report
  <2>3. UNCHANGED <<usb, ble, preferred, preSuspend, bootMode, device, serving, link, chan,
                    sender, held, reports, events, shared>>
    BY <1>4 DEF UsbWriteDisabled
  <2>4. CASE UNCHANGED <<writer, host, lost>>
    <3>1. InactiveInv' /\ HeldInv'
      BY <2>3, <2>4, SameInactive, SameHeld DEF RInv, PathInv
    <3>2. HandsInv'
      BY <2>3, <2>4 DEF HandsInv, RInv, PathInv
    <3>3. wakeup' \in BOOLEAN /\ asked' \in BOOLEAN /\ retrying' \in BOOLEAN
      BY <2>1 DEF RInv, TypeOK
    <3>4. TypeOK'
      BY <2>3, <2>4, <3>3 DEF RInv, TypeOK
    <3> QED
      BY <3>1, <3>2, <3>4 DEF PathInv
  <2>5. CASE writer' = [writer EXCEPT !["usb"] = {}] /\ Drop("usb", r)
    <3>1. PathInv'
      BY <1>1, <2>3, <2>5, WritesOne
    <3>2. /\ writer' \in [Transports -> SUBSET Report]
          /\ host' \in [Transports -> [Types -> Values]]
          /\ lost' \in [Transports -> [Types -> BOOLEAN]]
      <4>1. writer' \in [Transports -> SUBSET Report]
        BY <2>5 DEF RInv, TypeOK
      <4> QED
        BY <1>1, <2>2, <2>5, <4>1, WriterTypes DEF RInv
    <3>3. wakeup' \in BOOLEAN /\ asked' \in BOOLEAN /\ retrying' \in BOOLEAN
      BY <2>1 DEF RInv, TypeOK
    <3>4. TypeOK'
      BY <2>3, <3>2, <3>3 DEF RInv, TypeOK
    <3> QED
      BY <3>1, <3>4
  <2> QED
    BY <2>1, <2>4, <2>5
<1> QED
  BY <1>2, <1>3, <1>4 DEF UsbWriter

LEMMA BleWriterKeeps ==
    ASSUME RInv, BleWriter
    PROVE  TypeOK' /\ PathInv'
<1> USE DEF statusVars, usbVars, bleVars
<1>1. "ble" \in Transports
  BY DEF Transports
<1>2. CASE BleReceive
  <2>1. chan["ble"] \in Seq(Report) /\ chan["ble"] # <<>>
    BY <1>1, <1>2 DEF BleReceive, RInv, TypeOK
  <2>2. Head(chan["ble"]) \in Report /\ Tail(chan["ble"]) \in Seq(Report)
        /\ Len(Tail(chan["ble"])) <= ChannelSize
    <3>1. Len(Tail(chan["ble"])) = Len(chan["ble"]) - 1 /\ Len(chan["ble"]) \in Nat
          /\ Head(chan["ble"]) \in Report /\ Tail(chan["ble"]) \in Seq(Report)
      BY <2>1, TailPositions
    <3> QED
      BY <1>1, <3>1, ChannelHoldsRelease DEF RInv, TypeOK
  <2>3. PathInv'
    BY <1>1, <1>2, <2>1, TakesOne DEF BleReceive
  <2>4. /\ chan' \in [Transports -> Seq(Report)]
        /\ \A t \in Transports : Len(chan'[t]) <= ChannelSize
        /\ writer' \in [Transports -> SUBSET Report]
    BY <1>1, <1>2, <2>2 DEF BleReceive, RInv, TypeOK
  <2>5. TypeOK'
    BY <1>2, <2>4 DEF BleReceive, RInv, TypeOK
  <2> QED
    BY <2>3, <2>5
<1>3. CASE BleWrite
  <2>1. PICK r \in writer["ble"] : Deliver("ble", r) \/ Drop("ble", r)
    BY <1>3 DEF BleWrite
  <2>2. r \in Report /\ r.type \in Types /\ r.val \in Values
    BY <1>1 DEF RInv, TypeOK, Report
  <2>3. PathInv'
    BY <1>1, <1>3, <2>1, WritesOne DEF BleWrite
  <2>4. /\ writer' \in [Transports -> SUBSET Report]
        /\ host' \in [Transports -> [Types -> Values]]
        /\ lost' \in [Transports -> [Types -> BOOLEAN]]
    <3>1. writer' \in [Transports -> SUBSET Report]
      BY <1>3 DEF BleWrite, RInv, TypeOK
    <3> QED
      BY <1>1, <2>1, <2>2, <3>1, WriterTypes DEF RInv
  <2>5. TypeOK'
    BY <1>3, <2>4 DEF BleWrite, RInv, TypeOK
  <2> QED
    BY <2>3, <2>5
<1> QED
  BY <1>2, <1>3 DEF BleWriter

\* What a step leaves of the state that is not on the way to a host.
FlagType ==
    /\ bootMode \in BOOLEAN
    /\ wakeup \in BOOLEAN /\ serving \in BOOLEAN /\ link \in BOOLEAN
    /\ retrying \in BOOLEAN /\ asked \in BOOLEAN

StatusType ==
    /\ usb \in {"Disabled", "Enabled", "Configured", "Suspended"}
    /\ ble \in {"Inactive", "Advertising", "Connected"}
    /\ preferred \in Transports
    /\ preSuspend \in {"Disabled", "Enabled", "Configured", "Suspended"}
    /\ device \in {"run", "suspended", "waking"}
    /\ events \in 0 .. MaxLinkEvents

\* A step of a link that writes the status, or leaves it and the channels alone, and that
\* may make hosts forget.
LEMMA LinkStepKeeps ==
    ASSUME RInv, StatusType', FlagType', PathStep, UNCHANGED <<sender, held, shared, reports>>,
           \/ \E p \in Transports : \E u, b : UpdateStatus(u, b, p)
           \/ UNCHANGED <<usb, ble, preferred, chan>>,
           writer' \in [Transports -> SUBSET Report],
           host' \in [Transports -> [Types -> Values]],
           lost' \in [Transports -> [Types -> BOOLEAN]]
    PROVE  TypeOK' /\ PathInv'
<1>1. /\ FlipStep
      /\ chan' \in [Transports -> Seq(Report)]
      /\ \A t \in Transports : Len(chan'[t]) <= ChannelSize
  <2>1. CASE \E p \in Transports : \E u, b : UpdateStatus(u, b, p)
    <3>1. PICK p \in Transports : \E u, b : UpdateStatus(u, b, p)
      BY <2>1
    <3>2. PICK u, b : UpdateStatus(u, b, p)
      BY <3>1
    <3> QED
      BY <3>2, StatusFlips DEF FlipStep, RInv
  <2>2. CASE UNCHANGED <<usb, ble, preferred, chan>>
    <3>1. ActiveTransport' = ActiveTransport
      BY <2>2 DEF ActiveTransport
    <3> QED
      BY <2>2, <3>1 DEF FlipStep, RInv, TypeOK
  <2> QED
    BY <2>1, <2>2
<1>2. PathInv'
  BY <1>1, LinkKeeps
<1>3. TypeOK'
  BY <1>1 DEF StatusType, FlagType, RInv, TypeOK
<1> QED
  BY <1>2, <1>3

\* A host that forgets its keys, the writer of its transport keeping what it has or not.
LEMMA ForgettingKeeps ==
    ASSUME RInv, NEW t \in Transports, HostForgets(t),
           writer' \in {writer, [writer EXCEPT ![t] = {}]}
    PROVE  /\ PathStep
           /\ writer' \in [Transports -> SUBSET Report]
           /\ host' \in [Transports -> [Types -> Values]]
           /\ lost' \in [Transports -> [Types -> BOOLEAN]]
<1>1. AllUp \in [Types -> Values]
  BY DEF AllUp, Values
<1>2. host' \in [Transports -> [Types -> Values]] /\ lost' \in [Transports -> [Types -> BOOLEAN]]
  BY <1>1 DEF HostForgets, RInv, TypeOK
<1>4. writer' \in [Transports -> SUBSET Report]
  BY DEF RInv, TypeOK
<1>3. PathStep
  BY DEF PathStep, HostForgets, RInv, TypeOK
<1> QED
  BY <1>2, <1>3, <1>4

LEMMA NothingForgottenKeeps ==
    ASSUME RInv, UNCHANGED <<writer, host, lost>>
    PROVE  /\ PathStep
           /\ writer' \in [Transports -> SUBSET Report]
           /\ host' \in [Transports -> [Types -> Values]]
           /\ lost' \in [Transports -> [Types -> BOOLEAN]]
BY DEF PathStep, RInv, TypeOK

\* usb_device_task and the UsbDeviceHandler callbacks.
LEMMA UsbDeviceKeeps ==
    ASSUME RInv, UsbDevice
    PROVE  TypeOK' /\ PathInv'
<1> USE DEF statusVars, usbVars, bleVars, pipeVars
<1>1. "usb" \in Transports /\ preferred \in Transports
  BY DEF Transports, RInv, TypeOK
<1>2. ASSUME NEW on \in BOOLEAN, UsbEnabled(on)
      PROVE  TypeOK' /\ PathInv'
  <2>1. StatusType' /\ FlagType'
    <3>1. StatusType'
      BY <1>2, RoutingBounds DEF UsbEnabled, UpdateStatus, LinkEvent, StatusType, RInv, TypeOK
    <3>2. FlagType'
      BY <1>2 DEF UsbEnabled, LinkEvent, FlagType, RInv, TypeOK
    <3> QED
      BY <3>1, <3>2
  <2>2. HostForgets("usb") /\ UNCHANGED <<writer, sender, held, shared, reports>>
        /\ \E p \in Transports : \E u, b : UpdateStatus(u, b, p)
    BY <1>1, <1>2 DEF UsbEnabled, LinkEvent
  <2> QED
    BY <1>1, <2>1, <2>2, ForgettingKeeps, LinkStepKeeps
<1>3. ASSUME NEW on \in BOOLEAN, UsbConfigured(on)
      PROVE  TypeOK' /\ PathInv'
  <2>1. StatusType' /\ FlagType'
    <3>1. StatusType'
      BY <1>3, RoutingBounds DEF UsbConfigured, UpdateStatus, LinkEvent, StatusType, RInv, TypeOK
    <3>2. FlagType'
      BY <1>3 DEF UsbConfigured, LinkEvent, FlagType, RInv, TypeOK
    <3> QED
      BY <3>1, <3>2
  <2>2. HostForgets("usb") /\ UNCHANGED <<writer, sender, held, shared, reports>>
        /\ \E p \in Transports : \E u, b : UpdateStatus(u, b, p)
    BY <1>1, <1>3 DEF UsbConfigured, LinkEvent
  <2> QED
    BY <1>1, <2>1, <2>2, ForgettingKeeps, LinkStepKeeps
<1>4. CASE UsbReset
  <2>1. StatusType' /\ FlagType'
    <3>1. StatusType'
      BY <1>4, RoutingBounds DEF UsbReset, UpdateStatus, LinkEvent, StatusType, RInv, TypeOK
    <3>2. FlagType'
      BY <1>4 DEF UsbReset, LinkEvent, FlagType, RInv, TypeOK
    <3> QED
      BY <3>1, <3>2
  <2>2. HostForgets("usb") /\ UNCHANGED <<writer, sender, held, shared, reports>>
        /\ \E p \in Transports : \E u, b : UpdateStatus(u, b, p)
    BY <1>1, <1>4 DEF UsbReset, LinkEvent
  <2> QED
    BY <1>1, <2>1, <2>2, ForgettingKeeps, LinkStepKeeps
<1>5. CASE UsbSuspend
  <2>1. StatusType' /\ FlagType'
    <3>1. StatusType'
      BY <1>5, RoutingBounds DEF UsbSuspend, UpdateStatus, LinkEvent, StatusType, RInv, TypeOK
    <3>2. FlagType'
      BY <1>5 DEF UsbSuspend, LinkEvent, FlagType, RInv, TypeOK
    <3> QED
      BY <3>1, <3>2
  <2>2. UNCHANGED <<writer, host, lost, sender, held, shared, reports>>
    BY <1>5 DEF UsbSuspend, LinkEvent
  <2>3. \/ \E p \in Transports : \E u, b : UpdateStatus(u, b, p)
        \/ UNCHANGED <<usb, ble, preferred, chan>>
    BY <1>1, <1>5 DEF UsbSuspend
  <2> QED
    BY <2>1, <2>2, <2>3, NothingForgottenKeeps, LinkStepKeeps
<1>6. CASE HostResumes \/ WakeupSucceeds
  <2>1. StatusType' /\ FlagType'
    <3>1. StatusType'
      BY <1>6 DEF HostResumes, WakeupSucceeds, UsbResume, UpdateStatus, StatusType, RInv, TypeOK
    <3>2. FlagType'
      BY <1>6 DEF HostResumes, WakeupSucceeds, UsbResume, FlagType, RInv, TypeOK
    <3> QED
      BY <3>1, <3>2
  <2>2. UNCHANGED <<writer, host, lost, sender, held, shared, reports>>
    BY <1>6 DEF HostResumes, WakeupSucceeds, UsbResume
  <2>3. \/ \E p \in Transports : \E u, b : UpdateStatus(u, b, p)
        \/ UNCHANGED <<usb, ble, preferred, chan>>
    BY <1>1, <1>6 DEF HostResumes, WakeupSucceeds, UsbResume
  <2> QED
    BY <2>1, <2>2, <2>3, NothingForgottenKeeps, LinkStepKeeps
<1>7. CASE TakeWakeup \/ WakeupFails \/ SetProtocol
  <2>1. StatusType' /\ FlagType'
    <3>1. StatusType'
      BY <1>7, RoutingBounds DEF TakeWakeup, WakeupFails, SetProtocol, LinkEvent, StatusType, RInv, TypeOK
    <3>2. FlagType'
      BY <1>7 DEF TakeWakeup, WakeupFails, SetProtocol, LinkEvent, FlagType, RInv, TypeOK
    <3> QED
      BY <3>1, <3>2
  <2>2. UNCHANGED <<writer, host, lost, sender, held, shared, reports, usb, ble, preferred, chan>>
    BY <1>7 DEF TakeWakeup, WakeupFails, SetProtocol, LinkEvent
  <2> QED
    BY <2>1, <2>2, NothingForgottenKeeps, LinkStepKeeps
<1> QED
  BY <1>2, <1>3, <1>4, <1>5, <1>6, <1>7 DEF UsbDevice

\* The BLE connection loop, gatt_events_task and toggle_preferred.
LEMMA BleConnectionKeeps ==
    ASSUME RInv, BleConnection \/ TogglePreferred
    PROVE  TypeOK' /\ PathInv'
<1> USE DEF statusVars, usbVars, bleVars, pipeVars
<1>1. "ble" \in Transports /\ preferred \in Transports
  BY DEF Transports, RInv, TypeOK
<1>2. CASE BleAdvertise \/ BleEncrypted
  <2>1. StatusType' /\ FlagType'
    <3>1. StatusType'
      BY <1>2 DEF BleAdvertise, BleEncrypted, UpdateStatus, StatusType, RInv, TypeOK
    <3>2. FlagType'
      BY <1>2 DEF BleAdvertise, BleEncrypted, FlagType, RInv, TypeOK
    <3> QED
      BY <3>1, <3>2
  <2>2. UNCHANGED <<writer, host, lost, sender, held, shared, reports>>
        /\ \E p \in Transports : \E u, b : UpdateStatus(u, b, p)
    BY <1>1, <1>2 DEF BleAdvertise, BleEncrypted
  <2> QED
    BY <2>1, <2>2, NothingForgottenKeeps, LinkStepKeeps
<1>3. CASE BleAccept
  <2>1. StatusType' /\ FlagType'
    <3>1. StatusType'
      BY <1>3 DEF BleAccept, StatusType, RInv, TypeOK
    <3>2. FlagType'
      BY <1>3 DEF BleAccept, FlagType, RInv, TypeOK
    <3> QED
      BY <3>1, <3>2
  <2>2. UNCHANGED <<writer, host, lost, sender, held, shared, reports, usb, ble, preferred, chan>>
    BY <1>3 DEF BleAccept
  <2> QED
    BY <2>1, <2>2, NothingForgottenKeeps, LinkStepKeeps
<1>4. CASE BleLinkLost
  <2>1. StatusType' /\ FlagType'
    <3>1. StatusType'
      BY <1>4, RoutingBounds DEF BleLinkLost, LinkEvent, StatusType, RInv, TypeOK
    <3>2. FlagType'
      BY <1>4 DEF BleLinkLost, LinkEvent, FlagType, RInv, TypeOK
    <3> QED
      BY <3>1, <3>2
  <2>2. HostForgets("ble")
        /\ UNCHANGED <<writer, sender, held, shared, reports, usb, ble, preferred, chan>>
    BY <1>4 DEF BleLinkLost, LinkEvent
  <2> QED
    BY <1>1, <2>1, <2>2, ForgettingKeeps, LinkStepKeeps
<1>5. CASE BleServeEnds \/ BleSwitchProfile
  <2>1. StatusType' /\ FlagType'
    <3>1. StatusType'
      BY <1>5, RoutingBounds DEF BleServeEnds, BleSwitchProfile, EndServe, UpdateStatus, LinkEvent, StatusType, RInv, TypeOK
    <3>2. FlagType'
      BY <1>5 DEF BleServeEnds, BleSwitchProfile, EndServe, LinkEvent, FlagType, RInv, TypeOK
    <3> QED
      BY <3>1, <3>2
  <2>2. /\ HostForgets("ble") /\ writer' = [writer EXCEPT !["ble"] = {}]
        /\ UNCHANGED <<sender, held, shared, reports>>
        /\ \E p \in Transports : \E u, b : UpdateStatus(u, b, p)
    BY <1>1, <1>5 DEF BleServeEnds, BleSwitchProfile, EndServe, LinkEvent
  <2> QED
    BY <1>1, <2>1, <2>2, ForgettingKeeps, LinkStepKeeps
<1>6. CASE TogglePreferred
  <2>1. (IF preferred = "usb" THEN "ble" ELSE "usb") \in Transports
    BY DEF Transports
  <2>2. StatusType' /\ FlagType'
    <3>1. StatusType'
      BY <1>6, <2>1, RoutingBounds DEF TogglePreferred, UpdateStatus, LinkEvent, StatusType, RInv, TypeOK
    <3>2. FlagType'
      BY <1>6, <2>1 DEF TogglePreferred, LinkEvent, FlagType, RInv, TypeOK
    <3> QED
      BY <3>1, <3>2
  <2>3. UNCHANGED <<writer, host, lost, sender, held, shared, reports>>
        /\ \E p \in Transports : \E u, b : UpdateStatus(u, b, p)
    BY <1>6, <2>1 DEF TogglePreferred, LinkEvent
  <2> QED
    BY <2>2, <2>3, NothingForgottenKeeps, LinkStepKeeps
<1> QED
  BY <1>2, <1>3, <1>4, <1>5, <1>6 DEF BleConnection

LEMMA NextRInv == RInv /\ [Next]_vars => RInv'
<1> SUFFICES ASSUME RInv, [Next]_vars PROVE TypeOK' /\ PathInv'
  BY DEF RInv
<1>1. ASSUME NEW ty \in Types, NEW v \in Values, KeyboardReport(ty, v) PROVE TypeOK' /\ PathInv'
  BY <1>1, KeyboardKeeps
<1>2. ASSUME NEW ty \in Types, PointingReport(ty) PROVE TypeOK' /\ PathInv'
  BY <1>2, PointingKeeps
<1>3. ASSUME NEW p \in Producers, Resume(p) PROVE TypeOK' /\ PathInv'
  BY <1>3, ResumeKeeps
<1>4. CASE UsbWriter
  BY <1>4, UsbWriterKeeps
<1>5. CASE BleWriter
  BY <1>5, BleWriterKeeps
<1>6. CASE UsbDevice
  BY <1>6, UsbDeviceKeeps
<1>7. CASE BleConnection \/ TogglePreferred
  BY <1>7, BleConnectionKeeps
<1>8. CASE UNCHANGED vars
  <2>1. UNCHANGED <<usb, ble, preferred, preSuspend, bootMode, device, wakeup, asked, serving,
                    link, chan, sender, writer, retrying, held, host, lost, reports, events,
                    shared>>
    BY <1>8 DEF vars, statusVars, usbVars, bleVars, pipeVars
  <2>2. StatusType' /\ FlagType'
    BY <2>1 DEF StatusType, FlagType, RInv, TypeOK
  <2> QED
    BY <2>1, <2>2, NothingForgottenKeeps, LinkStepKeeps
<1> QED
  BY <1>1, <1>2, <1>3, <1>4, <1>5, <1>6, <1>7, <1>8 DEF Next

LEMMA Invariant == Spec => []RInv
BY InitRInv, NextRInv, PTL DEF Spec

-----------------------------------------------------------------------------
(* The theorems.                                                           *)

\* A drained host shows what the last report of each type says, unless that was lost.
LEMMA QuietEnds ==
    ASSUME NEW t, NEW ty, NEW S, Quiet(t), Ends(t, ty, S)
    PROVE  lost[t][ty] \/ host[t][ty] \in S
BY DEF Quiet, Ends, EndsWith, Without

\* A transport that is not active leaves its host with nothing pressed once it is drained,
\* and leaves nothing but releases for the next host (update_status and
\* clear_and_release_report_channel), whatever the number of types and of reports, and the
\* order of flips, suspends, reconnects and writes.
THEOREM InactiveIsReleased == Spec => []InactiveHostIsClean
<1>1. RInv => InactiveHostIsClean
  <2> SUFFICES ASSUME RInv PROVE InactiveHostIsClean
    OBVIOUS
  <2>1. PreviousHostReleased
    <3> SUFFICES ASSUME NEW t \in Transports, t \notin ActiveTransport, Quiet(t),
                        NEW ty \in Types, ~ lost[t][ty]
                 PROVE  host[t][ty] = Up
      BY DEF PreviousHostReleased
    <3>1. Ends(t, ty, {Up})
      BY DEF RInv, PathInv, InactiveInv
    <3> QED
      BY <3>1, QuietEnds
  <2>2. NothingLeftForNextHost
    <3>1. "ble" \in Transports /\ chan["ble"] \in Seq(Report)
      BY DEF RInv, TypeOK, Transports
    <3>2. DOMAIN chan["ble"] = 1 .. Len(chan["ble"])
      BY <3>1
    <3> QED
      BY <3>1, <3>2 DEF NothingLeftForNextHost, RInv, PathInv, InactiveInv
  <2> QED
    BY <2>1, <2>2 DEF InactiveHostIsClean, RInv
<1> QED
  BY <1>1, Invariant, PTL

\* No host is left showing a key the keyboard does not hold: once everything on its way
\* has arrived, what it shows of a type is what the keyboard holds or nothing, unless the
\* writer lost the report that says so (send_hid_report, the writers and update_status).
THEOREM NoKeyStaysStuck == Spec => []NoStuckKey
<1>1. RInv => NoStuckKey
  <2> SUFFICES ASSUME RInv, NEW t \in Transports, Quiet(t), NEW ty \in Types, ty \notin shared,
                      ~ lost[t][ty]
               PROVE  host[t][ty] \in {Up, held[ty]}
    BY DEF NoStuckKey
  <2>1. sender["keyboard"] = {}
    BY DEF Quiet, Producers
  <2>2. Ends(t, ty, {Up, held[ty]})
    BY <2>1 DEF RInv, PathInv, HeldInv
  <2> QED
    BY <2>2, QuietEnds
<1> QED
  BY <1>1, Invariant, PTL

=============================================================================
