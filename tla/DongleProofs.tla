---------------------------- MODULE DongleProofs ----------------------------
(***************************************************************************)
(* TLAPS proofs about Dongle and the DongleRouter inside it, for any       *)
(* keyboards, any capacities of the two queues and any number of requests. *)
(*                                                                         *)
(* What the host will read is one stream: the pieces in its deframer,      *)
(* those in to_host, and the notifications still to come.  The router's    *)
(* invariant says that in this stream a first half is followed by its      *)
(* second half or by a delimiter, whatever links and sessions cut it, as   *)
(* long as the delimiters that were due found room.                        *)
(***************************************************************************)
EXTENDS Dongle, FiniteSetTheorems, SequenceTheorems, TLAPS

-----------------------------------------------------------------------------
(* The invariant of the router.                                            *)

\* What the host writes and what the keyboard sends; what the dongle itself answers.
RequestPiece == {Piece(r, 1, 1) : r \in Requests} \union {Piece(r, 1, 2) : r \in Requests}
                  \union {Piece(r, 2, 2) : r \in Requests}
HostPiece    == RequestPiece \union {Delimiter} \union {NotReady(r) : r \in Requests}
InPiece      == RequestPiece \union {Delimiter}

RouterTypes ==
    /\ up \in BOOLEAN /\ dropped \in BOOLEAN
    /\ toKb \in Seq(InPiece) /\ kbuf \in Seq(InPiece) /\ rx \in Seq(InPiece)
    /\ toHost \in Seq(HostPiece) /\ hbuf \in Seq(HostPiece) /\ notes \in Seq(RequestPiece)
    /\ Len(toKb) <= KbCap /\ Len(toHost) <= HostCap
    /\ hpc \in {"read", "forward", "reply"} /\ cur \in InPiece
    /\ head \in 0 .. 1 /\ part \in 0 .. head
    /\ fate \in [Requests -> {"unsent", "sent", "whole", "broken", "refused", "answered", "lost"}]
    /\ rose \in BOOLEAN /\ glued \in BOOLEAN /\ bogus \in BOOLEAN
    /\ left \in Scenario

\* A forward in progress knows of the link's end; nothing is under way without a link.
LinkFacts ==
    /\ up => ~ dropped
    /\ hpc = "forward" /\ ~ dropped => up
    /\ ~ up => toKb = <<>> /\ notes = <<>>
    /\ hpc = "reply" => /\ toKb = <<>> /\ notes = <<>>
                        /\ cur.req \in Requests

\* What host_to_keyboard has still to read: the halves of a frame follow each other, and
\* the second half comes first only when the first one was read.
Coming == IF hpc = "forward" THEN <<cur>> \o rx ELSE rx
InOrder(s, h) ==
    /\ \A i \in 1 .. Len(s) : s[i].k < s[i].n => i + 1 \in 1 .. Len(s) /\ s[i + 1].k = 2
    /\ \A i \in 2 .. Len(s) : s[i].k = 2 => s[i - 1].k < s[i - 1].n
    /\ h = 0 => s = <<>> \/ s[1].k = 1
    /\ h = 1 => s # <<>> /\ s[1].k = 2
ReadsInOrder == InOrder(Coming, head)

\* Every piece of the frame in flight went to the link that is up, unless it came up since.
PartInv ==
    /\ up /\ ~ rose => part = head
    /\ WholeOrAnswered

\* Neighbours in what the host reads, and the whole of it.
Fits(p, q) ==
    /\ p.k < p.n => q = Piece(p.req, 2, 2) \/ q = Delimiter \/ q.n = 0
    /\ q.k = 2 => p = Piece(q.req, 1, 2)
Flows(s) ==
    /\ \A i \in 1 .. Len(s) - 1 : Fits(s[i], s[i + 1])
    /\ s # <<>> => s[1].k # 2 /\ s[Len(s)].k = s[Len(s)].n
HostStream == hbuf \o toHost \o notes
HostInv ==
    /\ bogus => glued
    /\ ~ glued => Flows(HostStream)
    /\ ~ glued => hbuf = <<>> \/ \E r \in Requests : hbuf = <<Piece(r, 1, 2)>>

\* Vial reports are one piece.
Single(s) == \A i \in 1 .. Len(s) : s[i].n = 1
Whole(s)  == \A i \in 1 .. Len(s) : s[i].k = s[i].n
VialInv ==
    left.vial => Single(rx) /\ Single(toKb) /\ cur.n = 1
                 /\ Whole(hbuf) /\ Whole(toHost) /\ Whole(notes)

RouterInv == RouterTypes /\ LinkFacts /\ ReadsInOrder /\ PartInv /\ HostInv /\ VialInv

-----------------------------------------------------------------------------
(* The invariant of the central.                                           *)

Few(S) == S = {} \/ \E k \in Keyboards : S = {k}
Bonds  == {NoBond} \union [kb : Keyboards, key : 1 .. paired]

CentralTypes ==
    /\ pc \in {"boot", "read", "window", "search", "connect", "secure", "setup", "relay", "release"}
    /\ target \in Keyboards \union {None} /\ peer \in {"bonded", "new"}
    /\ pc \in {"connect", "secure", "setup", "relay"} => target \in Keyboards
    /\ Few(best) /\ Few(seeking) /\ first \in BOOLEAN
    /\ paired \in Nat /\ bond \in Bonds /\ saved \in Bonds
    /\ key \in [Keyboards -> 0 .. paired]
    /\ linked \in BOOLEAN

\* The dongle connects to the bonded keyboard as such, and to another one only while it has
\* no bond or in the window at power-on.
BondInv ==
    /\ pc \in {"connect", "secure"} /\ peer = "bonded" => bond # NoBond /\ bond.kb = target
    /\ pc = "window" \/ (pc \in {"connect", "secure"} /\ peer = "new") => first \/ bond = NoBond
    /\ pc = "search" => bond # NoBond

\* A keyboard that is set up or relayed shares the bond; keys are held while relayed only.
RelayInv ==
    /\ pc \in {"setup", "relay"} /\ linked => KeysMatch
    /\ pc \notin {"relay", "release"} => ~ held
    /\ up => pc = "relay"

CentralInv == CentralTypes /\ BondInv /\ RelayInv

-----------------------------------------------------------------------------
(* Pieces and streams.                                                     *)

LEMMA PieceSets ==
    /\ RequestPiece \subseteq HostPiece /\ InPiece \subseteq HostPiece
    /\ RequestPiece \subseteq InPiece /\ Delimiter \in InPiece
    /\ \A r \in Requests : NotReady(r) \in HostPiece /\ r # 0
BY DEF RequestPiece, HostPiece, InPiece, Requests

LEMMA PieceFields ==
    \A r, k, n : Piece(r, k, n).req = r /\ Piece(r, k, n).k = k /\ Piece(r, k, n).n = n
BY DEF Piece

LEMMA PieceKinds ==
    ASSUME NEW p \in HostPiece
    PROVE  \/ \E r \in Requests : p = Piece(r, 1, 1)
           \/ \E r \in Requests : p = Piece(r, 1, 2)
           \/ \E r \in Requests : p = Piece(r, 2, 2)
           \/ p = Piece(0, 1, 1)
           \/ \E r \in Requests : p = Piece(r, 0, 0)
BY DEF RequestPiece, HostPiece, Delimiter, NotReady

LEMMA HostPieceFacts ==
    ASSUME NEW p \in HostPiece
    PROVE  /\ p.k \in 0 .. 2 /\ p.n \in 0 .. 2 /\ p.k <= p.n
           /\ p.k < p.n => \E r \in Requests : p = Piece(r, 1, 2)
           /\ p.k = 2 => \E r \in Requests : p = Piece(r, 2, 2)
           /\ p.n = 0 => \E r \in Requests : p = NotReady(r)
           /\ p.n = 1 => p.k = 1
           /\ p.n = 2 => p.req \in Requests /\ p = Piece(p.req, p.k, 2)
           /\ p.req # 0 => p.req \in Requests
           /\ p.req = 0 => p = Delimiter
           /\ p = Piece(p.req, p.k, p.n)
<1>1. \A r \in Requests : r # 0
  BY DEF Requests
<1> QED
  BY <1>1, PieceKinds, PieceFields DEF Delimiter, NotReady

LEMMA InPieceFacts ==
    ASSUME NEW p \in InPiece
    PROVE  p.k \in 1 .. 2 /\ (p.req # 0 => p \in RequestPiece)
BY PieceFields DEF InPiece, RequestPiece, Delimiter

LEMMA PieceFacts ==
    /\ \A p \in HostPiece :
           /\ p.k \in 0 .. 2 /\ p.n \in 0 .. 2 /\ p.k <= p.n
           /\ p.k < p.n => \E r \in Requests : p = Piece(r, 1, 2)
           /\ p.k = 2 => \E r \in Requests : p = Piece(r, 2, 2)
           /\ p.n = 0 => \E r \in Requests : p = NotReady(r)
           /\ p.n = 1 => p.k = 1
           /\ p.n = 2 => p.req \in Requests /\ p = Piece(p.req, p.k, 2)
           /\ p.req # 0 => p.req \in Requests
           /\ p.req = 0 => p = Delimiter
           /\ p = Piece(p.req, p.k, p.n)
    /\ \A r, k, n : Piece(r, k, n).req = r /\ Piece(r, k, n).k = k /\ Piece(r, k, n).n = n
<1>1. \A p \in HostPiece :
           /\ p.k \in 0 .. 2 /\ p.n \in 0 .. 2 /\ p.k <= p.n
           /\ p.k < p.n => \E r \in Requests : p = Piece(r, 1, 2)
           /\ p.k = 2 => \E r \in Requests : p = Piece(r, 2, 2)
           /\ p.n = 0 => \E r \in Requests : p = NotReady(r)
           /\ p.n = 1 => p.k = 1
           /\ p.n = 2 => p.req \in Requests /\ p = Piece(p.req, p.k, 2)
           /\ p.req # 0 => p.req \in Requests
           /\ p.req = 0 => p = Delimiter
           /\ p = Piece(p.req, p.k, p.n)
  BY HostPieceFacts
<1> QED
  BY <1>1, PieceFields

\* A whole frame, and its halves.
LEMMA WholeFrames ==
    ASSUME NEW r \in Requests
    PROVE  /\ Pieces(r, 1) = <<Piece(r, 1, 1)>>
           /\ Pieces(r, 2) = <<Piece(r, 1, 2), Piece(r, 2, 2)>>
           /\ Pieces(r, 1) \in Seq(RequestPiece) /\ Pieces(r, 2) \in Seq(RequestPiece)
<1>1. Pieces(r, 1) = <<Piece(r, 1, 1)>>
  BY DEF Pieces
<1>2. Pieces(r, 2) = <<Piece(r, 1, 2), Piece(r, 2, 2)>>
  BY DEF Pieces
<1>3. /\ Piece(r, 1, 1) \in RequestPiece /\ Piece(r, 1, 2) \in RequestPiece
      /\ Piece(r, 2, 2) \in RequestPiece
  BY DEF RequestPiece
<1>4. \A p, q \in RequestPiece : <<p>> \in Seq(RequestPiece) /\ <<p, q>> \in Seq(RequestPiece)
  OBVIOUS
<1> QED
  BY <1>1, <1>2, <1>3, <1>4

\* Two sequence facts the prover does not find by itself.
LEMMA TwoElements ==
    ASSUME NEW S, NEW x \in S, NEW y \in S
    PROVE  Append(<<x>>, y) = <<x, y>>
<1> DEFINE a == Append(<<x>>, y)
           b == <<x, y>>
<1>1. a \in Seq(S) /\ Len(a) = 2 /\ a[1] = x /\ a[2] = y
  <2>1. <<x>> \in Seq(S)
    OBVIOUS
  <2>2. Len(a) = 2 /\ a \in Seq(S)
    BY <2>1
  <2>3. a[1] = x /\ a[2] = y
    BY <2>1
  <2> QED
    BY <2>2, <2>3
<1>2. b \in Seq(S) /\ Len(b) = 2 /\ b[1] = x /\ b[2] = y
  OBVIOUS
<1> HIDE DEF a, b
<1>3. \A i \in 1 .. Len(a) : a[i] = b[i]
  BY <1>1, <1>2
<1>4. a = b
  BY <1>1, <1>2, <1>3, SeqEqual
<1> QED
  BY <1>4 DEF a, b

LEMMA Regroup ==
    ASSUME NEW S, NEW h \in Seq(S), NEW p \in S, NEW u \in Seq(S)
    PROVE  h \o (<<p>> \o u) = h \o <<p>> \o u
<1>1. <<p>> \in Seq(S)
  OBVIOUS
<1> QED
  BY <1>1, ConcatAssociative

LEMMA Associative ==
    \A s, t, u \in Seq(HostPiece) : s \o t \o u = s \o (t \o u) /\ t \o u \in Seq(HostPiece)
BY ConcatAssociative, ConcatProperties

\* A piece that ends a frame may follow a stream that ends with one.
LEMMA FlowsAppended ==
    ASSUME NEW s \in Seq(HostPiece), NEW q \in HostPiece, Flows(s), q.k = q.n, q.k # 2
    PROVE  Flows(Append(s, q))
<1> DEFINE a == Append(s, q)
<1>1. /\ Len(a) = Len(s) + 1 /\ Len(s) \in Nat /\ a[Len(s) + 1] = q /\ a # <<>>
      /\ \A i \in 1 .. Len(s) : a[i] = s[i] /\ s[i] \in HostPiece
  OBVIOUS
<1>2. s = <<>> <=> Len(s) = 0
  OBVIOUS
<1> HIDE DEF a
<1>3. ASSUME NEW i \in 1 .. Len(a) - 1 PROVE Fits(a[i], a[i + 1])
  <2>1. CASE i < Len(s)
    <3>1. i \in 1 .. Len(s) - 1 /\ i \in 1 .. Len(s) /\ i + 1 \in 1 .. Len(s)
      BY <1>1, <1>3, <2>1
    <3> QED
      BY <1>1, <3>1 DEF Flows
  <2>2. CASE i = Len(s)
    <3>1. s # <<>> /\ i \in 1 .. Len(s)
      BY <1>1, <1>2, <1>3, <2>2
    <3>2. a[i].k = a[i].n /\ a[i] \in HostPiece
      BY <1>1, <2>2, <3>1 DEF Flows
    <3>3. ~ (a[i].k < a[i].n)
      BY <3>2, PieceFacts
    <3> QED
      BY <1>1, <2>2, <3>3 DEF Fits
  <2> QED
    BY <1>1, <1>3, <2>1, <2>2
<1>4. a[1].k # 2 /\ a[Len(a)].k = a[Len(a)].n
  <2>1. CASE s = <<>>
    BY <1>1, <1>2, <2>1
  <2>2. CASE s # <<>>
    <3>1. 1 \in 1 .. Len(s)
      BY <1>1, <1>2, <2>2
    <3> QED
      BY <1>1, <2>2, <3>1 DEF Flows
  <2> QED
    BY <2>1, <2>2
<1>5. Flows(a)
  BY <1>3, <1>4 DEF Flows
<1> QED
  BY <1>5 DEF a

\* The keyboard's answers follow whatever came before.
LEMMA FlowsAnswered ==
    ASSUME NEW s \in Seq(HostPiece), NEW r \in Requests, NEW n \in 1 .. 2, Flows(s)
    PROVE  Flows(s \o Pieces(r, n))
<1>1. CASE n = 1
  <2>2. Piece(r, 1, 1) \in HostPiece
    BY DEF HostPiece, RequestPiece
  <2>1. s \o Pieces(r, n) = Append(s, Piece(r, 1, 1))
    BY <1>1, <2>2, WholeFrames, AppendIsConcat
  <2> QED
    BY <2>1, <2>2, FlowsAppended, PieceFacts
<1>2. CASE n = 2
  <2> DEFINE p == Piece(r, 1, 2)
             q == Piece(r, 2, 2)
             a == s \o <<p, q>>
  <2>1. p \in HostPiece /\ q \in HostPiece /\ p.k = 1 /\ q.k = 2 /\ q.n = 2 /\ p.n = 2
        /\ p = Piece(q.req, 1, 2) /\ q = Piece(p.req, 2, 2)
    BY PieceFacts DEF HostPiece, RequestPiece
  <2>2. s \o Pieces(r, n) = a
    BY <1>2, WholeFrames
  <2> HIDE DEF p, q
  <2>3. /\ Len(a) = Len(s) + 2 /\ Len(s) \in Nat /\ a[Len(s) + 1] = p /\ a[Len(s) + 2] = q
        /\ a # <<>> /\ \A i \in 1 .. Len(s) : a[i] = s[i] /\ s[i] \in HostPiece
    BY <2>1
  <2>4. s = <<>> <=> Len(s) = 0
    OBVIOUS
  <2> HIDE DEF a
  <2>5. ASSUME NEW i \in 1 .. Len(a) - 1 PROVE Fits(a[i], a[i + 1])
    <3>1. CASE i < Len(s)
      <4>1. i \in 1 .. Len(s) - 1 /\ i \in 1 .. Len(s) /\ i + 1 \in 1 .. Len(s)
        BY <2>3, <2>5, <3>1
      <4> QED
        BY <2>3, <4>1 DEF Flows
    <3>2. CASE i = Len(s)
      <4>1. s # <<>> /\ i \in 1 .. Len(s)
        BY <2>3, <2>4, <2>5, <3>2
      <4>2. a[i].k = a[i].n /\ a[i] \in HostPiece
        BY <2>3, <3>2, <4>1 DEF Flows
      <4>3. ~ (a[i].k < a[i].n)
        BY <4>2, PieceFacts
      <4> QED
        BY <2>1, <2>3, <3>2, <4>3 DEF Fits
    <3>3. CASE i = Len(s) + 1
      BY <2>1, <2>3, <3>3 DEF Fits
    <3> QED
      BY <2>3, <2>5, <3>1, <3>2, <3>3
  <2>6. a[1].k # 2 /\ a[Len(a)].k = a[Len(a)].n
    <3>1. CASE s = <<>>
      BY <2>1, <2>3, <2>4, <3>1
    <3>2. CASE s # <<>>
      <4>1. 1 \in 1 .. Len(s)
        BY <2>3, <2>4, <3>2
      <4> QED
        BY <2>1, <2>3, <3>2, <4>1 DEF Flows
    <3> QED
      BY <3>1, <3>2
  <2> QED
    BY <2>2, <2>5, <2>6 DEF Flows
<1> QED
  BY <1>1, <1>2

\* A link that goes takes the rest of a reply with it; a delimiter closes what came of it.
LEMMA FlowsCut ==
    ASSUME NEW s \in Seq(HostPiece), NEW n \in Seq(HostPiece), Flows(s \o n)
    PROVE  Flows(Append(s, Delimiter))
<1> DEFINE a == Append(s, Delimiter)
           c == s \o n
<1>1. /\ Len(a) = Len(s) + 1 /\ Len(s) \in Nat /\ a[Len(s) + 1] = Delimiter /\ a # <<>>
      /\ \A i \in 1 .. Len(s) : a[i] = s[i] /\ s[i] \in HostPiece
  OBVIOUS
<1>2. /\ Len(c) = Len(s) + Len(n) /\ Len(n) \in Nat
      /\ \A i \in 1 .. Len(s) : c[i] = s[i]
      /\ s = <<>> <=> Len(s) = 0
      /\ s # <<>> => c # <<>>
  OBVIOUS
<1>3. Delimiter.k = 1 /\ Delimiter.n = 1
  BY PieceFacts DEF Delimiter
<1> HIDE DEF a, c
<1>4. ASSUME NEW i \in 1 .. Len(a) - 1 PROVE Fits(a[i], a[i + 1])
  <2>1. CASE i < Len(s)
    <3>1. i \in 1 .. Len(c) - 1 /\ i \in 1 .. Len(s) /\ i + 1 \in 1 .. Len(s)
      BY <1>1, <1>2, <1>4, <2>1
    <3> QED
      BY <1>1, <1>2, <3>1 DEF Flows, c
  <2>2. CASE i = Len(s)
    BY <1>1, <1>3, <2>2 DEF Fits
  <2> QED
    BY <1>1, <1>4, <2>1, <2>2
<1>5. a[1].k # 2
  <2>1. CASE s = <<>>
    BY <1>1, <1>2, <1>3, <2>1
  <2>2. CASE s # <<>>
    <3>1. 1 \in 1 .. Len(s)
      BY <1>1, <1>2, <2>2
    <3> QED
      BY <1>1, <1>2, <2>2, <3>1 DEF Flows, c
  <2> QED
    BY <2>1, <2>2
<1> QED
  BY <1>1, <1>3, <1>4, <1>5 DEF Flows, a

\* The host's deframer takes one piece: a frame it completes is one that was sent, and a
\* first half is followed by its second half.
LEMMA FlowsRead ==
    ASSUME NEW h \in Seq(HostPiece), NEW t \in Seq(HostPiece), NEW n \in Seq(HostPiece),
           Flows(h \o t \o n), h = <<>> \/ \E r \in Requests : h = <<Piece(r, 1, 2)>>, t # <<>>
    PROVE  /\ Head(t).k = Head(t).n =>
                 /\ Flows(Tail(t) \o n)
                 /\ \/ Head(t).n = 0 \/ Head(t).req = 0
                    \/ Append(h, Head(t)) = Pieces(Head(t).req, Head(t).n)
           /\ Head(t).k # Head(t).n =>
                 h = <<>> /\ \E r \in Requests : Head(t) = Piece(r, 1, 2)
<1> DEFINE p == Head(t)
           c == h \o t \o n
           b == Tail(t) \o n
<1>1. p \in HostPiece /\ Tail(t) \in Seq(HostPiece) /\ t = <<p>> \o Tail(t) /\ Len(t) > 0
  OBVIOUS
<1>2. c = h \o <<p>> \o b
  <2> HIDE DEF p
  <2>1. c = h \o (t \o n)
    BY Associative
  <2>2. <<p>> \in Seq(HostPiece) /\ b \in Seq(HostPiece)
    BY <1>1, ConcatProperties
  <2>3. t \o n = <<p>> \o b
    <3>1. t \o n = (<<p>> \o Tail(t)) \o n
      BY <1>1
    <3> QED
      BY <1>1, <2>2, <3>1, Associative
  <2>4. \A u \in Seq(HostPiece) : h \o (<<p>> \o u) = h \o <<p>> \o u
    BY <1>1, Regroup
  <2> QED
    BY <2>1, <2>2, <2>3, <2>4
<1>3. b \in Seq(HostPiece) /\ Len(b) \in Nat
  BY <1>1
<1> HIDE DEF p, b
<1>4. /\ Len(c) = Len(h) + 1 + Len(b) /\ Len(h) \in Nat /\ c[Len(h) + 1] = p /\ c # <<>>
      /\ \A i \in 1 .. Len(h) : c[i] = h[i]
      /\ \A i \in 1 .. Len(b) : c[Len(h) + 1 + i] = b[i] /\ b[i] \in HostPiece
  BY <1>1, <1>2, <1>3
<1>5. Flows(c)
  OBVIOUS
<1> HIDE DEF c
<1>6. \/ Len(h) = 0 /\ h = <<>>
      \/ Len(h) = 1 /\ \E r \in Requests : h = <<Piece(r, 1, 2)>>
  OBVIOUS
<1>7. ASSUME Len(h) = 1
      PROVE  \E r \in Requests : h = <<Piece(r, 1, 2)>>
                /\ (p = Piece(r, 2, 2) \/ p = Delimiter \/ p.n = 0)
  <2>1. PICK r \in Requests : h = <<Piece(r, 1, 2)>>
    BY <1>6, <1>7
  <2>2. c[1] = Piece(r, 1, 2) /\ c[2] = p /\ 1 \in 1 .. Len(c) - 1
    BY <1>3, <1>4, <1>7, <2>1
  <2>3. Fits(c[1], c[1 + 1])
    BY <1>5, <2>2 DEF Flows
  <2> QED
    BY <2>1, <2>2, <2>3, PieceFacts DEF Fits
<1>8. ASSUME p.k # p.n
      PROVE  h = <<>> /\ \E r \in Requests : p = Piece(r, 1, 2)
  <2>1. \E r \in Requests : p = Piece(r, 1, 2)
    BY <1>1, <1>8, PieceFacts
  <2>2. Len(h) # 1
    BY <1>7, <1>8, <2>1, PieceFacts DEF Delimiter
  <2> QED
    BY <1>6, <2>1, <2>2
<1>9. ASSUME p.k = p.n, p.n # 0, p.req # 0
      PROVE  Append(h, p) = Pieces(p.req, p.n)
  <2>1. p.req \in Requests /\ p.n \in 1 .. 2
    BY <1>1, <1>9, PieceFacts
  <2>2. CASE p.n = 1
    <3>1. p = Piece(p.req, 1, 1)
      BY <1>1, <1>9, <2>2, PieceFacts DEF HostPiece, RequestPiece, Piece, NotReady, Delimiter
    <3>2. Len(h) # 1
      BY <1>7, <1>9, <2>2, PieceFacts DEF Delimiter
    <3>3. h = <<>>
      BY <1>6, <3>2
    <3>4. Append(h, p) = <<p>>
      BY <3>3
    <3>5. Pieces(p.req, 1) = <<p>>
      BY <2>1, <3>1, WholeFrames
    <3> QED
      BY <2>2, <3>4, <3>5
  <2>3. CASE p.n = 2
    <3>1. p = Piece(p.req, 2, 2)
      BY <1>1, <1>9, <2>3, PieceFacts
    <3>2. Len(h) # 0
      BY <1>4, <1>5, <1>9, <2>3 DEF Flows
    <3>3. PICK r \in Requests : h = <<Piece(r, 1, 2)>>
                /\ (p = Piece(r, 2, 2) \/ p = Delimiter \/ p.n = 0)
      BY <1>6, <1>7, <3>2
    <3>4. r = p.req
      BY <1>9, <3>1, <3>3, PieceFacts DEF Delimiter
    <3>5. Append(h, p) = <<Piece(r, 1, 2), p>>
      <4>1. Piece(r, 1, 2) \in HostPiece
        BY DEF HostPiece, RequestPiece
      <4> QED
        BY <1>1, <3>3, <4>1, TwoElements
    <3>6. Pieces(p.req, 2) = <<Piece(p.req, 1, 2), Piece(p.req, 2, 2)>>
      BY <2>1, WholeFrames
    <3> QED
      BY <2>3, <3>1, <3>4, <3>5, <3>6
  <2> QED
    BY <2>1, <2>2, <2>3
<1>10. ASSUME p.k = p.n
       PROVE  Flows(b)
  <2>1. ASSUME NEW i \in 1 .. Len(b) - 1 PROVE Fits(b[i], b[i + 1])
    <3>1. Len(h) + 1 + i \in 1 .. Len(c) - 1 /\ i \in 1 .. Len(b) /\ i + 1 \in 1 .. Len(b)
      BY <1>3, <1>4
    <3>2. Fits(c[Len(h) + 1 + i], c[(Len(h) + 1 + i) + 1])
      BY <1>5, <3>1 DEF Flows
    <3>3. (Len(h) + 1 + i) + 1 = Len(h) + 1 + (i + 1)
      BY <1>4
    <3> QED
      BY <1>4, <3>1, <3>2, <3>3
  <2>2. ASSUME b # <<>> PROVE b[1].k # 2 /\ b[Len(b)].k = b[Len(b)].n
    <3>1. Len(b) > 0
      BY <1>3, <2>2
    <3>2. 1 \in 1 .. Len(b) /\ Len(b) \in 1 .. Len(b) /\ Len(h) + 1 \in 1 .. Len(c) - 1
      BY <1>3, <1>4, <3>1
    <3>3. Fits(c[Len(h) + 1], c[(Len(h) + 1) + 1])
      BY <1>5, <3>2 DEF Flows
    <3>4. c[(Len(h) + 1) + 1] = b[1] /\ c[Len(c)] = b[Len(b)]
      BY <1>3, <1>4, <3>2
    <3>5. b[1].k = 2 => p.k = 1 /\ p.n = 2
      BY <1>4, <3>3, <3>4, PieceFacts DEF Fits
    <3> QED
      BY <1>4, <1>5, <1>10, <3>4, <3>5 DEF Flows
  <2> QED
    BY <2>1, <2>2 DEF Flows
<1> QED
  BY <1>8, <1>9, <1>10 DEF p, b

\* In a stream of whole pieces nothing may be a second half.
LEMMA FlowsWhole ==
    ASSUME NEW s \in Seq(HostPiece), Whole(s)
    PROVE  Flows(s) <=> \A i \in 1 .. Len(s) : s[i].k # 2
<1>1. Len(s) \in Nat /\ (s = <<>> <=> Len(s) = 0) /\ \A i \in 1 .. Len(s) : s[i] \in HostPiece
  OBVIOUS
<1> USE DEF Whole
<1>2. ASSUME Flows(s), NEW i \in 1 .. Len(s), s[i].k = 2 PROVE FALSE
  <2>1. CASE i = 1
    BY <1>1, <1>2, <2>1 DEF Flows
  <2>2. CASE i # 1
    <3>1. i - 1 \in 1 .. Len(s) - 1 /\ i - 1 \in 1 .. Len(s) /\ (i - 1) + 1 = i
      BY <1>1, <2>2
    <3>2. s[i - 1] = Piece(s[i].req, 1, 2)
      BY <1>2, <3>1 DEF Flows, Fits
    <3> QED
      BY <3>1, <3>2, PieceFacts
  <2> QED
    BY <2>1, <2>2
<1>3. ASSUME \A i \in 1 .. Len(s) : s[i].k # 2 PROVE Flows(s)
  <2>1. ASSUME NEW i \in 1 .. Len(s) - 1 PROVE Fits(s[i], s[i + 1])
    <3>1. i \in 1 .. Len(s) /\ i + 1 \in 1 .. Len(s)
      BY <1>1
    <3>2. s[i + 1].k # 2 /\ s[i].k = s[i].n /\ s[i] \in HostPiece
      BY <1>1, <1>3, <3>1
    <3>3. ~ (s[i].k < s[i].n)
      BY <3>2, PieceFacts
    <3> QED
      BY <3>2, <3>3 DEF Fits
  <2>2. s # <<>> => 1 \in 1 .. Len(s) /\ Len(s) \in 1 .. Len(s)
    BY <1>1
  <2> QED
    BY <1>3, <2>1, <2>2 DEF Flows
<1> QED
  BY <1>2, <1>3

\* What is left of a stream flows unless it starts with a second half.
LEMMA FlowsSuffix ==
    ASSUME NEW s \in Seq(HostPiece), NEW n \in Seq(HostPiece), Flows(s \o n),
           n # <<>> => n[1].k # 2
    PROVE  Flows(n)
<1> DEFINE c == s \o n
<1>1. /\ Len(c) = Len(s) + Len(n) /\ Len(n) \in Nat /\ Len(s) \in Nat
      /\ \A i \in 1 .. Len(n) : c[Len(s) + i] = n[i]
      /\ n # <<>> => Len(n) > 0
      /\ c # <<>> <=> Len(c) # 0
  OBVIOUS
<1> HIDE DEF c
<1>2. ASSUME NEW i \in 1 .. Len(n) - 1 PROVE Fits(n[i], n[i + 1])
  <2>1. Len(s) + i \in 1 .. Len(c) - 1 /\ i \in 1 .. Len(n) /\ i + 1 \in 1 .. Len(n)
        /\ (Len(s) + i) + 1 = Len(s) + (i + 1)
    BY <1>1
  <2>2. Fits(c[Len(s) + i], c[(Len(s) + i) + 1])
    BY <2>1 DEF Flows, c
  <2> QED
    BY <1>1, <2>1, <2>2
<1>3. ASSUME n # <<>> PROVE n[Len(n)].k = n[Len(n)].n
  <2>1. Len(n) \in 1 .. Len(n) /\ c # <<>>
    BY <1>1, <1>3
  <2>2. c[Len(c)].k = c[Len(c)].n
    BY <2>1 DEF Flows, c
  <2> QED
    BY <1>1, <2>1, <2>2
<1> QED
  BY <1>2, <1>3 DEF Flows

\* The stream the host reads, when a piece moves on or is added in to_host.
LEMMA StreamMoves ==
    ASSUME NEW S, NEW h \in Seq(S), NEW t \in Seq(S), NEW n \in Seq(S)
    PROVE  /\ h \o t \in Seq(S) /\ h \o t \o n \in Seq(S)
           /\ h \o t \o <<>> = h \o t
           /\ \A q \in S : h \o Append(t, q) \o <<>> = Append(h \o t, q)
           /\ n # <<>> => h \o Append(t, Head(n)) \o Tail(n) = h \o t \o n
           /\ t # <<>> => Append(h, Head(t)) \o Tail(t) \o n = h \o t \o n
<1>1. h \o t \in Seq(S) /\ h \o t \o n \in Seq(S) /\ h \o t \o <<>> = h \o t
  <2>1. h \o t \in Seq(S)
    BY ConcatProperties
  <2> QED
    BY <2>1, ConcatProperties, ConcatEmptySeq
<1>2. ASSUME NEW q \in S PROVE h \o Append(t, q) = Append(h \o t, q) /\ Append(t, q) \in Seq(S)
  <2>1. <<q>> \in Seq(S)
    OBVIOUS
  <2>2. Append(t, q) = t \o <<q>> /\ Append(h \o t, q) = (h \o t) \o <<q>>
    BY <1>1, AppendIsConcat
  <2>3. h \o (t \o <<q>>) = (h \o t) \o <<q>>
    BY <2>1, ConcatAssociative
  <2>4. Append(t, q) \in Seq(S)
    OBVIOUS
  <2> QED
    BY <2>2, <2>3, <2>4
<1>3. ASSUME NEW q \in S PROVE h \o Append(t, q) \o <<>> = Append(h \o t, q)
  <2>1. Append(h \o t, q) \in Seq(S)
    BY <1>1
  <2> QED
    BY <1>2, <2>1, ConcatEmptySeq
<1>4. ASSUME n # <<>> PROVE h \o Append(t, Head(n)) \o Tail(n) = h \o t \o n
  <2>1. Head(n) \in S /\ Tail(n) \in Seq(S) /\ n = <<Head(n)>> \o Tail(n) /\ <<Head(n)>> \in Seq(S)
    BY <1>4
  <2>2. Append(h \o t, Head(n)) = (h \o t) \o <<Head(n)>>
    BY <1>1, <2>1, AppendIsConcat
  <2>3. (h \o t) \o <<Head(n)>> \o Tail(n) = (h \o t) \o (<<Head(n)>> \o Tail(n))
    BY <1>1, <2>1, ConcatAssociative
  <2> QED
    BY <1>2, <2>1, <2>2, <2>3
<1>5. ASSUME t # <<>> PROVE Append(h, Head(t)) \o Tail(t) \o n = h \o t \o n
  <2>1. Head(t) \in S /\ Tail(t) \in Seq(S) /\ t = <<Head(t)>> \o Tail(t) /\ <<Head(t)>> \in Seq(S)
    BY <1>5
  <2>2. Append(h, Head(t)) = h \o <<Head(t)>>
    BY <2>1, AppendIsConcat
  <2>3. h \o <<Head(t)>> \o Tail(t) = h \o (<<Head(t)>> \o Tail(t))
    BY <2>1, ConcatAssociative
  <2> QED
    BY <2>1, <2>2, <2>3
<1> QED
  BY <1>1, <1>3, <1>4, <1>5

\* A frame the host writes keeps what is coming in order.
LEMMA InOrderSent ==
    ASSUME NEW s \in Seq(InPiece), NEW h \in 0 .. 1, NEW r \in Requests, NEW n \in 1 .. 2,
           InOrder(s, h)
    PROVE  InOrder(s \o Pieces(r, n), h)
<1> DEFINE c == s \o Pieces(r, n)
<1>1. /\ Len(s) \in Nat /\ (s = <<>> <=> Len(s) = 0)
      /\ \A i \in 1 .. Len(s) : s[i] \in InPiece
  OBVIOUS
<1>2. /\ Len(c) = Len(s) + n /\ \A i \in 1 .. Len(s) : c[i] = s[i]
      /\ c[Len(s) + 1] = Piece(r, 1, n) /\ (n = 2 => c[Len(s) + 2] = Piece(r, 2, 2))
      /\ c # <<>>
  <2>1. Piece(r, 1, 1) \in InPiece /\ Piece(r, 1, 2) \in InPiece /\ Piece(r, 2, 2) \in InPiece
    BY DEF InPiece, RequestPiece
  <2>2. \A p \in InPiece :
           /\ Len(s \o <<p>>) = Len(s) + 1 /\ \A i \in 1 .. Len(s) : (s \o <<p>>)[i] = s[i]
           /\ (s \o <<p>>)[Len(s) + 1] = p /\ s \o <<p>> # <<>>
    OBVIOUS
  <2>3. \A p, q \in InPiece :
           /\ Len(s \o <<p, q>>) = Len(s) + 2
           /\ \A i \in 1 .. Len(s) : (s \o <<p, q>>)[i] = s[i]
           /\ (s \o <<p, q>>)[Len(s) + 1] = p /\ (s \o <<p, q>>)[Len(s) + 2] = q
           /\ s \o <<p, q>> # <<>>
    OBVIOUS
  <2>4. CASE n = 1
    <3>1. c = s \o <<Piece(r, 1, 1)>>
      BY <2>4, WholeFrames
    <3> HIDE DEF c
    <3> QED
      BY <2>1, <2>2, <2>4, <3>1
  <2>5. CASE n = 2
    <3>1. c = s \o <<Piece(r, 1, 2), Piece(r, 2, 2)>>
      BY <2>5, WholeFrames
    <3> HIDE DEF c
    <3> QED
      BY <2>1, <2>3, <2>5, <3>1
  <2> QED
    BY <2>4, <2>5
<1>3. /\ Piece(r, 1, n).k = 1 /\ Piece(r, 1, n).n = n
      /\ Piece(r, 2, 2).k = 2 /\ Piece(r, 2, 2).n = 2
  BY PieceFacts
<1>4. Len(s) > 0 => ~ (s[Len(s)].k < s[Len(s)].n)
  BY <1>1 DEF InOrder
<1> HIDE DEF c
<1>5. ASSUME NEW i \in 1 .. Len(c), c[i].k < c[i].n
      PROVE  i + 1 \in 1 .. Len(c) /\ c[i + 1].k = 2
  <2>1. CASE i < Len(s)
    <3>1. i \in 1 .. Len(s) /\ i + 1 \in 1 .. Len(s)
      BY <1>1, <2>1
    <3> QED
      BY <1>1, <1>2, <1>5, <3>1 DEF InOrder
  <2>2. CASE i = Len(s)
    BY <1>1, <1>2, <1>4, <1>5, <2>2
  <2>3. CASE i = Len(s) + 1
    BY <1>1, <1>2, <1>3, <1>5, <2>3
  <2>4. CASE i = Len(s) + 2
    BY <1>1, <1>2, <1>3, <1>5, <2>4
  <2> QED
    BY <1>1, <1>2, <2>1, <2>2, <2>3, <2>4
<1>6. ASSUME NEW i \in 2 .. Len(c), c[i].k = 2
      PROVE  c[i - 1].k < c[i - 1].n
  <2>1. CASE i <= Len(s)
    <3>1. i \in 2 .. Len(s) /\ i \in 1 .. Len(s) /\ i - 1 \in 1 .. Len(s)
      BY <1>1, <2>1
    <3> QED
      BY <1>1, <1>2, <1>6, <3>1 DEF InOrder
  <2>2. CASE i = Len(s) + 1
    BY <1>1, <1>2, <1>3, <1>6, <2>2
  <2>3. CASE i = Len(s) + 2
    <3>1. n = 2 /\ i - 1 = Len(s) + 1
      BY <1>1, <1>2, <2>3
    <3> QED
      BY <1>2, <1>3, <3>1
  <2> QED
    BY <1>1, <1>2, <2>1, <2>2, <2>3
<1>7. CASE s = <<>>
  BY <1>1, <1>2, <1>3, <1>5, <1>6, <1>7 DEF InOrder, c
<1>8. CASE s # <<>>
  <2>1. 1 \in 1 .. Len(s)
    BY <1>1, <1>8
  <2>2. c[1] = s[1]
    BY <1>2, <2>1
  <2> QED
    BY <1>2, <1>5, <1>6, <1>8, <2>2 DEF InOrder, c
<1> QED
  BY <1>7, <1>8

\* The next piece: a first half begins a frame, a second half ends the one that was begun.
LEMMA InOrderRead ==
    ASSUME NEW p \in InPiece, NEW t \in Seq(InPiece), NEW h \in 0 .. 1, InOrder(<<p>> \o t, h)
    PROVE  /\ h = 0 \/ (h = 1 /\ p.k = 2 /\ p.n = 2)
           /\ p.k < p.n => h = 0 /\ InOrder(t, 1)
           /\ p.k = p.n => InOrder(t, 0)
<1> DEFINE c == <<p>> \o t
<1>1. /\ Len(t) \in Nat /\ (t = <<>> <=> Len(t) = 0) /\ Len(c) = Len(t) + 1
      /\ c[1] = p /\ c # <<>> /\ \A i \in 1 .. Len(t) : c[i + 1] = t[i] /\ t[i] \in InPiece
  OBVIOUS
<1> HIDE DEF c
<1>2. /\ p.k \in 1 .. 2 /\ p.n \in 0 .. 2 /\ p.k <= p.n
  BY PieceSets, PieceFacts, InPieceFacts
<1>3. h = 0 \/ (h = 1 /\ p.k = 2)
  BY <1>1 DEF InOrder, c
<1>4. ASSUME NEW i \in 1 .. Len(t), t[i].k < t[i].n
      PROVE  i + 1 \in 1 .. Len(t) /\ t[i + 1].k = 2
  <2>1. i + 1 \in 1 .. Len(c) /\ c[i + 1] = t[i]
    BY <1>1
  <2>2. (i + 1) + 1 \in 1 .. Len(c) /\ c[(i + 1) + 1].k = 2
    BY <1>4, <2>1 DEF InOrder, c
  <2>3. i + 1 \in 1 .. Len(t)
    BY <1>1, <2>2
  <2> QED
    BY <1>1, <2>2, <2>3
<1>5. ASSUME NEW i \in 2 .. Len(t), t[i].k = 2
      PROVE  t[i - 1].k < t[i - 1].n
  <2>1. i + 1 \in 2 .. Len(c) /\ i \in 1 .. Len(t) /\ i - 1 \in 1 .. Len(t) /\ (i + 1) - 1 = (i - 1) + 1
    BY <1>1
  <2>2. c[(i + 1) - 1].k < c[(i + 1) - 1].n
    BY <1>1, <1>5, <2>1 DEF InOrder, c
  <2> QED
    BY <1>1, <2>1, <2>2
<1>6. ASSUME t # <<>> PROVE t[1].k \in 1 .. 2 /\ (t[1].k = 2 => p.k < p.n)
  <2>1. 1 \in 1 .. Len(t) /\ 2 \in 2 .. Len(c) /\ 2 - 1 = 1 /\ 1 + 1 = 2
    BY <1>1, <1>6
  <2>2. t[1] \in InPiece /\ c[2] = t[1]
    BY <1>1, <2>1
  <2>3. c[2].k = 2 => c[2 - 1].k < c[2 - 1].n
    BY <2>1 DEF InOrder, c
  <2> QED
    BY <1>1, <2>1, <2>2, <2>3, InPieceFacts
<1>7. ASSUME p.k < p.n PROVE t # <<>> /\ t[1].k = 2
  <2>1. 1 \in 1 .. Len(c)
    BY <1>1
  <2>2. 1 + 1 \in 1 .. Len(c) /\ c[1 + 1].k = 2
    BY <1>1, <1>7, <2>1 DEF InOrder, c
  <2>3. 1 \in 1 .. Len(t)
    BY <1>1, <2>2
  <2> QED
    BY <1>1, <2>2, <2>3
<1>8. p.k < p.n => h = 0 /\ InOrder(t, 1)
  BY <1>2, <1>3, <1>4, <1>5, <1>7 DEF InOrder
<1>9. p.k = p.n => InOrder(t, 0)
  <2>1. ASSUME p.k = p.n PROVE t = <<>> \/ t[1].k = 1
    BY <1>2, <1>6, <2>1
  <2> QED
    BY <1>4, <1>5, <2>1 DEF InOrder
<1> QED
  BY <1>2, <1>3, <1>8, <1>9

LEMMA PiecesAdded ==
    ASSUME NEW s \in Seq(HostPiece), NEW t \in Seq(HostPiece), NEW q \in HostPiece
    PROVE  /\ Whole(<<>>) /\ Single(<<>>)
           /\ Whole(s) /\ Whole(t) => Whole(s \o t)
           /\ Single(s) /\ Single(t) => Single(s \o t)
           /\ Whole(s) /\ q.k = q.n => Whole(Append(s, q))
           /\ Single(s) /\ q.n = 1 => Single(Append(s, q))
           /\ Whole(s) /\ s # <<>> => Whole(Tail(s)) /\ Head(s).k = Head(s).n
           /\ Single(s) /\ s # <<>> => Single(Tail(s)) /\ Head(s).n = 1
<1>1. Whole(<<>>) /\ Single(<<>>)
  BY DEF Whole, Single
<1>2. Whole(s) /\ Whole(t) => Whole(s \o t)
  BY DEF Whole
<1>3. Single(s) /\ Single(t) => Single(s \o t)
  BY DEF Single
<1>4. Whole(s) /\ q.k = q.n => Whole(Append(s, q))
  BY DEF Whole
<1>5. Single(s) /\ q.n = 1 => Single(Append(s, q))
  BY DEF Single
<1>6. ASSUME s # <<>>
      PROVE  /\ \A i \in 1 .. Len(Tail(s)) : i + 1 \in 1 .. Len(s) /\ Tail(s)[i] = s[i + 1]
             /\ Head(s) = s[1] /\ 1 \in 1 .. Len(s)
  BY <1>6
<1>7. Whole(s) /\ s # <<>> => Whole(Tail(s)) /\ Head(s).k = Head(s).n
  BY <1>6 DEF Whole
<1>8. Single(s) /\ s # <<>> => Single(Tail(s)) /\ Head(s).n = 1
  BY <1>6 DEF Single
<1> QED
  BY <1>1, <1>2, <1>3, <1>4, <1>5, <1>7, <1>8

-----------------------------------------------------------------------------
(* The steps of the router.                                                *)

LEMMA SpendKeeps ==
    ASSUME left \in Scenario,
           NEW w \in {"moves", "clears", "fails", "drops", "boots", "keys", "requests", "sessions",
                      "slow"}, Spend(w)
    PROVE  left' \in Scenario /\ left'.vial = left.vial
BY DEF Spend, Scenario

\* The streams are sequences of the pieces of the host.
LEMMA Streams ==
    ASSUME RouterTypes
    PROVE  /\ toKb \in Seq(HostPiece) /\ rx \in Seq(HostPiece) /\ notes \in Seq(HostPiece)
           /\ toHost \in Seq(HostPiece) /\ hbuf \in Seq(HostPiece) /\ cur \in HostPiece
           /\ hbuf \o toHost \in Seq(HostPiece) /\ HostStream \in Seq(HostPiece)
           /\ Coming \in Seq(InPiece)
           /\ HostStream = (hbuf \o toHost) \o notes
<1>1. toKb \in Seq(HostPiece) /\ rx \in Seq(HostPiece) /\ notes \in Seq(HostPiece)
  BY PieceSets, SeqMonotonic DEF RouterTypes
<1>2. toHost \in Seq(HostPiece) /\ hbuf \in Seq(HostPiece) /\ cur \in HostPiece
  BY PieceSets DEF RouterTypes
<1>3. hbuf \o toHost \in Seq(HostPiece) /\ HostStream \in Seq(HostPiece)
  BY <1>1, <1>2, StreamMoves DEF HostStream
<1>4. Coming \in Seq(InPiece)
  <2>1. rx \in Seq(InPiece) /\ <<cur>> \in Seq(InPiece)
    BY DEF RouterTypes
  <2> QED
    BY <2>1, ConcatProperties DEF Coming
<1> QED
  BY <1>1, <1>2, <1>3, <1>4 DEF HostStream

LEMMA RouterKept ==
    ASSUME RouterInv, UNCHANGED router, left' \in Scenario, left'.vial = left.vial
    PROVE  RouterInv'
<1>1. UNCHANGED <<up, dropped, toKb, toHost, rx, hpc, cur, head, part, kbuf, notes, hbuf, fate,
                  rose, glued, bogus>>
  BY DEF router, task, ends, ghosts
<1>2. RouterTypes'
  BY <1>1 DEF RouterInv, RouterTypes
<1>3. LinkFacts' /\ ReadsInOrder' /\ PartInv'
  BY <1>1 DEF RouterInv, LinkFacts, ReadsInOrder, Coming, PartInv, WholeOrAnswered
<1>4. HostInv' /\ VialInv'
  BY <1>1 DEF RouterInv, HostInv, HostStream, VialInv
<1> QED
  BY <1>2, <1>3, <1>4 DEF RouterInv

\* Whatever is forgotten, no request becomes broken.
LEMMA LostKeeps ==
    ASSUME RouterTypes, NEW W, fate' = Lost(W)
    PROVE  /\ fate' \in [Requests -> {"unsent", "sent", "whole", "broken", "refused", "answered",
                                      "lost"}]
           /\ \A r \in Requests : fate'[r] = "broken" => fate[r] = "broken"
<1>1. \A r \in Requests : fate'[r] = IF fate[r] \in W THEN "lost" ELSE fate[r]
  BY DEF Lost
<1>2. fate' = [r \in Requests |-> IF fate[r] \in W THEN "lost" ELSE fate[r]]
  BY DEF Lost
<1>3. \A r \in Requests : fate[r] \in {"unsent", "sent", "whole", "broken", "refused", "answered",
                                       "lost"}
  BY DEF RouterTypes
<1> QED
  BY <1>1, <1>2, <1>3

\* One request gets another fate.
LEMMA FateSet ==
    ASSUME RouterTypes, NEW r \in Requests,
           NEW v \in {"unsent", "sent", "whole", "refused", "answered", "lost"},
           fate' = [fate EXCEPT ![r] = v]
    PROVE  /\ fate' \in [Requests -> {"unsent", "sent", "whole", "broken", "refused", "answered",
                                      "lost"}]
           /\ \A q \in Requests : fate'[q] = "broken" => fate[q] = "broken"
BY DEF RouterTypes

LEMMA InitRouter ==
    ASSUME RouterInit, left \in Scenario
    PROVE  RouterInv
<1>1. Delimiter \in InPiece /\ Opening \in Seq(InPiece)
      /\ (Opening = <<>> \/ Opening = <<Delimiter>>)
  <2>1. Delimiter \in InPiece
    BY PieceSets
  <2> QED
    BY <2>1 DEF Opening
<1>2. RouterTypes
  <2>1. fate \in [Requests -> {"unsent", "sent", "whole", "broken", "refused", "answered", "lost"}]
    BY DEF RouterInit
  <2>2. \A S : <<>> \in Seq(S)
    OBVIOUS
  <2>3. up \in BOOLEAN /\ dropped \in BOOLEAN /\ rose \in BOOLEAN /\ glued \in BOOLEAN
        /\ bogus \in BOOLEAN
    BY DEF RouterInit
  <2>4. Len(toKb) <= KbCap /\ Len(toHost) <= HostCap
    BY RouterSizes DEF RouterInit
  <2>5. toKb = <<>> /\ kbuf = <<>> /\ rx = Opening /\ toHost = <<>> /\ hbuf = <<>> /\ notes = <<>>
        /\ hpc = "read" /\ cur = Delimiter /\ head = 0 /\ part = 0
    BY DEF RouterInit
  <2> QED
    BY <1>1, <2>1, <2>2, <2>3, <2>4, <2>5 DEF RouterTypes
<1>3. LinkFacts /\ PartInv
  BY DEF RouterInit, LinkFacts, PartInv, WholeOrAnswered
<1>4. Delimiter.k = 1 /\ Delimiter.n = 1
  BY PieceFacts DEF Delimiter
<1>5. ReadsInOrder
  <2>1. Coming = Opening /\ head = 0
    BY DEF RouterInit, Coming
  <2>2. InOrder(<<>>, 0) /\ InOrder(<<Delimiter>>, 0)
    BY <1>4 DEF InOrder
  <2> QED
    BY <1>1, <2>1, <2>2 DEF ReadsInOrder
<1>6. HostInv
  <2>1. HostStream = <<>>
    BY DEF RouterInit, HostStream
  <2>2. Flows(<<>>)
    BY DEF Flows
  <2> QED
    BY <2>1, <2>2 DEF HostInv, RouterInit
<1>7. VialInv
  BY <1>4 DEF VialInv, RouterInit, Opening, Single, Whole
<1> QED
  BY <1>2, <1>3, <1>5, <1>6, <1>7 DEF RouterInv

LEMMA LinkUpStep ==
    ASSUME RouterInv, ~ up, LinkUp, UNCHANGED left
    PROVE  RouterInv'
<1> USE DEF RouterInv
<1>1. toKb = <<>> /\ notes = <<>>
  BY DEF LinkFacts
<1>2. UNCHANGED <<toKb, toHost, rx, hpc, cur, head, hbuf, fate, glued, bogus, notes>>
  BY <1>1 DEF LinkUp
<1>3. RouterTypes'
  <2>1. rose' \in BOOLEAN /\ up' \in BOOLEAN /\ dropped' \in BOOLEAN
    BY DEF LinkUp, RouterTypes
  <2>2. kbuf' \in Seq(InPiece) /\ part' \in 0 .. head
    BY DEF LinkUp, RouterTypes
  <2> QED
    BY <1>2, <2>1, <2>2 DEF RouterTypes
<1>4. LinkFacts'
  BY <1>1, <1>2 DEF LinkUp, LinkFacts
<1>5. PartInv'
  <2>1. part' = 0 /\ rose' = (rose \/ head > 0) /\ head \in 0 .. 1
    BY DEF LinkUp, RouterTypes
  <2>2. (\E r \in Requests : fate[r] = "broken") => rose
    BY DEF PartInv, WholeOrAnswered
  <2>3. ~ rose' => part' = head'
    <3>1. head > 0 => rose'
      BY DEF LinkUp
    <3>2. ~ (head > 0) => part' = head'
      BY <1>2, <2>1
    <3> QED
      BY <3>1, <3>2
  <2>4. WholeOrAnswered'
    BY <1>2, <2>1, <2>2 DEF WholeOrAnswered
  <2> QED
    BY <2>3, <2>4 DEF PartInv
<1>6. ReadsInOrder' /\ HostInv' /\ VialInv'
  BY <1>2 DEF ReadsInOrder, Coming, HostInv, HostStream, VialInv
<1> QED
  BY <1>3, <1>4, <1>5, <1>6

LEMMA LinkDownStep ==
    ASSUME RouterInv, LinkDown, left' \in Scenario, left'.vial = left.vial
    PROVE  RouterInv'
<1> USE DEF RouterInv
<1>1. UNCHANGED <<rx, hpc, cur, head, hbuf, rose, bogus>> /\ toKb' = <<>> /\ kbuf' = <<>>
      /\ notes' = <<>> /\ part' = 0 /\ ~ up' /\ dropped'
      /\ toHost' = Delimited(toHost) /\ fate' = Lost({"whole"})
      /\ glued' = (glued \/ (~ left.vial /\ Full(toHost)))
  BY DEF LinkDown
<1>2. toHost' \in Seq(HostPiece) /\ Len(toHost') <= HostCap
  BY <1>1, PieceSets, RouterSizes DEF RouterTypes, Delimited, Full
<1>3. RouterTypes'
  <2>1. glued' \in BOOLEAN /\ up' \in BOOLEAN /\ dropped' \in BOOLEAN
    BY DEF LinkDown, RouterTypes
  <2>2. fate' \in [Requests -> {"unsent", "sent", "whole", "broken", "refused", "answered", "lost"}]
    BY <1>1, LostKeeps
  <2>3. toKb' \in Seq(InPiece) /\ kbuf' \in Seq(InPiece) /\ notes' \in Seq(RequestPiece)
        /\ Len(toKb') <= KbCap
    BY <1>1, RouterSizes
  <2>4. part' \in 0 .. head'
    BY <1>1 DEF RouterTypes
  <2> QED
    BY <1>1, <1>2, <2>1, <2>2, <2>3, <2>4 DEF RouterTypes
<1>4. LinkFacts'
  BY <1>1 DEF LinkFacts
<1>5. PartInv'
  BY <1>1, LostKeeps DEF PartInv, WholeOrAnswered
<1>6. ReadsInOrder'
  BY <1>1 DEF ReadsInOrder, Coming
<1>7. VialInv'
  BY <1>1, PiecesAdded DEF VialInv, Delimited, Single, Whole
<1>8. HostInv'
  <2>1. CASE glued'
    BY <1>1, <2>1 DEF HostInv
  <2>2. CASE ~ glued'
    <3>1. ~ glued /\ Flows((hbuf \o toHost) \o notes)
      BY <1>1, <2>2, Streams DEF HostInv
    <3>2. Flows(HostStream')
      <4>1. CASE left.vial
        <5>1. HostStream' = hbuf \o toHost
          BY <1>1, <4>1, Streams, StreamMoves DEF HostStream, Delimited
        <5>2. Whole(hbuf \o toHost) /\ Whole((hbuf \o toHost) \o notes)
          BY <4>1, PiecesAdded, Streams DEF VialInv
        <5>3. \A i \in 1 .. Len((hbuf \o toHost) \o notes) : ((hbuf \o toHost) \o notes)[i].k # 2
          BY <3>1, <5>2, FlowsWhole, Streams
        <5>4. \A i \in 1 .. Len(hbuf \o toHost) : (hbuf \o toHost)[i].k # 2
          <6> DEFINE s == hbuf \o toHost
          <6>1. s \in Seq(HostPiece) /\ notes \in Seq(HostPiece)
            BY Streams
          <6> HIDE DEF s
          <6>2. \A i \in 1 .. Len(s) : i \in 1 .. Len(s \o notes) /\ (s \o notes)[i] = s[i]
            BY <6>1
          <6>3. \A i \in 1 .. Len(s \o notes) : (s \o notes)[i].k # 2
            BY <5>3 DEF s
          <6>4. \A i \in 1 .. Len(s) : s[i].k # 2
            BY <6>2, <6>3
          <6> QED
            BY <6>4 DEF s
        <5> QED
          BY <5>1, <5>2, <5>4, FlowsWhole, Streams
      <4>2. CASE ~ left.vial
        <5>1. toHost' = Append(toHost, Delimiter)
          BY <1>1, <2>2, <4>2 DEF Delimited
        <5>2. HostStream' = Append(hbuf \o toHost, Delimiter)
          BY <1>1, <5>1, Streams, StreamMoves, PieceSets DEF HostStream
        <5> QED
          BY <3>1, <5>2, FlowsCut, Streams
      <4> QED
        BY <4>1, <4>2
    <3> QED
      BY <1>1, <2>2, <3>1, <3>2 DEF HostInv
  <2> QED
    BY <2>1, <2>2
<1> QED
  BY <1>3, <1>4, <1>5, <1>6, <1>7, <1>8

\* The end of a piece, when what was coming began with it.
LEMMA CheckedStep ==
    ASSUME RouterInv, NEW p, NEW w \in 0 .. 1, Checked(p, w), p \in InPiece,
           Coming = <<p>> \o rx', rx' \in Seq(InPiece), left' = left,
           UNCHANGED <<up, toHost, kbuf, notes, hbuf, rose, glued, bogus>>,
           up => w = (IF Body(p) THEN 1 ELSE 0),
           dropped' \in {dropped, FALSE},
           toKb' = toKb \/ up, toKb' \in Seq(InPiece), Len(toKb') <= KbCap,
           left.vial => Single(rx') /\ Single(toKb') /\ p.n = 1
    PROVE  RouterInv'
<1> USE DEF RouterInv
<1> DEFINE read == head + (IF Body(p) THEN 1 ELSE 0)
<1>1. head \in 0 .. 1 /\ part \in 0 .. head /\ p \in HostPiece
  BY PieceSets DEF RouterTypes
<1>2. /\ head = 0 \/ (head = 1 /\ p.k = 2 /\ p.n = 2)
      /\ p.k < p.n => head = 0 /\ InOrder(rx', 1)
      /\ p.k = p.n => InOrder(rx', 0)
  BY <1>1, InOrderRead DEF ReadsInOrder
<1>3. /\ p.k \in Nat /\ p.n \in Nat /\ p.k <= p.n
      /\ p.req # 0 => p.req \in Requests
      /\ p.k < p.n => p.req # 0
      /\ p.k = 2 => p.req # 0
  <2>1. \A r \in Requests : r # 0
    BY DEF Requests
  <2> QED
    BY <1>1, <2>1, PieceFacts
<1>4. /\ cur' = p
      /\ head' = IF p.k = p.n THEN 0 ELSE read
      /\ part' = IF p.k = p.n THEN 0 ELSE part + w
      /\ hpc' = IF p.k = p.n /\ read > 0 /\ ~ up THEN "reply" ELSE "read"
      /\ fate' = IF p.k = p.n /\ read > 0 /\ up
                 THEN [fate EXCEPT ![p.req] = IF part + w = read THEN "whole" ELSE "broken"]
                 ELSE fate
  BY DEF Checked
<1>5. read \in 0 .. 2 /\ (read > 0 => p.req \in Requests)
      /\ (p.k < p.n => read = 1)
  BY <1>1, <1>2, <1>3 DEF Body
<1> HIDE DEF read
<1>6. head' \in 0 .. 1 /\ part' \in 0 .. head'
  BY <1>1, <1>2, <1>3, <1>4, <1>5
<1>7. fate' \in [Requests -> {"unsent", "sent", "whole", "broken", "refused", "answered", "lost"}]
  BY <1>4, <1>5 DEF RouterTypes
<1>8. RouterTypes'
  <2>1. dropped' \in BOOLEAN /\ hpc' \in {"read", "forward", "reply"}
    BY <1>4 DEF RouterTypes
  <2> QED
    BY <1>4, <1>6, <1>7, <2>1 DEF RouterTypes
<1>9. LinkFacts'
  <2>1. up' = up /\ (up => ~ dropped')
    <3>1. dropped' = dropped \/ dropped' = FALSE
      OBVIOUS
    <3> QED
      BY <3>1 DEF LinkFacts
  <2>2. hpc' # "forward"
    BY <1>4
  <2>3. ~ up => toKb' = <<>> /\ notes' = <<>>
    BY DEF LinkFacts
  <2>4. hpc' = "reply" => ~ up /\ cur'.req \in Requests
    BY <1>4, <1>5
  <2> QED
    BY <2>1, <2>2, <2>3, <2>4 DEF LinkFacts
<1>10. ReadsInOrder'
  <2>1. Coming' = rx'
    BY <1>4 DEF Coming
  <2>2. CASE p.k = p.n
    BY <1>2, <1>4, <2>1, <2>2 DEF ReadsInOrder
  <2>3. CASE p.k < p.n
    <3>1. head' = 1
      BY <1>3, <1>4, <1>5, <2>3
    <3> QED
      BY <1>2, <2>1, <2>3, <3>1 DEF ReadsInOrder
  <2> QED
    BY <1>3, <2>2, <2>3
<1>11. PartInv'
  <2>1. ASSUME up, ~ rose PROVE part + w = read /\ part' = head'
    BY <1>1, <1>4, <2>1 DEF PartInv, read
  <2>2. ASSUME NEW r \in Requests, fate'[r] = "broken" PROVE rose
    <3>1. CASE fate[r] = "broken"
      BY <3>1 DEF PartInv, WholeOrAnswered
    <3>2. CASE fate[r] # "broken"
      <4>1. up /\ part + w # read
        BY <1>4, <1>5, <2>2, <3>2 DEF RouterTypes
      <4> QED
        BY <2>1, <4>1
    <3> QED
      BY <3>1, <3>2
  <2> QED
    BY <2>1, <2>2 DEF PartInv, WholeOrAnswered
<1>12. HostInv' /\ VialInv'
  BY <1>4 DEF HostInv, HostStream, VialInv
<1> QED
  BY <1>8, <1>9, <1>10, <1>11, <1>12

LEMMA ReadPieceStep ==
    ASSUME RouterInv, ReadPiece
    PROVE  RouterInv'
<1> USE DEF RouterInv
<1>1. /\ hpc = "read" /\ rx # <<>> /\ rx' = Tail(rx)
      /\ UNCHANGED <<up, dropped, toKb, toHost, kbuf, notes, hbuf, rose, glued, bogus, left>>
  BY DEF ReadPiece, ends
<1>2. /\ Head(rx) \in InPiece /\ Tail(rx) \in Seq(InPiece) /\ rx = <<Head(rx)>> \o Tail(rx)
      /\ Coming = rx
  BY <1>1 DEF RouterTypes, Coming
<1>3. left.vial => Single(rx') /\ Head(rx).n = 1
  BY <1>1, PiecesAdded, Streams DEF VialInv
<1>4. CASE up /\ hpc' = "forward" /\ cur' = Head(rx) /\ UNCHANGED <<head, part, fate>>
  <2>1. RouterTypes'
    BY <1>1, <1>2, <1>4 DEF RouterTypes
  <2>2. LinkFacts'
    BY <1>1, <1>4 DEF LinkFacts
  <2>3. ReadsInOrder'
    <3>1. Coming' = Coming
      BY <1>1, <1>2, <1>4 DEF Coming
    <3> QED
      BY <1>4, <3>1 DEF ReadsInOrder
  <2>4. PartInv' /\ HostInv'
    BY <1>1, <1>4 DEF PartInv, WholeOrAnswered, HostInv, HostStream
  <2>5. VialInv'
    BY <1>1, <1>3, <1>4 DEF VialInv
  <2> QED
    BY <2>1, <2>2, <2>3, <2>4, <2>5
<1>5. CASE ~ up /\ Checked(Head(rx), 0)
  <2>1. toKb \in Seq(InPiece) /\ Len(toKb) <= KbCap /\ (left.vial => Single(toKb))
    BY DEF RouterTypes, VialInv
  <2> QED
    BY <1>1, <1>2, <1>3, <1>5, <2>1, CheckedStep
<1> QED
  BY <1>4, <1>5 DEF ReadPiece

LEMMA ForwardStep ==
    ASSUME RouterInv, Forward
    PROVE  RouterInv'
<1> USE DEF RouterInv
<1>1. /\ hpc = "forward" /\ cur \in InPiece /\ rx \in Seq(InPiece)
      /\ toKb \in Seq(InPiece) /\ Len(toKb) <= KbCap
      /\ UNCHANGED <<up, toHost, rx, kbuf, notes, hbuf, rose, glued, bogus, left>>
  BY DEF Forward, ends, RouterTypes
<1>2. Coming = <<cur>> \o rx
  BY <1>1 DEF Coming
<1>3. left.vial => Single(rx) /\ Single(toKb) /\ cur.n = 1
  BY DEF VialInv
<1>4. CASE dropped /\ dropped' = FALSE /\ Checked(cur, 0) /\ UNCHANGED toKb
  <2>1. ~ up
    BY <1>4 DEF LinkFacts
  <2>2. dropped' \in {dropped, FALSE} /\ toKb' = toKb
    BY <1>4
  <2>3. Coming = <<cur>> \o rx' /\ rx' \in Seq(InPiece) /\ (left.vial => Single(rx'))
    BY <1>1, <1>2, <1>3
  <2>4. toKb' \in Seq(InPiece) /\ Len(toKb') <= KbCap /\ (left.vial => Single(toKb'))
    BY <1>1, <1>3, <2>2
  <2>5. 0 \in 0 .. 1 /\ Checked(cur, 0)
    BY <1>4
  <2> QED
    BY <1>1, <1>3, <2>1, <2>2, <2>3, <2>4, <2>5, CheckedStep
<1>5. CASE /\ ~ dropped /\ Len(toKb) < KbCap /\ toKb' = Append(toKb, cur)
           /\ Checked(cur, IF Body(cur) THEN 1 ELSE 0) /\ UNCHANGED dropped
  <2>1. up
    BY <1>1, <1>5 DEF LinkFacts
  <2>2. toKb' \in Seq(InPiece) /\ Len(toKb') <= KbCap
    BY <1>1, <1>5, RouterSizes
  <2>3. left.vial => Single(toKb')
    BY <1>3, <1>5, PiecesAdded, Streams
  <2> DEFINE w == IF Body(cur) THEN 1 ELSE 0
  <2>4. w \in 0 .. 1 /\ Checked(cur, w)
    BY <1>5
  <2> HIDE DEF w
  <2>5. up => w = (IF Body(cur) THEN 1 ELSE 0)
    BY DEF w
  <2>6. dropped' \in {dropped, FALSE} /\ (toKb' = toKb \/ up)
    BY <1>5, <2>1
  <2>7. Coming = <<cur>> \o rx' /\ rx' \in Seq(InPiece) /\ (left.vial => Single(rx'))
    BY <1>1, <1>2, <1>3
  <2> QED
    BY <1>1, <1>3, <2>2, <2>3, <2>4, <2>5, <2>6, <2>7, CheckedStep
<1> QED
  BY <1>4, <1>5 DEF Forward, ForwardFails

LEMMA ReplyStep ==
    ASSUME RouterInv, Reply
    PROVE  RouterInv'
<1> USE DEF RouterInv
<1>1. /\ hpc = "reply" /\ ~ Full(toHost) /\ toHost' = Append(toHost, NotReady(cur.req))
      /\ hpc' = "read" /\ fate' = [fate EXCEPT ![cur.req] = "refused"]
      /\ UNCHANGED <<up, dropped, toKb, rx, cur, head, part, kbuf, notes, hbuf, rose, glued, bogus,
                     left>>
  BY DEF Reply, ends
<1>2. notes = <<>> /\ cur.req \in Requests
  BY <1>1 DEF LinkFacts
<1> DEFINE q == NotReady(cur.req)
<1>3. q \in HostPiece /\ q.k = 0 /\ q.n = 0
  BY <1>2, PieceSets, PieceFacts DEF NotReady
<1>4. toHost' = Append(toHost, q)
  BY <1>1
<1> HIDE DEF q
<1>5. RouterTypes'
  <2>1. toHost' \in Seq(HostPiece) /\ Len(toHost') <= HostCap
    BY <1>1, <1>3, <1>4, RouterSizes DEF RouterTypes, Full
  <2> QED
    BY <1>1, <1>2, <2>1, FateSet DEF RouterTypes
<1>6. LinkFacts' /\ ReadsInOrder'
  BY <1>1 DEF LinkFacts, ReadsInOrder, Coming
<1>7. PartInv'
  BY <1>1, <1>2, FateSet DEF PartInv, WholeOrAnswered
<1>8. HostInv'
  <2>1. HostStream = hbuf \o toHost
    BY <1>2, Streams, StreamMoves DEF HostStream
  <2>2. HostStream' = Append(HostStream, q)
    BY <1>1, <1>2, <1>3, <1>4, <2>1, Streams, StreamMoves DEF HostStream
  <2>3. ~ glued => Flows(HostStream')
    <3>1. HostStream \in Seq(HostPiece) /\ (~ glued => Flows(HostStream)) /\ q.k = q.n /\ q.k # 2
      BY <1>3, Streams DEF HostInv
    <3> HIDE DEF RouterInv
    <3>2. ASSUME ~ glued PROVE Flows(Append(HostStream, q))
      BY <1>3, <3>1, <3>2, FlowsAppended
    <3> QED
      BY <2>2, <3>2
  <2> QED
    BY <1>1, <2>3 DEF HostInv
<1>9. VialInv'
  BY <1>1, <1>3, <1>4, PiecesAdded, Streams DEF VialInv
<1> QED
  BY <1>5, <1>6, <1>7, <1>8, <1>9

LEMMA KeyboardStep ==
    ASSUME RouterInv, KeyboardTakes
    PROVE  RouterInv'
<1> USE DEF RouterInv
<1> DEFINE p == Head(toKb)
           answer == Pieces(p.req, p.n)
<1>1. /\ up /\ toKb # <<>> /\ toKb' = Tail(toKb)
      /\ UNCHANGED <<up, dropped, toHost, rx, hpc, cur, head, part, hbuf, fate, rose, glued, bogus,
                     left>>
  BY DEF KeyboardTakes, task, ghosts
<1>2. /\ kbuf' = IF p.k = p.n THEN <<>> ELSE Append(kbuf, p)
      /\ notes' = IF Body(p) /\ Append(kbuf, p) = answer THEN notes \o answer ELSE notes
  BY DEF KeyboardTakes
<1>3. p \in InPiece /\ p \in HostPiece /\ toKb' \in Seq(InPiece) /\ Len(toKb') <= KbCap
  BY <1>1, PieceSets, RouterSizes DEF RouterTypes
<1>4. Body(p) => p.req \in Requests /\ p.n \in 1 .. 2 /\ answer \in Seq(RequestPiece)
  <2>1. Body(p) => p.req \in Requests /\ p.k \in 1 .. 2 /\ p.n \in 0 .. 2 /\ p.k <= p.n
    BY <1>3, PieceFacts, InPieceFacts DEF Body
  <2>2. Body(p) => p.req \in Requests /\ (p.n = 1 \/ p.n = 2)
    BY <2>1
  <2> QED
    BY <2>2, WholeFrames
<1>5. notes' = notes \/ (Body(p) /\ notes' = notes \o answer)
  BY <1>2
<1>6. kbuf' \in Seq(InPiece)
  BY <1>2, <1>3 DEF RouterTypes
<1>7. left.vial => Single(toKb') /\ p.n = 1
  BY <1>1, PiecesAdded, Streams DEF VialInv
<1> HIDE DEF p, answer
<1>8. notes' \in Seq(RequestPiece)
  BY <1>4, <1>5, ConcatProperties DEF RouterTypes
<1>9. RouterTypes'
  BY <1>1, <1>3, <1>6, <1>8 DEF RouterTypes
<1>10. LinkFacts' /\ ReadsInOrder' /\ PartInv'
  BY <1>1 DEF LinkFacts, ReadsInOrder, Coming, PartInv, WholeOrAnswered
<1>11. CASE notes' = notes
  BY <1>1, <1>7, <1>9, <1>10, <1>11 DEF HostInv, HostStream, VialInv
<1>12. CASE Body(p) /\ notes' = notes \o answer
  <2>1. answer \in Seq(HostPiece)
    BY <1>4, <1>12, PieceSets, SeqMonotonic
  <2>2. HostStream' = HostStream \o answer
    <3>1. ((hbuf \o toHost) \o notes) \o answer = (hbuf \o toHost) \o (notes \o answer)
      <4>1. hbuf \o toHost \in Seq(HostPiece) /\ notes \in Seq(HostPiece)
        BY Streams
      <4> HIDE DEF RouterInv
      <4> QED
        BY <2>1, <4>1, ConcatAssociative
    <3> QED
      BY <1>1, <1>12, <3>1 DEF HostStream
  <2>3. Flows(HostStream) => Flows(HostStream \o answer)
    BY <1>4, <1>12, FlowsAnswered, Streams DEF answer
  <2>4. HostInv'
    BY <1>1, <2>2, <2>3 DEF HostInv
  <2>5. VialInv'
    <3>1. ASSUME left.vial PROVE Whole(answer)
      <4>1. answer = <<Piece(p.req, 1, 1)>>
        BY <1>4, <1>7, <1>12, <3>1, WholeFrames DEF answer
      <4>2. Piece(p.req, 1, 1).k = Piece(p.req, 1, 1).n
        BY PieceFacts
      <4> QED
        BY <4>1, <4>2 DEF Whole
    <3> QED
      BY <1>1, <1>7, <1>12, <2>1, <3>1, PiecesAdded, Streams DEF VialInv
  <2> QED
    BY <1>9, <1>10, <2>4, <2>5
<1> QED
  BY <1>5, <1>11, <1>12

LEMMA NotifyStep ==
    ASSUME RouterInv, Notify
    PROVE  RouterInv'
<1> USE DEF RouterInv
<1>1. /\ up /\ notes # <<>> /\ ~ Full(toHost) /\ toHost' = Append(toHost, Head(notes))
      /\ notes' = Tail(notes)
      /\ UNCHANGED <<up, dropped, toKb, rx, hpc, cur, head, part, kbuf, hbuf, fate, rose, glued,
                     bogus, left>>
  BY DEF Notify, task, ghosts
<1>2. Head(notes) \in HostPiece /\ Tail(notes) \in Seq(RequestPiece)
  BY <1>1, PieceSets DEF RouterTypes
<1>3. RouterTypes'
  <2>1. toHost' \in Seq(HostPiece) /\ Len(toHost') <= HostCap
    BY <1>1, <1>2, RouterSizes DEF RouterTypes, Full
  <2> QED
    BY <1>1, <1>2, <2>1 DEF RouterTypes
<1>4. LinkFacts' /\ ReadsInOrder' /\ PartInv'
  BY <1>1 DEF LinkFacts, ReadsInOrder, Coming, PartInv, WholeOrAnswered
<1>5. HostInv'
  <2>1. HostStream' = HostStream
    <3>1. hbuf \in Seq(HostPiece) /\ toHost \in Seq(HostPiece) /\ notes \in Seq(HostPiece)
      BY Streams
    <3>2. hbuf \o Append(toHost, Head(notes)) \o Tail(notes) = hbuf \o toHost \o notes
      <4>1. notes # <<>> => hbuf \o Append(toHost, Head(notes)) \o Tail(notes)
                               = hbuf \o toHost \o notes
        <5> HIDE DEF RouterInv
        <5> QED
          BY ONLY <3>1, StreamMoves
      <4> QED
        BY <1>1, <4>1
    <3> QED
      BY <1>1, <3>2 DEF HostStream
  <2> QED
    BY <1>1, <2>1 DEF HostInv
<1>6. VialInv'
  BY <1>1, <1>2, PiecesAdded, Streams DEF VialInv
<1> QED
  BY <1>3, <1>4, <1>5, <1>6

LEMMA OverflowStep ==
    ASSUME RouterInv, NotifyOverflows
    PROVE  RouterInv'
<1> USE DEF RouterInv
<1>1. /\ up /\ notes # <<>> /\ toHost' = toHost /\ Spend("slow")
      /\ notes' = Tail(notes) /\ fate' = [fate EXCEPT ![Head(notes).req] = "lost"]
      /\ glued' = (glued \/ ~ left.vial)
      /\ UNCHANGED <<up, dropped, toKb, rx, hpc, cur, head, part, kbuf, hbuf, rose, bogus>>
  BY DEF NotifyOverflows, task, Delimited
<1>2. Head(notes) \in RequestPiece /\ Tail(notes) \in Seq(RequestPiece)
  BY <1>1 DEF RouterTypes
<1>3. Head(notes).req \in Requests
  BY <1>2, PieceFacts DEF RequestPiece
<1>4. left' \in Scenario /\ left'.vial = left.vial
  BY <1>1, SpendKeeps DEF RouterTypes
<1>5. RouterTypes'
  <2>1. fate' \in [Requests -> {"unsent", "sent", "whole", "broken", "refused", "answered", "lost"}]
    BY <1>1, <1>3, FateSet
  <2>2. glued' \in BOOLEAN
    BY <1>1
  <2> QED
    BY <1>1, <1>2, <1>4, <2>1, <2>2 DEF RouterTypes
<1>6. LinkFacts' /\ ReadsInOrder'
  BY <1>1 DEF LinkFacts, ReadsInOrder, Coming
<1>7. PartInv'
  BY <1>1, <1>3, FateSet DEF PartInv, WholeOrAnswered
<1>8. VialInv'
  BY <1>1, <1>4, PiecesAdded, Streams DEF VialInv
<1>9. HostInv'
  <2>1. ASSUME ~ glued' PROVE ~ glued /\ Flows(HostStream')
    <3>1. ~ glued /\ left.vial
      BY <1>1, <2>1
    <3> DEFINE s == hbuf \o toHost
               n == notes
               m == Tail(notes)
    <3>2. s \in Seq(HostPiece) /\ n \in Seq(HostPiece) /\ m \in Seq(HostPiece) /\ n # <<>>
      BY <1>1, Streams
    <3>3. Flows(s \o n) /\ HostStream' = s \o m
      BY <1>1, <3>1, Streams DEF HostInv, HostStream
    <3>4. Whole(s) /\ Whole(n) /\ Whole(m)
      BY <1>1, <3>1, PiecesAdded, Streams DEF VialInv
    <3>5. \A i \in 1 .. Len(m) : i + 1 \in 1 .. Len(n) /\ m[i] = n[i + 1]
      BY <3>2
    <3> HIDE DEF s, n, m
    <3>6. Whole(s \o n) /\ Whole(s \o m) /\ s \o n \in Seq(HostPiece) /\ s \o m \in Seq(HostPiece)
      BY <3>2, <3>4, PiecesAdded, PieceSets, ConcatProperties
    <3>7. \A i \in 1 .. Len(s \o n) : (s \o n)[i].k # 2
      BY <3>3, <3>6, FlowsWhole
    <3>8. /\ \A i \in 1 .. Len(s) : i \in 1 .. Len(s \o n) /\ (s \o n)[i] = s[i]
          /\ \A i \in 1 .. Len(n) : Len(s) + i \in 1 .. Len(s \o n) /\ (s \o n)[Len(s) + i] = n[i]
      BY <3>2
    <3>9. /\ \A i \in 1 .. Len(s) : s[i].k # 2
          /\ \A i \in 1 .. Len(n) : n[i].k # 2
      BY <3>7, <3>8
    <3>10. \A i \in 1 .. Len(m) : m[i].k # 2
      BY <3>5, <3>9
    <3>11. \A i \in 1 .. Len(s \o m) : (s \o m)[i].k # 2
      BY <3>2, <3>9, <3>10
    <3>12. Flows(s \o m)
      BY <3>6, <3>11, FlowsWhole
    <3> QED
      BY <3>1, <3>3, <3>12
  <2>2. glued => glued'
    BY <1>1
  <2> QED
    BY <1>1, <2>1, <2>2 DEF HostInv
<1> QED
  BY <1>5, <1>6, <1>7, <1>8, <1>9

LEMMA HostTakesStep ==
    ASSUME RouterInv, HostTakes
    PROVE  RouterInv'
<1> USE DEF RouterInv
<1> DEFINE p == Head(toHost)
           f == Append(hbuf, p)
           intact == p.n = 0 \/ f = Pieces(p.req, p.n)
<1>1. /\ toHost # <<>> /\ toHost' = Tail(toHost)
      /\ UNCHANGED <<up, dropped, toKb, rx, hpc, cur, head, part, kbuf, notes, rose, glued, left>>
  BY DEF HostTakes, task
<1>2. /\ hbuf' = IF p.k = p.n THEN <<>> ELSE f
      /\ bogus' = (bogus \/ (p.k = p.n /\ Body(p) /\ ~ intact))
      /\ fate' = IF p.k = p.n /\ Body(p) /\ intact /\ fate[p.req] \in {"whole", "refused"}
                 THEN [fate EXCEPT ![p.req] = "answered"] ELSE fate
  BY DEF HostTakes
<1>3. p \in HostPiece /\ toHost' \in Seq(HostPiece) /\ Len(toHost') <= HostCap
      /\ f \in Seq(HostPiece)
  BY <1>1, RouterSizes DEF RouterTypes
<1>4. Body(p) => p.req \in Requests
  BY <1>3, PieceFacts DEF Body
<1>5. ASSUME ~ glued
      PROVE  /\ p.k = p.n => Flows(Tail(toHost) \o notes) /\ (Body(p) => intact)
             /\ p.k # p.n => hbuf = <<>> /\ \E r \in Requests : p = Piece(r, 1, 2)
  <2>1. Flows(hbuf \o toHost \o notes) /\ (hbuf = <<>> \/ \E r \in Requests : hbuf = <<Piece(r, 1, 2)>>)
    BY <1>5 DEF HostInv, HostStream
  <2>2. hbuf \in Seq(HostPiece) /\ toHost \in Seq(HostPiece) /\ notes \in Seq(HostPiece)
    BY Streams
  <2> HIDE DEF RouterInv
  <2> QED
    BY <1>1, <2>1, <2>2, FlowsRead DEF Body
<1> HIDE DEF f, intact
<1>6. /\ fate' \in [Requests -> {"unsent", "sent", "whole", "broken", "refused", "answered", "lost"}]
      /\ \A r \in Requests : fate'[r] = "broken" => fate[r] = "broken"
  <2>1. CASE fate' = fate
    BY <2>1 DEF RouterTypes
  <2>2. CASE fate' # fate
    BY <1>2, <1>4, <2>2, FateSet
  <2> QED
    BY <2>1, <2>2
<1>7. RouterTypes'
  <2>1. hbuf' \in Seq(HostPiece)
    BY <1>2, <1>3
  <2>2. bogus' \in BOOLEAN
    BY <1>2
  <2> QED
    BY <1>1, <1>3, <1>6, <2>1, <2>2 DEF RouterTypes
<1>8. LinkFacts' /\ ReadsInOrder'
  BY <1>1 DEF LinkFacts, ReadsInOrder, Coming
<1>9. PartInv'
  BY <1>1, <1>6 DEF PartInv, WholeOrAnswered
<1>10. VialInv'
  <2>1. ASSUME left.vial PROVE Whole(toHost') /\ p.k = p.n /\ Whole(<<>>)
    BY <1>1, <2>1, PiecesAdded, Streams DEF VialInv
  <2> QED
    BY <1>1, <1>2, <2>1 DEF VialInv
<1>11. HostInv'
  <2>1. bogus' => glued'
    <3>1. ASSUME ~ glued PROVE ~ bogus /\ ~ (p.k = p.n /\ Body(p) /\ ~ intact)
      BY <1>5, <3>1 DEF HostInv
    <3> QED
      BY <1>1, <1>2, <3>1
  <2>2. ASSUME ~ glued, p.k = p.n
        PROVE  Flows(HostStream') /\ hbuf' = <<>>
    <3>1. hbuf' = <<>>
      BY <1>2, <2>2
    <3>2. HostStream' = Tail(toHost) \o notes
      BY <1>1, <1>3, <3>1, ConcatEmptySeq DEF HostStream
    <3> QED
      BY <1>5, <2>2, <3>1, <3>2
  <2>3. ASSUME ~ glued, p.k # p.n
        PROVE  Flows(HostStream') /\ \E r \in Requests : hbuf' = <<Piece(r, 1, 2)>>
    <3>1. hbuf' = f /\ HostStream' = hbuf' \o Tail(toHost) \o notes
      BY <1>1, <1>2, <2>3 DEF HostStream
    <3>2. HostStream' = HostStream
      BY <1>1, <3>1, Streams, StreamMoves DEF f, HostStream
    <3>3. Flows(HostStream)
      BY <2>3 DEF HostInv
    <3>4. hbuf = <<>> /\ \E r \in Requests : p = Piece(r, 1, 2)
      BY <1>5, <2>3
    <3>5. f = <<p>>
      BY <3>4 DEF f
    <3> QED
      BY <3>1, <3>2, <3>3, <3>4, <3>5
  <2> QED
    BY <1>1, <2>1, <2>2, <2>3 DEF HostInv
<1> QED
  BY <1>7, <1>8, <1>9, <1>10, <1>11

LEMMA HostSendsStep ==
    ASSUME RouterInv, NEW r \in Requests, NEW n \in 1 .. 2, HostSends(r, n)
    PROVE  RouterInv'
<1> USE DEF RouterInv
<1> DEFINE q == Pieces(r, n)
<1>1. /\ n = 1 \/ ~ left.vial
      /\ Spend("requests") /\ rx' = rx \o q /\ fate' = [fate EXCEPT ![r] = "sent"]
      /\ UNCHANGED <<up, dropped, toKb, toHost, hpc, cur, head, part, kbuf, notes, hbuf, rose, glued,
                     bogus>>
  BY DEF HostSends, ends
<1>2. left' \in Scenario /\ left'.vial = left.vial
  BY <1>1, SpendKeeps DEF RouterTypes
<1>3. q \in Seq(RequestPiece)
  BY WholeFrames
<1> HIDE DEF q
<1>4. q \in Seq(InPiece) /\ q \in Seq(HostPiece)
  BY <1>3, PieceSets, SeqMonotonic
<1>5. rx' \in Seq(InPiece)
  BY <1>1, <1>4, ConcatProperties DEF RouterTypes
<1>6. RouterTypes'
  BY <1>1, <1>2, <1>5, FateSet DEF RouterTypes
<1>7. LinkFacts'
  BY <1>1 DEF LinkFacts
<1>8. PartInv'
  BY <1>1, FateSet DEF PartInv, WholeOrAnswered
<1>9. HostInv'
  BY <1>1 DEF HostInv, HostStream
<1>10. ReadsInOrder'
  <2>1. Coming' = Coming \o q
    <3>1. CASE hpc = "forward"
      <4>1. <<cur>> \in Seq(InPiece) /\ rx \in Seq(InPiece)
        BY DEF RouterTypes
      <4>2. <<cur>> \o (rx \o q) = (<<cur>> \o rx) \o q
        BY <1>4, <4>1, ConcatAssociative
      <4> QED
        BY <1>1, <3>1, <4>2 DEF Coming
    <3>2. CASE hpc # "forward"
      BY <1>1, <3>2 DEF Coming
    <3> QED
      BY <3>1, <3>2
  <2>2. InOrder(Coming \o q, head)
    BY InOrderSent, Streams DEF ReadsInOrder, RouterTypes, q
  <2> QED
    BY <1>1, <2>1, <2>2 DEF ReadsInOrder
<1>11. VialInv'
  <2>1. ASSUME left.vial PROVE Single(q)
    <3>1. q = <<Piece(r, 1, 1)>>
      BY <1>1, <2>1, WholeFrames DEF q
    <3>2. Piece(r, 1, 1).n = 1
      BY PieceFacts
    <3> QED
      BY <3>1, <3>2 DEF Single
  <2> QED
    BY <1>1, <1>2, <1>4, <2>1, PiecesAdded, Streams DEF VialInv
<1> QED
  BY <1>6, <1>7, <1>8, <1>9, <1>10, <1>11

\* The session starts over, when the host reconnects or the dongle powers up.
LEMMA SessionStarts ==
    ASSUME RouterInv, rx' = Opening, hpc' = "read", cur' = Delimiter, head' = 0, part' = 0,
           toKb' = <<>>, toHost' = <<>>, hbuf' = <<>>,
           fate' = Lost({"sent", "whole", "refused", "broken"}),
           left' \in Scenario, left'.vial = left.vial, UNCHANGED <<rose, bogus>>,
           glued' = (glued \/ (notes' # <<>> /\ Head(notes').k > 1)),
           UNCHANGED <<up, dropped, kbuf, notes>>
             \/ (up' = FALSE /\ dropped' = FALSE /\ kbuf' = <<>> /\ notes' = <<>>)
    PROVE  RouterInv'
<1> USE DEF RouterInv
<1>1. Delimiter \in InPiece /\ Delimiter.k = 1 /\ Delimiter.n = 1
      /\ (Opening = <<>> \/ (~ left.vial /\ Opening = <<Delimiter>>))
  BY PieceSets, PieceFacts DEF Opening, Delimiter
<1>2. rx' \in Seq(InPiece)
  <2>1. <<>> \in Seq(InPiece) /\ <<Delimiter>> \in Seq(InPiece)
    BY <1>1
  <2> QED
    BY <1>1, <2>1
<1>3. RouterTypes'
  <2>1. fate' \in [Requests -> {"unsent", "sent", "whole", "broken", "refused", "answered", "lost"}]
    BY LostKeeps
  <2>2. up' \in BOOLEAN /\ dropped' \in BOOLEAN
    BY DEF RouterTypes
  <2>3. glued' \in BOOLEAN
    OBVIOUS
  <2>4. kbuf' \in Seq(InPiece) /\ notes' \in Seq(RequestPiece)
    <3>1. kbuf \in Seq(InPiece) /\ notes \in Seq(RequestPiece)
      BY DEF RouterTypes
    <3>2. <<>> \in Seq(InPiece) /\ <<>> \in Seq(RequestPiece)
      OBVIOUS
    <3>3. (kbuf' = kbuf /\ notes' = notes) \/ (kbuf' = <<>> /\ notes' = <<>>)
      OBVIOUS
    <3> QED
      BY <3>1, <3>2, <3>3
  <2>5. toKb' \in Seq(InPiece) /\ toHost' \in Seq(HostPiece) /\ hbuf' \in Seq(HostPiece)
        /\ Len(toKb') <= KbCap /\ Len(toHost') <= HostCap
    BY RouterSizes
  <2>6. head' \in 0 .. 1 /\ part' \in 0 .. head' /\ hpc' \in {"read", "forward", "reply"}
    OBVIOUS
  <2>7. rose' \in BOOLEAN /\ bogus' \in BOOLEAN
    BY DEF RouterTypes
  <2> QED
    BY <1>1, <1>2, <2>1, <2>2, <2>3, <2>4, <2>5, <2>6, <2>7 DEF RouterTypes
<1>4. LinkFacts'
  BY DEF LinkFacts
<1>5. ReadsInOrder'
  <2>1. Coming' = Opening
    BY DEF Coming
  <2>2. InOrder(<<>>, 0) /\ InOrder(<<Delimiter>>, 0)
    BY <1>1 DEF InOrder
  <2> QED
    BY <1>1, <2>1, <2>2 DEF ReadsInOrder
<1>6. PartInv'
  <2>1. WholeOrAnswered'
    BY LostKeeps DEF PartInv, WholeOrAnswered
  <2> QED
    BY <2>1 DEF PartInv
<1>7. HostInv'
  <2>1. ASSUME ~ glued' PROVE ~ glued /\ Flows(HostStream')
    <3>1. ~ glued /\ ~ (notes' # <<>> /\ Head(notes').k > 1)
      BY <2>1
    <3>2. notes' \in Seq(HostPiece)
      BY <1>3, PieceSets, SeqMonotonic DEF RouterTypes
    <3>3. HostStream' = notes'
      BY <3>2, ConcatEmptySeq DEF HostStream
    <3>4. CASE notes' = <<>>
      BY <3>1, <3>3, <3>4 DEF Flows
    <3>5. CASE notes' # <<>>
      <4>1. notes' = notes /\ notes[1].k # 2
        BY <3>1, <3>2, <3>5
      <4>2. Flows((hbuf \o toHost) \o notes)
        BY <3>1, Streams DEF HostInv
      <4> QED
        BY <3>1, <3>3, <4>1, <4>2, FlowsSuffix, Streams
    <3> QED
      BY <3>4, <3>5
  <2>2. glued => glued'
    OBVIOUS
  <2> QED
    BY <2>1, <2>2 DEF HostInv
<1>8. VialInv'
  BY <1>1 DEF VialInv, Single, Whole
<1> QED
  BY <1>3, <1>4, <1>5, <1>6, <1>7, <1>8

LEMMA RouterSteps ==
    ASSUME RouterInv, RouterNext
    PROVE  RouterInv'
<1>1. ASSUME NewSession PROVE RouterInv'
  <2>1. left' \in Scenario /\ left'.vial = left.vial
    BY <1>1, SpendKeeps DEF NewSession, RouterInv, RouterTypes
  <2>2. UNCHANGED <<up, dropped, kbuf, notes, rose, bogus>>
    BY <1>1 DEF NewSession
  <2>3. /\ rx' = Opening /\ hpc' = "read" /\ cur' = Delimiter /\ head' = 0 /\ part' = 0
        /\ toKb' = <<>> /\ toHost' = <<>> /\ hbuf' = <<>>
        /\ fate' = Lost({"sent", "whole", "refused", "broken"})
        /\ glued' = (glued \/ (notes' # <<>> /\ Head(notes').k > 1))
    BY <1>1, <2>2 DEF NewSession
  <2> QED
    BY <2>1, <2>2, <2>3, SessionStarts
<1> QED
  BY <1>1, ReadPieceStep, ForwardStep, ReplyStep, KeyboardStep, NotifyStep, HostTakesStep,
     OverflowStep, HostSendsStep DEF RouterNext, RouterStep, RouterTask

-----------------------------------------------------------------------------
(* The steps of the central.                                               *)

DgInv == RouterInv /\ CentralInv

LEMMA BondFacts ==
    ASSUME NEW n \in Nat, NEW b \in {NoBond} \union [kb : Keyboards, key : 1 .. n]
    PROVE  /\ b.key \in 0 .. n
           /\ b # NoBond => b.kb \in Keyboards /\ b.key \in 1 .. n
           /\ b = NoBond => b.key = 0
           /\ \A m \in Nat : n <= m => b \in {NoBond} \union [kb : Keyboards, key : 1 .. m]
BY DEF NoBond

LEMMA FewFacts ==
    ASSUME NEW S, Few(S)
    PROVE  /\ S \subseteq Keyboards /\ Cardinality(S) <= 1
           /\ S # {} => (CHOOSE k \in S : TRUE) \in Keyboards
<1>1. CASE S = {}
  BY <1>1, FS_EmptySet
<1>2. CASE S # {}
  <2>1. PICK k \in Keyboards : S = {k}
    BY <1>2 DEF Few
  <2>2. Cardinality(S) = 1
    BY <2>1, FS_Singleton
  <2> QED
    BY <2>1, <2>2
<1> QED
  BY <1>1, <1>2

LEMMA InitInv == Init => DgInv
<1> SUFFICES ASSUME Init PROVE DgInv
  OBVIOUS
<1>0. /\ pc = "boot" /\ first \in BOOLEAN /\ linked \in BOOLEAN /\ target = None /\ peer = "new"
      /\ best = {} /\ seeking = {}
  BY DEF Init
<1> USE DEF Init
<1>1. left \in Scenario /\ (left.bonded = {} \/ \E k \in Keyboards : left.bonded = {k})
  BY DongleScenarios
<1>2. RouterInv
  BY <1>1, InitRouter
<1>3. CASE left.bonded = {}
  <2>1. paired = 0 /\ bond = NoBond /\ saved = NoBond
    BY <1>3, FS_EmptySet
  <2>2. key \in [Keyboards -> 0 .. 0]
    BY <1>3
  <2>3. CentralTypes
    BY <1>0, <2>1, <2>2 DEF CentralTypes, Few, Bonds
  <2>4. BondInv /\ RelayInv
    BY DEF BondInv, RelayInv, RouterInit
  <2> QED
    BY <1>2, <2>3, <2>4 DEF DgInv, CentralInv
<1>4. CASE \E k \in Keyboards : left.bonded = {k}
  <2>1. PICK k \in Keyboards : left.bonded = {k}
    BY <1>4
  <2>2. paired = 1
    BY <2>1, FS_Singleton
  <2>3. bond = [kb |-> k, key |-> 1] /\ saved = bond
    BY <2>1
  <2>4. bond \in Bonds
    BY <2>2, <2>3 DEF Bonds
  <2>5. key \in [Keyboards -> 0 .. 1]
    BY <2>1
  <2>6. CentralTypes
    BY <1>0, <2>2, <2>3, <2>4, <2>5 DEF CentralTypes, Few
  <2>7. BondInv /\ RelayInv
    BY DEF BondInv, RelayInv, RouterInit
  <2> QED
    BY <1>2, <2>6, <2>7 DEF DgInv, CentralInv
<1> QED
  BY <1>1, <1>3, <1>4

\* The steps that leave the router and the bonds alone.
LEMMA Quiet ==
    ASSUME DgInv, UNCHANGED router, left' = left
           \/ \E w \in {"moves", "clears", "fails", "drops", "boots", "keys"} : Spend(w)
    PROVE  RouterInv' /\ up' = up
<1>1. left' \in Scenario /\ left'.vial = left.vial
  BY SpendKeeps DEF DgInv, RouterInv, RouterTypes
<1> QED
  BY <1>1, RouterKept DEF DgInv, router

LEMMA FindSteps ==
    ASSUME DgInv, Boots \/ Reads \/ Gathers \/ Picks \/ WindowCloses \/ Asked \/ Connects
                  \/ ConnectFails
    PROVE  DgInv' /\ bond' = bond
<1> USE DEF DgInv
<1>1. RouterInv' /\ up' = up
  BY Quiet DEF Boots, Reads, Gathers, Picks, WindowCloses, Asked, Connects, ConnectFails
<1>2. UNCHANGED <<bond, saved, key, paired, held>>
  BY DEF Boots, Reads, Gathers, Picks, WindowCloses, Asked, Connects, ConnectFails, bonds
<1>3. ~ up /\ ~ held
  BY DEF CentralInv, RelayInv, Boots, Reads, Gathers, Picks, WindowCloses, Asked, Connects,
         ConnectFails
<1>4. bond # NoBond => bond.kb \in Keyboards
  BY BondFacts DEF CentralInv, CentralTypes, Bonds
<1>5. ASSUME Boots PROVE CentralInv'
  <2>1. CentralTypes'
    <3>1. first' \in BOOLEAN
      BY <1>5 DEF Boots
    <3> QED
      BY <1>2, <1>5, <3>1 DEF CentralInv, CentralTypes, Boots, OpenWindow, Few, Bonds
  <2>2. BondInv'
    BY <1>2, <1>5 DEF BondInv, Boots, OpenWindow
  <2>3. RelayInv'
    BY <1>1, <1>2, <1>3, <1>5 DEF RelayInv, Boots, OpenWindow
  <2> QED
    BY <2>1, <2>2, <2>3 DEF CentralInv
<1>6. ASSUME Reads PROVE CentralInv'
  <2>1. CentralTypes'
    BY <1>2, <1>6 DEF CentralInv, CentralTypes, Reads, OpenWindow, Few, Bonds
  <2>2. BondInv'
    BY <1>2, <1>6 DEF BondInv, Reads, OpenWindow
  <2>3. RelayInv'
    BY <1>1, <1>2, <1>3, <1>6 DEF RelayInv, Reads, OpenWindow
  <2> QED
    BY <2>1, <2>2, <2>3 DEF CentralInv
<1>7. ASSUME Gathers PROVE CentralInv'
  <2>1. pc' = pc /\ first' = first /\ target' = target /\ peer' = peer /\ linked' = linked
    BY <1>7 DEF Gathers
  <2>2. Few(best') /\ Few(seeking')
    BY <1>7 DEF Gathers, CentralInv, CentralTypes, Few
  <2>3. CentralTypes'
    BY <1>2, <2>1, <2>2 DEF CentralInv, CentralTypes, Bonds
  <2> QED
    BY <1>1, <1>2, <2>1, <2>3 DEF CentralInv, BondInv, RelayInv, KeysMatch, StackHas
<1>8. ASSUME Picks PROVE CentralInv'
  <2>1. pc = "window" /\ pc' = "connect" /\ peer' = "new" /\ best' = {} /\ best # {}
        /\ target' = (CHOOSE k \in best : TRUE) /\ UNCHANGED <<first, seeking, linked>>
    BY <1>8 DEF Picks, scan
  <2>2. target' \in Keyboards
    BY <2>1, FewFacts DEF CentralInv, CentralTypes
  <2>3. CentralTypes'
    BY <1>2, <2>1, <2>2 DEF CentralInv, CentralTypes, Few, Bonds
  <2>4. BondInv'
    BY <1>2, <2>1 DEF CentralInv, BondInv
  <2>5. RelayInv'
    BY <1>1, <1>2, <1>3, <2>1 DEF RelayInv
  <2> QED
    BY <2>3, <2>4, <2>5 DEF CentralInv
<1>9. ASSUME WindowCloses PROVE CentralInv'
  <2>1. pc' = "read" /\ best' = {} /\ UNCHANGED <<first, target, peer, seeking, linked>>
    BY <1>9 DEF WindowCloses, scan
  <2> QED
    BY <1>1, <1>2, <1>3, <2>1 DEF CentralInv, CentralTypes, BondInv, RelayInv, Few, Bonds
<1>10. ASSUME Asked PROVE CentralInv'
  <2>1. pc = "search" /\ pc' = "connect" /\ peer' = "bonded" /\ target' = bond.kb
        /\ UNCHANGED <<first, best, seeking, linked>>
    BY <1>10 DEF Asked
  <2>2. bond # NoBond
    BY <2>1 DEF CentralInv, BondInv
  <2> QED
    BY <1>1, <1>2, <1>3, <1>4, <2>1, <2>2 DEF CentralInv, CentralTypes, BondInv, RelayInv, Few, Bonds
<1>11. ASSUME Connects PROVE CentralInv'
  <2>1. pc = "connect" /\ pc' = "secure" /\ linked' = TRUE
        /\ UNCHANGED <<first, target, peer, best, seeking>>
    BY <1>11 DEF Connects, scan
  <2> QED
    BY <1>1, <1>2, <1>3, <2>1 DEF CentralInv, CentralTypes, BondInv, RelayInv, Few, Bonds
<1>12. ASSUME ConnectFails PROVE CentralInv'
  <2>1. pc' = "read" /\ UNCHANGED <<first, target, peer, best, seeking, linked>>
    BY <1>12 DEF ConnectFails, scan
  <2> QED
    BY <1>1, <1>2, <1>3, <2>1 DEF CentralInv, CentralTypes, BondInv, RelayInv, Few, Bonds
<1> QED
  BY <1>1, <1>2, <1>5, <1>6, <1>7, <1>8, <1>9, <1>10, <1>11, <1>12

LEMMA SecureSteps ==
    ASSUME DgInv, Encrypted \/ Pairs \/ Refused \/ PairingFails \/ SecureEnds
    PROVE  DgInv'
<1> USE DEF DgInv
<1>1. RouterInv' /\ up' = up
  BY Quiet DEF Encrypted, Pairs, Refused, PairingFails, SecureEnds
<1>2. pc = "secure" /\ UNCHANGED <<first, target, peer, best, seeking, saved, held>>
  BY DEF Encrypted, Pairs, Refused, PairingFails, SecureEnds, Secured, scan, bonds
<1>3. ~ up /\ ~ held /\ target \in Keyboards
  BY <1>2 DEF CentralInv, RelayInv, CentralTypes
<1>4. ASSUME Encrypted PROVE CentralInv'
  <2>1. pc' = "setup" /\ KeysMatch /\ UNCHANGED <<linked, bond, key, paired>>
    BY <1>4 DEF Encrypted, bonds
  <2>2. CentralTypes' /\ BondInv'
    BY <1>2, <1>3, <2>1 DEF CentralInv, CentralTypes, BondInv, Bonds
  <2>3. RelayInv'
    BY <1>1, <1>2, <1>3, <2>1 DEF RelayInv, KeysMatch, StackHas
  <2> QED
    BY <2>2, <2>3 DEF CentralInv
<1>5. ASSUME Pairs PROVE CentralInv'
  <2>1. pc' = "setup" /\ paired' = paired + 1 /\ key' = [key EXCEPT ![target] = paired + 1]
        /\ bond' = [kb |-> target, key |-> paired + 1] /\ linked' = linked
    BY <1>5 DEF Pairs, PairedBond
  <2>2. paired \in Nat /\ key \in [Keyboards -> 0 .. paired] /\ saved \in Bonds
    BY DEF CentralInv, CentralTypes
  <2>3. bond' \in Bonds' /\ saved' \in Bonds'
    <3>1. bond' \in [kb : Keyboards, key : 1 .. paired + 1]
      BY <1>3, <2>1, <2>2
    <3>2. saved \in {NoBond} \union [kb : Keyboards, key : 1 .. paired + 1]
      BY <2>2, BondFacts DEF Bonds
    <3> QED
      BY <1>2, <2>1, <3>1, <3>2 DEF Bonds
  <2>4. key' \in [Keyboards -> 0 .. paired'] /\ key'[target] = paired + 1
    BY <1>3, <2>1, <2>2
  <2>5. CentralTypes' /\ BondInv'
    BY <1>2, <1>3, <2>1, <2>2, <2>3, <2>4 DEF CentralInv, CentralTypes, BondInv
  <2>6. RelayInv'
    BY <1>1, <1>2, <1>3, <2>1, <2>4 DEF RelayInv, KeysMatch, StackHas
  <2> QED
    BY <2>5, <2>6 DEF CentralInv
<1>6. ASSUME Refused \/ PairingFails PROVE CentralInv'
  <2>1. pc' = "read" /\ linked' = FALSE /\ UNCHANGED <<key, paired>> /\ bond' \in {NoBond, bond}
    BY <1>6 DEF Refused, PairingFails, Hangs, Dropped
  <2>2. bond' \in Bonds
    BY <2>1 DEF Bonds, CentralInv, CentralTypes
  <2> QED
    BY <1>1, <1>2, <1>3, <2>1, <2>2 DEF CentralInv, CentralTypes, BondInv, RelayInv, Bonds
<1>7. ASSUME SecureEnds PROVE CentralInv'
  <2>1. pc' = "read" /\ linked' = FALSE /\ UNCHANGED <<bond, key, paired>>
    BY <1>7 DEF SecureEnds, Hangs, bonds
  <2> QED
    BY <1>1, <1>2, <1>3, <2>1 DEF CentralInv, CentralTypes, BondInv, RelayInv, Bonds
<1> QED
  BY <1>1, <1>4, <1>5, <1>6, <1>7

LEMMA RelaySteps ==
    ASSUME DgInv, SetUp \/ RelayEnds \/ Releases \/ KeyChanges \/ Relays
    PROVE  DgInv' /\ bond' = bond
<1> USE DEF DgInv
<1>1. UNCHANGED <<first, target, peer, best, seeking, bond, saved, key, paired>>
  BY DEF SetUp, RelayEnds, Releases, KeyChanges, Relays, central, scan, bonds, Hangs
<1>2. ASSUME SetUp PROVE RouterInv' /\ CentralInv'
  <2>1. pc = "setup" /\ linked /\ LinkUp /\ pc' = "relay" /\ UNCHANGED <<linked, held, left>>
    BY <1>2 DEF SetUp
  <2>2. ~ up /\ ~ held
    BY <2>1 DEF CentralInv, RelayInv
  <2>3. RouterInv'
    BY <2>1, <2>2, LinkUpStep
  <2>4. CentralTypes' /\ BondInv'
    BY <1>1, <2>1 DEF CentralInv, CentralTypes, BondInv, Bonds
  <2>5. RelayInv'
    BY <1>1, <2>1, <2>2 DEF CentralInv, RelayInv, KeysMatch, StackHas
  <2> QED
    BY <2>3, <2>4, <2>5 DEF CentralInv
<1>3. ASSUME RelayEnds PROVE RouterInv' /\ CentralInv'
  <2>1. pc \in {"setup", "relay"} /\ LinkDown /\ pc' = "release" /\ UNCHANGED <<linked, held>>
        /\ (left' = left \/ Spend("fails"))
    BY <1>3 DEF RelayEnds
  <2>2. left' \in Scenario /\ left'.vial = left.vial
    BY <2>1, SpendKeeps DEF RouterInv, RouterTypes
  <2>3. RouterInv' /\ ~ up'
    BY <2>1, <2>2, LinkDownStep DEF LinkDown
  <2>4. CentralTypes' /\ BondInv' /\ RelayInv'
    BY <1>1, <2>1, <2>3 DEF CentralInv, CentralTypes, BondInv, RelayInv, Bonds
  <2> QED
    BY <2>3, <2>4 DEF CentralInv
<1>4. ASSUME Releases PROVE RouterInv' /\ CentralInv'
  <2>1. pc = "release" /\ held' = FALSE /\ pc' = "read" /\ linked' = FALSE
        /\ UNCHANGED router /\ left' = left
    BY <1>4 DEF Releases, Released, Hangs
  <2>2. RouterInv' /\ up' = up /\ ~ up
    BY <2>1, Quiet DEF CentralInv, RelayInv
  <2>3. CentralTypes' /\ BondInv' /\ RelayInv'
    BY <1>1, <2>1, <2>2 DEF CentralInv, CentralTypes, BondInv, RelayInv, Bonds
  <2> QED
    BY <2>2, <2>3 DEF CentralInv
<1>5. ASSUME KeyChanges PROVE RouterInv' /\ CentralInv'
  <2>1. pc = "relay" /\ pc' = pc /\ linked' = linked /\ UNCHANGED router /\ Spend("keys")
    BY <1>5 DEF KeyChanges, central
  <2>2. RouterInv' /\ up' = up
    BY <2>1, Quiet
  <2>3. CentralTypes' /\ BondInv'
    BY <1>1, <2>1 DEF CentralInv, CentralTypes, BondInv, Bonds
  <2>4. RelayInv'
    BY <1>1, <2>1, <2>2 DEF CentralInv, RelayInv, KeysMatch, StackHas
  <2> QED
    BY <2>2, <2>3, <2>4 DEF CentralInv
<1>6. ASSUME Relays PROVE RouterInv' /\ CentralInv'
  <2>1. RouterNext /\ UNCHANGED <<pc, linked, held>>
    BY <1>6 DEF Relays, central
  <2>2. up' = up
    BY <2>1 DEF RouterNext, RouterStep, RouterTask, ReadPiece, Forward, Reply, KeyboardTakes, Notify,
                HostTakes, NotifyOverflows, NewSession, HostSends
  <2>3. RouterInv'
    BY <2>1, RouterSteps
  <2>4. CentralTypes' /\ BondInv' /\ RelayInv'
    BY <1>1, <2>1, <2>2 DEF CentralInv, CentralTypes, BondInv, RelayInv, Bonds, KeysMatch, StackHas
  <2> QED
    BY <2>3, <2>4 DEF CentralInv
<1> QED
  BY <1>1, <1>2, <1>3, <1>4, <1>5, <1>6

LEMMA OutsideSteps ==
    ASSUME DgInv, \/ Saves \/ LinkLost
                  \/ \E k \in Keyboards : \/ Heard(k) \/ Clears(k)
                                          \/ \E m \in {"off", "host", "dongle"} : Moves(k, m)
    PROVE  DgInv' /\ bond' = bond
<1> USE DEF DgInv
<1>1. UNCHANGED <<pc, first, target, peer, best, bond, paired, held, router>>
      /\ (left' = left \/ \E w \in {"moves", "clears", "fails", "drops", "boots", "keys"} : Spend(w))
  BY DEF Saves, LinkLost, Heard, Clears, Moves, central, bonds
<1>2. RouterInv' /\ up' = up
  BY <1>1, Quiet
<1>3. Few(seeking')
  BY DEF Saves, LinkLost, Heard, Clears, Moves, scan, CentralInv, CentralTypes, Few
<1>4. saved' \in {saved, bond}
  BY DEF Saves, LinkLost, Heard, Clears, Moves, bonds
<1>5. linked' \in BOOLEAN /\ (linked' => linked)
  <2>1. linked \in BOOLEAN
    BY DEF CentralInv, CentralTypes
  <2>2. ASSUME NEW k \in Keyboards, NEW m, Clears(k) \/ Moves(k, m)
        PROVE  linked' \in BOOLEAN /\ (linked' => linked)
    <3>1. linked' = (linked /\ k # target)
      BY <2>2 DEF Clears, Moves
    <3>2. linked' \in BOOLEAN
      BY <3>1
    <3>3. linked' => linked
      BY <3>1
    <3> QED
      BY <3>2, <3>3
  <2>3. ASSUME NEW k \in Keyboards, Heard(k) PROVE linked' = linked
    BY <2>3 DEF Heard
  <2>4. CASE Saves
    BY <2>1, <2>4 DEF Saves
  <2>5. CASE LinkLost
    <3>1. linked' = FALSE
      BY <2>5 DEF LinkLost
    <3>2. linked' \in BOOLEAN
      BY <3>1
    <3> QED
      BY <3>1, <3>2
  <2>7. CASE \E k \in Keyboards : Heard(k) \/ Clears(k)
                                 \/ \E m \in {"off", "host", "dongle"} : Moves(k, m)
    BY <2>1, <2>2, <2>3, <2>7
  <2> QED
    BY <2>4, <2>5, <2>7
<1>6. key' \in [Keyboards -> 0 .. paired] /\ (linked' /\ target \in Keyboards => key'[target] = key[target])
  <2>1. key \in [Keyboards -> 0 .. paired] /\ paired \in Nat
    BY DEF CentralInv, CentralTypes
  <2>2. ASSUME NEW k \in Keyboards, Clears(k)
        PROVE  key' = [key EXCEPT ![k] = 0] /\ (linked' => k # target)
    BY <2>2 DEF Clears
  <2>3. CASE \E k \in Keyboards : Clears(k)
    BY <2>1, <2>2, <2>3
  <2>4. CASE ~ \E k \in Keyboards : Clears(k)
    <3>1. key' = key
      BY <2>4 DEF Saves, LinkLost, Heard, Moves, bonds
    <3> QED
      BY <2>1, <3>1
  <2> QED
    BY <2>3, <2>4
<1>7. CentralTypes' /\ BondInv'
  BY <1>1, <1>3, <1>4, <1>5, <1>6 DEF CentralInv, CentralTypes, BondInv, Bonds
<1>8. RelayInv'
  <2>1. ASSUME pc \in {"setup", "relay"}, linked' PROVE KeysMatch'
    BY <1>1, <1>5, <1>6, <2>1 DEF CentralInv, CentralTypes, RelayInv, KeysMatch, StackHas
  <2> QED
    BY <1>1, <1>2, <2>1 DEF CentralInv, RelayInv
<1> QED
  BY <1>1, <1>2, <1>7, <1>8 DEF CentralInv

LEMMA PowerStep ==
    ASSUME DgInv, PowerCycle
    PROVE  DgInv' /\ pc' = "boot"
<1> USE DEF DgInv
<1>1. RouterInv' /\ ~ up'
  <2>1. left' \in Scenario /\ left'.vial = left.vial
    BY SpendKeeps DEF PowerCycle, RouterInv, RouterTypes
  <2>2. notes' = <<>> /\ glued' = glued /\ glued \in BOOLEAN
    BY DEF PowerCycle, RouterInv, RouterTypes
  <2>3. glued' = (glued \/ (notes' # <<>> /\ Head(notes').k > 1))
    BY <2>2
  <2>4. /\ rx' = Opening /\ hpc' = "read" /\ cur' = Delimiter /\ head' = 0 /\ part' = 0
        /\ toKb' = <<>> /\ toHost' = <<>> /\ hbuf' = <<>>
        /\ fate' = Lost({"sent", "whole", "refused", "broken"})
        /\ UNCHANGED <<rose, bogus>>
        /\ up' = FALSE /\ dropped' = FALSE /\ kbuf' = <<>> /\ notes' = <<>>
    BY DEF PowerCycle
  <2> QED
    BY <2>1, <2>3, <2>4, SessionStarts
<1>2. /\ bond' = saved /\ pc' = "boot" /\ first' = FALSE /\ target' = None /\ peer' = "new"
      /\ best' = {} /\ seeking' = {} /\ linked' = FALSE /\ held' = FALSE
      /\ UNCHANGED <<saved, key, paired>>
  BY DEF PowerCycle
<1> QED
  BY <1>1, <1>2 DEF CentralInv, CentralTypes, BondInv, RelayInv, Few, Bonds

LEMMA NextInv == DgInv /\ [Next]_vars => DgInv'
<1> SUFFICES ASSUME DgInv, [Next]_vars PROVE DgInv'
  OBVIOUS
<1>1. CASE UNCHANGED vars
  <2>1. UNCHANGED router /\ left' = left
    BY <1>1 DEF vars
  <2>2. UNCHANGED <<pc, first, target, peer, best, seeking, bond, saved, key, paired, linked, held>>
    BY <1>1 DEF vars, central, scan, bonds
  <2>3. RouterInv' /\ up' = up
    BY <2>1, Quiet
  <2>4. CentralInv'
    BY <2>2, <2>3 DEF DgInv, CentralInv, CentralTypes, BondInv, RelayInv, Bonds, KeysMatch, StackHas
  <2> QED
    BY <2>3, <2>4 DEF DgInv
<1>2. CASE Next
  BY <1>2, FindSteps, SecureSteps, RelaySteps, OutsideSteps, PowerStep DEF Next
<1> QED
  BY <1>1, <1>2

LEMMA InvHolds == Spec => []DgInv
BY InitInv, NextInv, PTL DEF Spec

-----------------------------------------------------------------------------
(* What follows.                                                           *)

\* Frames stay whole across links and sessions: without a link nothing is parked for the
\* keyboard, the host decodes no frame glued from two unless a delimiter that was due did not
\* fit, and a request is broken only by a link that comes up in its middle (host_to_keyboard
\* and link_down, dongle/router.rs).
THEOREM FramesAreWhole == Spec => []FramesStayWhole
<1>1. DgInv => FramesStayWhole
  BY DEF DgInv, RouterInv, LinkFacts, HostInv, PartInv, FramesStayWhole, NothingParked, NoGluedFrame
<1> QED
  BY <1>1, InvHolds, PTL

LEMMA TypesHold == DgInv => TypeOK
<1> SUFFICES ASSUME DgInv PROVE TypeOK
  OBVIOUS
<1>1. RouterTypeOK
  BY DEF DgInv, RouterInv, RouterTypes, RouterTypeOK
<1>2. bond.key \in 0 .. paired /\ saved.key \in 0 .. paired
  BY BondFacts DEF DgInv, CentralInv, CentralTypes, Bonds
<1>3. best \subseteq Keyboards /\ seeking \subseteq Keyboards
      /\ Cardinality(best) <= 1 /\ Cardinality(seeking) <= 1
  BY FewFacts DEF DgInv, CentralInv, CentralTypes
<1> QED
  BY <1>1, <1>2, <1>3 DEF DgInv, CentralInv, CentralTypes, TypeOK

\* A bond that works changes in a step of the window at power-on or at a power cycle only.
LEMMA BondStep ==
    ASSUME DgInv, Next, bond # NoBond, key[bond.kb] = bond.key, bond' # bond
    PROVE  pc' = "boot" \/ (first /\ bond' # NoBond)
<1>1. bond.key # 0 /\ paired \in Nat
  BY BondFacts DEF DgInv, CentralInv, CentralTypes, Bonds
<1>2. PowerCycle \/ Encrypted \/ Pairs \/ Refused \/ PairingFails \/ SecureEnds
  BY FindSteps, RelaySteps, OutsideSteps DEF Next
<1>3. CASE PowerCycle
  BY <1>3 DEF PowerCycle
<1>4. CASE Pairs
  <2>1. pc = "secure" /\ key[target] = 0 /\ bond' = [kb |-> target, key |-> paired + 1]
    BY <1>4 DEF Pairs, Secured, PairedBond
  <2>2. bond' # NoBond
    <3>1. bond'.key = paired + 1 /\ NoBond.key = 0
      BY <2>1 DEF NoBond
    <3> QED
      BY <1>1, <3>1
  <2>3. peer = "new"
    BY <1>1, <2>1 DEF DgInv, CentralInv, CentralTypes, BondInv
  <2> QED
    BY <2>1, <2>2, <2>3 DEF DgInv, CentralInv, BondInv
<1>5. CASE Refused
  BY <1>5 DEF Refused, KeysMatch, StackHas
<1>6. CASE PairingFails
  <2>1. pc = "secure" /\ bond.kb # target /\ peer = "bonded"
    BY <1>6 DEF PairingFails, Secured, StackHas, Dropped
  <2> QED
    BY <2>1 DEF DgInv, CentralInv, BondInv
<1>7. CASE Encrypted \/ SecureEnds
  BY <1>7 DEF Encrypted, SecureEnds, bonds
<1> QED
  BY <1>2, <1>3, <1>4, <1>5, <1>6, <1>7

\* A relayed keyboard is the bonded one, with the key the dongle holds; once its link is over
\* the host holds none of its keys; and no other keyboard takes the place of one whose bond
\* works, except in the window at power-on (secure_connection and run_connection,
\* dongle/mod.rs).
THEOREM RelayStaysSound == Spec => RelayIsSound
<1>1. DgInv => TypeOK /\ RelayedIsBonded /\ HostReleased
  <2>1. DgInv => RelayedIsBonded /\ HostReleased
    BY DEF DgInv, CentralInv, RelayInv, RelayedIsBonded, HostReleased
  <2> QED
    BY <2>1, TypesHold
<1>2. DgInv /\ [Next]_vars
        => [(bond # NoBond /\ key[bond.kb] = bond.key /\ bond' # bond)
                => (pc' = "boot" \/ (first /\ bond' # NoBond))]_vars
  BY BondStep
<1> QED
  BY <1>1, <1>2, InvHolds, PTL DEF Spec, RelayIsSound, WorkingBondKept

=============================================================================
