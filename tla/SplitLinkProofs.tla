--------------------------- MODULE SplitLinkProofs ---------------------------
(***************************************************************************)
(* TLAPS proofs about SplitLink, for any number of peripherals and any     *)
(* number of faults: a slot of the central follows its session, and a      *)
(* board is on the accept list only when its old link is gone.             *)
(***************************************************************************)
EXTENDS SplitLink, TLAPS

Slot == {NoAddr} \union {Disconnected(a) : a \in Addrs} \union {Connected(a) : a \in Boards}

\* The types, and that no slot, stored address or report mixes up two boards.
OwnAddrs(b) == {b, Ghost, NoOne}
AddrInv ==
    /\ slots = [id \in Boards |-> slots[id]]
    /\ \A id \in Boards : /\ slots[id].addr \in OwnAddrs(id)
                          /\ flash[id] \in OwnAddrs(id)
                          /\ queued[id] \in OwnAddrs(id) \union {Unchanged}
    /\ \/ found = Nothing
       \/ found \in [id : 0 .. N, addr : {Ghost}]
       \/ found \in [id : Boards, addr : Boards] /\ found.addr = found.id
    /\ left \in Scenario

\* A link is up only while its session, or the one about to start, has it.
LinkInv ==
    \A b \in Boards : link[b] => /\ slots[b] = Connected(b)
                                 /\ session[b] \in {"queued", "running", "dropped"}

\* The accept list holds disconnected slots; an end is reported once the session is over.
RadioInv ==
    /\ \A id \in pending : slots[id].st = "Disconnected"
    /\ \A id \in Range(ended) : session[id] = "none"

\* The inductive invariant.
SLInv == TypeOK /\ AddrInv /\ LinkInv /\ RadioInv /\ SlotTracksSession

-----------------------------------------------------------------------------
(* Sequences, records and scenarios.                                       *)

LEMMA RangeAppended ==
    ASSUME NEW q \in Seq(Boards), NEW id \in Boards
    PROVE  Range(Append(q, id)) = Range(q) \union {id}
<1> DEFINE a == Append(q, id)
<1>1. /\ Len(q) \in Nat /\ DOMAIN q = 1 .. Len(q) /\ DOMAIN a = 1 .. Len(q) + 1
      /\ a[Len(q) + 1] = id /\ \A i \in 1 .. Len(q) : a[i] = q[i]
  OBVIOUS
<1> HIDE DEF a
<1>2. \A i \in 1 .. Len(q) + 1 : i \in 1 .. Len(q) \/ i = Len(q) + 1
  BY <1>1
<1>3. Range(a) = Range(q) \union {id}
  BY <1>1, <1>2 DEF Range
<1> QED
  BY <1>3 DEF a

LEMMA RangeIn ==
    ASSUME NEW q \in Seq(Boards)
    PROVE  Range(q) \subseteq Boards
BY DEF Range

LEMMA RangeEmpty == Range(<<>>) = {}
BY DEF Range

\* The states of a slot are told apart, and what NoOne and Ghost stand for is no board.
LEMMA SlotFacts ==
    /\ NoAddr.st = "NoAddr" /\ NoAddr.addr = NoOne
    /\ \A a : Connected(a).st = "Connected" /\ Connected(a).addr = a
    /\ \A a : Disconnected(a).st = "Disconnected" /\ Disconnected(a).addr = a
    /\ \A a, b : Connected(a) # Disconnected(b) /\ Connected(a) # NoAddr /\ Disconnected(b) # NoAddr
    /\ Ghost \notin Boards /\ NoOne \notin Boards /\ NoOne \notin Addrs /\ Unchanged \notin Addrs
    /\ Ghost \in Addrs /\ Boards \subseteq Addrs /\ Unchanged # NoOne /\ N \in Nat
    /\ Nothing.id = 0 /\ Nothing.addr = NoOne /\ Boards \subseteq 0 .. N /\ 0 \in 0 .. N
BY SplitCount DEF NoAddr, Connected, Disconnected, Ghost, NoOne, Boards, Addrs, Unchanged, Nothing

\* Spending a bound leaves a scenario.
LEMMA SpendKeeps ==
    ASSUME left \in Scenario, NEW w \in {"faults", "ghosts", "sleeps", "clears"}, Spend(w)
    PROVE  left' \in Scenario /\ left'.near = left.near
BY DEF Spend, Scenario

-----------------------------------------------------------------------------
(* Steps.  A slot changes in the radio task only, a session in its own task *)
(* and where the radio task hands it a connection.                         *)

\* Flash takes a queued address, which was the slot's own.
LEMMA StorageWritesKeeps ==
    ASSUME SLInv, StorageWrites
    PROVE  SLInv'
<1> USE SlotFacts, SpendKeeps, RangeIn DEF SLInv, centralVars, sessionVars, boardVars, flashVars
<1>1. TypeOK'
  BY DEF TypeOK, AddrInv, StorageWrites
<1>2. AddrInv'
  BY DEF TypeOK, AddrInv, OwnAddrs, StorageWrites
<1>3. LinkInv'
  BY DEF TypeOK, AddrInv, OwnAddrs, LinkInv, SlotTracksSession, StorageWrites
<1>4. RadioInv'
  BY DEF TypeOK, AddrInv, RadioInv, SlotTracksSession, StorageWrites
<1>5. SlotTracksSession'
  BY DEF TypeOK, AddrInv, RadioInv, SlotTracksSession, StorageWrites
<1> QED
  BY <1>1, <1>2, <1>3, <1>4, <1>5

\* The ended sessions free their slots; what remains disconnected is the accept list.
LEMMA TopKeeps ==
    ASSUME SLInv, Top
    PROVE  SLInv'
<1> USE SlotFacts, RangeIn DEF SLInv
<1>1. /\ slots' = Drained /\ ended' = <<>> /\ pending' = InState(Drained, "Disconnected")
      /\ UNCHANGED <<found, session, flag, sleeping, link, board, owner, ownerFlash, flash, queued,
                     left>>
  BY DEF Top, boardVars, flashVars
<1>2. radio' \in {"top", "connect", "idle", "wait", "scan"}
  BY DEF Top
<1>3. \A id \in Boards :
         slots'[id] = IF id \in Range(ended) /\ slots[id].st = "Connected"
                      THEN Disconnected(slots[id].addr) ELSE slots[id]
  BY <1>1 DEF Drained
<1>4. \A id \in Boards : slots[id] \in Slot /\ slots'[id] \in Slot /\ slots'[id].addr = slots[id].addr
  <2>1. \A id \in Boards : slots[id] \in Slot
    BY DEF TypeOK, Slot
  <2>2. \A id \in Boards : slots[id].st = "Connected" => slots[id].addr \in Addrs
    BY <2>1 DEF Slot
  <2> QED
    BY <1>3, <2>1, <2>2 DEF Slot
<1>5. slots' = [id \in Boards |-> slots'[id]]
  BY <1>1 DEF Drained
<1>6. pending' \subseteq Boards /\ \A id \in pending' : slots'[id].st = "Disconnected"
  BY <1>1 DEF InState
<1>7. ended' \in Seq(Boards) /\ Len(ended') <= N /\ Range(ended') = {}
  BY <1>1, RangeEmpty
<1>8. TypeOK'
  BY <1>1, <1>2, <1>4, <1>6, <1>7 DEF TypeOK, Slot
<1>9. AddrInv'
  BY <1>1, <1>4, <1>5 DEF AddrInv, OwnAddrs
<1>10. LinkInv'
  <2> SUFFICES ASSUME NEW b \in Boards, link[b]
               PROVE  slots'[b] = Connected(b) /\ session[b] \in {"queued", "running", "dropped"}
    BY <1>1 DEF LinkInv
  <2>1. slots[b] = Connected(b) /\ session[b] \in {"queued", "running", "dropped"}
    BY DEF LinkInv
  <2>2. b \notin Range(ended)
    BY <2>1 DEF RadioInv
  <2> QED
    BY <1>3, <2>1, <2>2
<1>11. RadioInv'
  BY <1>6, <1>7 DEF RadioInv
<1>12. SlotTracksSession'
  <2> SUFFICES ASSUME NEW id \in Boards
               PROVE  slots'[id].st = "Connected" <=> session[id] # "none"
    BY <1>1, <1>7 DEF SlotTracksSession
  <2>1. slots[id].st = "Connected" <=> session[id] # "none" \/ id \in Range(ended)
    BY DEF SlotTracksSession
  <2>2. id \in Range(ended) => session[id] = "none"
    BY DEF RadioInv
  <2> QED
    BY <1>3, <2>1, <2>2
<1> QED
  BY <1>8, <1>9, <1>10, <1>11, <1>12

\* The slot with the board's address is the board's own, and its session is over.
LEMMA ConnectKeeps ==
    ASSUME SLInv, NEW b \in Boards, Connect(b)
    PROVE  SLInv'
<1> USE SlotFacts, RangeIn DEF SLInv
<1>1. /\ slots' = [slots EXCEPT ![b] = Connected(b)]
      /\ session' = [session EXCEPT ![b] = "queued"]
      /\ slots[b].st = "Disconnected"
  <2> DEFINE id == CHOOSE i \in pending : slots[i].addr = b
  <2>1. id \in pending /\ slots[id].addr = b
    BY DEF Connect, Wanted
  <2>2. id \in Boards
    BY <2>1 DEF TypeOK
  <2>3. id = b
    BY <2>1, <2>2 DEF AddrInv, OwnAddrs
  <2> QED
    BY <2>1, <2>3 DEF Connect, RadioInv
<1>2. /\ link' = [link EXCEPT ![b] = TRUE] /\ board' = [board EXCEPT ![b] = "connected"]
      /\ radio' = "top" /\ pending' = {}
      /\ UNCHANGED <<found, ended, flag, sleeping, owner, ownerFlash, flash, queued, left>>
  BY DEF Connect, flashVars
<1>3. slots = [id \in Boards |-> slots[id]]
  BY DEF AddrInv
<1>4. /\ slots' = [id \in Boards |-> slots'[id]] /\ slots'[b] = Connected(b)
      /\ \A id \in Boards \ {b} : slots'[id] = slots[id]
  BY <1>1, <1>3
<1>5. TypeOK'
  <2>1. \A id \in Boards : slots'[id] \in Slot
    <3>1. Connected(b) \in Slot /\ \A id \in Boards : slots[id] \in Slot
      BY DEF TypeOK, Slot
    <3> QED
      BY <1>4, <3>1
  <2>2. /\ session' \in [Boards -> {"none", "queued", "running", "dropped", "pausing"}]
        /\ link' \in [Boards -> BOOLEAN]
        /\ board' \in [Boards -> {"directed", "seeking", "asleep", "connected", "serving"}]
    BY <1>1, <1>2 DEF TypeOK
  <2> QED
    BY <1>2, <2>1, <2>2 DEF TypeOK, Slot
<1>6. AddrInv'
  BY <1>2, <1>4 DEF AddrInv, OwnAddrs
<1>7. /\ session'[b] = "queued" /\ \A id \in Boards \ {b} : session'[id] = session[id]
      /\ \A id \in Boards \ {b} : link'[id] = link[id]
  BY <1>1, <1>2 DEF TypeOK
<1>8. LinkInv'
  BY <1>4, <1>7 DEF LinkInv
<1>9. b \notin Range(ended)
  BY <1>1 DEF SlotTracksSession
<1>10. RadioInv'
  BY <1>2, <1>7, <1>9 DEF RadioInv, TypeOK
<1>11. SlotTracksSession'
  BY <1>2, <1>4, <1>7 DEF SlotTracksSession
<1> QED
  BY <1>5, <1>6, <1>8, <1>10, <1>11

\* A failed or given-up connection empties the accept list.
LEMMA ConnectErrorKeeps ==
    ASSUME SLInv, ConnectError
    PROVE  SLInv'
<1> USE SlotFacts, SpendKeeps, RangeIn DEF SLInv, centralVars, sessionVars, boardVars, flashVars
<1>1. TypeOK'
  BY DEF TypeOK, AddrInv, ConnectError, Woken
<1>2. AddrInv'
  BY DEF TypeOK, AddrInv, OwnAddrs, ConnectError, Woken
<1>3. LinkInv'
  BY DEF TypeOK, AddrInv, OwnAddrs, LinkInv, SlotTracksSession, ConnectError, Woken
<1>4. RadioInv'
  BY DEF TypeOK, AddrInv, RadioInv, SlotTracksSession, ConnectError, Woken
<1>5. SlotTracksSession'
  BY DEF TypeOK, AddrInv, RadioInv, SlotTracksSession, ConnectError, Woken
<1> QED
  BY <1>1, <1>2, <1>3, <1>4, <1>5

LEMMA ConnectTimeoutKeeps ==
    ASSUME SLInv, ConnectTimeout
    PROVE  SLInv'
<1> USE SlotFacts, RangeIn DEF SLInv
<1>1. /\ pending' = {} /\ radio' \in {"top", "wait"}
      /\ slots' = [id \in Boards |-> IF ~sleeping /\ id \in pending THEN NoAddr ELSE slots[id]]
      /\ UNCHANGED <<found, session, ended, flag, sleeping, link, board, owner, ownerFlash,
                     flash, queued, left>>
  BY DEF ConnectTimeout, Woken, sessionVars, boardVars, flashVars
<1>2. \A id \in Boards : slots'[id] = slots[id]
                         \/ (slots'[id] = NoAddr /\ slots[id].st = "Disconnected")
  BY <1>1 DEF RadioInv
<1>3. TypeOK'
  BY <1>1, <1>2 DEF TypeOK
<1>4. AddrInv'
  BY <1>1, <1>2 DEF AddrInv, OwnAddrs
<1>5. LinkInv'
  BY <1>1, <1>2 DEF LinkInv
<1>6. RadioInv'
  BY <1>1 DEF RadioInv
<1>7. SlotTracksSession'
  BY <1>1, <1>2 DEF SlotTracksSession
<1> QED
  BY <1>3, <1>4, <1>5, <1>6, <1>7

\* Waiting and scanning change no slot.
LEMMA WakeKeeps ==
    ASSUME SLInv, Wake
    PROVE  SLInv'
<1> USE SlotFacts, SpendKeeps, RangeIn DEF SLInv, centralVars, sessionVars, boardVars, flashVars
<1>1. TypeOK'
  BY DEF TypeOK, AddrInv, Wake
<1>2. AddrInv'
  BY DEF TypeOK, AddrInv, OwnAddrs, Wake
<1>3. LinkInv'
  BY DEF TypeOK, AddrInv, OwnAddrs, LinkInv, SlotTracksSession, Wake
<1>4. RadioInv'
  BY DEF TypeOK, AddrInv, RadioInv, SlotTracksSession, Wake
<1>5. SlotTracksSession'
  BY DEF TypeOK, AddrInv, RadioInv, SlotTracksSession, Wake
<1> QED
  BY <1>1, <1>2, <1>3, <1>4, <1>5

LEMMA ScanReportKeeps ==
    ASSUME SLInv, ScanReport
    PROVE  SLInv'
<1> USE SlotFacts DEF SLInv
<1>1. UNCHANGED <<slots, radio, pending, session, ended, flag, sleeping, link, board, owner,
                  ownerFlash, flash, queued, left>>
  BY DEF ScanReport, sessionVars, boardVars, flashVars
<1>2. PICK b \in left.near : found' = [id |-> b, addr |-> b]
  BY DEF ScanReport, Report
<1>3. b \in Boards
  BY DEF AddrInv, Scenario
<1>4. found' \in [id : Boards, addr : Boards] /\ found'.addr = found'.id
  BY <1>2, <1>3
<1>5. found'.id \in 0 .. N /\ found'.addr \in Addrs \union {NoOne}
  BY <1>2, <1>3
<1>6. TypeOK'
  BY <1>1, <1>5 DEF TypeOK
<1>7. AddrInv'
  BY <1>1, <1>4 DEF AddrInv
<1>8. LinkInv' /\ RadioInv' /\ SlotTracksSession'
  BY <1>1 DEF LinkInv, RadioInv, SlotTracksSession
<1> QED
  BY <1>6, <1>7, <1>8

LEMMA GhostReportKeeps ==
    ASSUME SLInv, GhostReport
    PROVE  SLInv'
<1> USE SlotFacts DEF SLInv, centralVars, sessionVars, boardVars, flashVars
<1>1. left' \in Scenario
  BY SpendKeeps DEF GhostReport, AddrInv
<1>2. found' \in [id : 0 .. N, addr : {Ghost}]
  <2>1. Boards \union {N} \subseteq 0 .. N
    BY DEF Boards
  <2> QED
    BY <2>1 DEF GhostReport, Report
<1>3. UNCHANGED <<slots, radio, pending, session, ended, flag, sleeping, link, board, owner,
                  ownerFlash, flash, queued>>
  BY DEF GhostReport
<1>4. TypeOK' /\ AddrInv'
  BY <1>1, <1>2, <1>3 DEF TypeOK, AddrInv
<1>5. LinkInv' /\ RadioInv' /\ SlotTracksSession'
  BY <1>3 DEF LinkInv, RadioInv, SlotTracksSession
<1> QED
  BY <1>4, <1>5

\* A report fills an empty slot, with the board's own address or a ghost's.
LEMMA TakeKeeps ==
    ASSUME SLInv, Take
    PROVE  SLInv'
<1> USE SlotFacts, RangeIn DEF SLInv
<1>1. /\ found # Nothing /\ found' = Nothing /\ radio' = "top"
      /\ UNCHANGED <<pending, session, ended, flag, sleeping, link, board, owner, ownerFlash, left>>
  BY DEF Take, sessionVars, boardVars
<1>2. CASE UNCHANGED <<slots, flash, queued>>
  <2>1. TypeOK' /\ AddrInv'
    BY <1>1, <1>2 DEF TypeOK, AddrInv
  <2> QED
    BY <1>1, <1>2, <2>1 DEF LinkInv, RadioInv, SlotTracksSession
<1>3. CASE /\ found.id \in Boards /\ slots[found.id] = NoAddr
           /\ slots' = [slots EXCEPT ![found.id] = Disconnected(found.addr)]
           /\ queued' = [queued EXCEPT ![found.id] = found.addr] /\ UNCHANGED flash
  <2> DEFINE id == found.id
             a  == found.addr
  <2>1. id \in Boards /\ a \in {id, Ghost}
    BY <1>1, <1>3 DEF AddrInv
  <2>2. slots = [i \in Boards |-> slots[i]] /\ slots[id] = NoAddr
    BY <1>3 DEF AddrInv
  <2>3. /\ slots' = [i \in Boards |-> slots'[i]] /\ slots'[id] = Disconnected(a)
        /\ \A i \in Boards \ {id} : slots'[i] = slots[i]
    BY <1>3, <2>1, <2>2
  <2>4. queued'[id] = a /\ \A i \in Boards \ {id} : queued'[i] = queued[i]
    BY <1>3, <2>1 DEF TypeOK
  <2>5. a \in Addrs
    BY <2>1
  <2>6. queued' \in [Boards -> Addrs \union {NoOne, Unchanged}]
    BY <1>3, <2>5 DEF TypeOK
  <2> HIDE DEF id, a
  <2>7. \A i \in Boards : slots'[i] \in Slot
    <3>1. \A i \in Boards : slots[i] \in Slot
      BY DEF TypeOK, Slot
    <3>2. Disconnected(a) \in Slot
      BY <2>5 DEF Slot
    <3> QED
      BY <2>3, <3>1, <3>2
  <2>8. TypeOK'
    BY <1>1, <1>3, <2>6, <2>7 DEF TypeOK, Slot
  <2>9. AddrInv'
    <3>1. \A i \in Boards : slots'[i].addr \in OwnAddrs(i)
                            /\ queued'[i] \in OwnAddrs(i) \union {Unchanged}
      BY <2>1, <2>3, <2>4 DEF AddrInv, OwnAddrs
    <3> QED
      BY <1>1, <1>3, <2>3, <3>1 DEF AddrInv
  <2>10. LinkInv'
    BY <1>1, <2>2, <2>3 DEF LinkInv
  <2>11. RadioInv'
    BY <1>1, <2>2, <2>3 DEF RadioInv, TypeOK
  <2>12. SlotTracksSession'
    BY <1>1, <2>2, <2>3 DEF SlotTracksSession
  <2> QED
    BY <2>8, <2>9, <2>10, <2>11, <2>12
<1> QED
  BY <1>2, <1>3 DEF Take, Store, flashVars

LEMMA ScanEndsKeeps ==
    ASSUME SLInv, ScanEnds
    PROVE  SLInv'
<1> USE SlotFacts, SpendKeeps, RangeIn DEF SLInv, centralVars, sessionVars, boardVars, flashVars
<1>1. TypeOK'
  BY DEF TypeOK, AddrInv, ScanEnds
<1>2. AddrInv'
  BY DEF TypeOK, AddrInv, OwnAddrs, ScanEnds
<1>3. LinkInv'
  BY DEF TypeOK, AddrInv, OwnAddrs, LinkInv, SlotTracksSession, ScanEnds
<1>4. RadioInv'
  BY DEF TypeOK, AddrInv, RadioInv, SlotTracksSession, ScanEnds
<1>5. SlotTracksSession'
  BY DEF TypeOK, AddrInv, RadioInv, SlotTracksSession, ScanEnds
<1> QED
  BY <1>1, <1>2, <1>3, <1>4, <1>5

\* A session keeps its slot to the end, and the link until the stack disconnects.
LEMMA SessionStartKeeps ==
    ASSUME SLInv, NEW id \in Boards, SessionStart(id)
    PROVE  SLInv'
<1> USE SlotFacts, SpendKeeps, RangeIn DEF SLInv, centralVars, sessionVars, boardVars, flashVars
<1>1. TypeOK'
  BY DEF TypeOK, AddrInv, SessionStart
<1>2. AddrInv'
  BY DEF TypeOK, AddrInv, OwnAddrs, SessionStart
<1>3. LinkInv'
  BY DEF TypeOK, AddrInv, OwnAddrs, LinkInv, SlotTracksSession, SessionStart
<1>4. RadioInv'
  BY DEF TypeOK, AddrInv, RadioInv, SlotTracksSession, SessionStart
<1>5. SlotTracksSession'
  BY DEF TypeOK, AddrInv, RadioInv, SlotTracksSession, SessionStart
<1> QED
  BY <1>1, <1>2, <1>3, <1>4, <1>5

LEMMA SessionStopsKeeps ==
    ASSUME SLInv, NEW id \in Boards, SessionStops(id)
    PROVE  SLInv'
<1> USE SlotFacts, SpendKeeps, RangeIn DEF SLInv, centralVars, sessionVars, boardVars, flashVars
<1>1. TypeOK'
  BY DEF TypeOK, AddrInv, SessionStops
<1>2. AddrInv'
  BY DEF TypeOK, AddrInv, OwnAddrs, SessionStops
<1>3. LinkInv'
  BY DEF TypeOK, AddrInv, OwnAddrs, LinkInv, SlotTracksSession, SessionStops
<1>4. RadioInv'
  BY DEF TypeOK, AddrInv, RadioInv, SlotTracksSession, SessionStops
<1>5. SlotTracksSession'
  BY DEF TypeOK, AddrInv, RadioInv, SlotTracksSession, SessionStops
<1> QED
  BY <1>1, <1>2, <1>3, <1>4, <1>5

LEMMA StackDisconnectsKeeps ==
    ASSUME SLInv, NEW id \in Boards, StackDisconnects(id)
    PROVE  SLInv'
<1> USE SlotFacts, SpendKeeps, RangeIn DEF SLInv, centralVars, sessionVars, boardVars, flashVars
<1>1. TypeOK'
  BY DEF TypeOK, AddrInv, StackDisconnects
<1>2. AddrInv'
  BY DEF TypeOK, AddrInv, OwnAddrs, StackDisconnects
<1>3. LinkInv'
  BY DEF TypeOK, AddrInv, OwnAddrs, LinkInv, SlotTracksSession, StackDisconnects
<1>4. RadioInv'
  BY DEF TypeOK, AddrInv, RadioInv, SlotTracksSession, StackDisconnects
<1>5. SlotTracksSession'
  BY DEF TypeOK, AddrInv, RadioInv, SlotTracksSession, StackDisconnects
<1> QED
  BY <1>1, <1>2, <1>3, <1>4, <1>5

\* The end is reported once, by a session that has nothing left to do.
LEMMA SessionEndsKeeps ==
    ASSUME SLInv, NEW id \in Boards, SessionEnds(id)
    PROVE  SLInv'
<1> USE SlotFacts, RangeIn DEF SLInv
<1>1. /\ session[id] = "pausing" /\ Len(ended) < N
      /\ session' = [session EXCEPT ![id] = "none"] /\ ended' = Append(ended, id)
      /\ UNCHANGED <<slots, radio, pending, found, flag, sleeping, link, board, owner,
                     ownerFlash, flash, queued, left>>
  BY DEF SessionEnds, centralVars, boardVars, flashVars
<1>2. /\ ended' \in Seq(Boards) /\ Len(ended') <= N
      /\ Range(ended') = Range(ended) \union {id}
  BY <1>1, RangeAppended DEF TypeOK
<1>3. session'[id] = "none" /\ \A i \in Boards \ {id} : session'[i] = session[i]
  BY <1>1 DEF TypeOK
<1>4. TypeOK'
  BY <1>1, <1>2 DEF TypeOK
<1>5. AddrInv'
  BY <1>1 DEF AddrInv
<1>6. LinkInv'
  BY <1>1, <1>3 DEF LinkInv
<1>7. RadioInv'
  BY <1>1, <1>2, <1>3 DEF RadioInv, TypeOK
<1>8. SlotTracksSession'
  BY <1>1, <1>2, <1>3 DEF SlotTracksSession
<1> QED
  BY <1>4, <1>5, <1>6, <1>7, <1>8

\* What the boards and the user do concerns no slot.
LEMMA BoardStepKeeps ==
    ASSUME SLInv, NEW b \in Boards,
           BoardServes(b) \/ BoardDisconnected(b) \/ DirectedTimeout(b) \/ SeekTimeout(b)
             \/ KeyWakesBoard(b)
    PROVE  SLInv'
<1> USE SlotFacts DEF SLInv, centralVars, sessionVars, flashVars
<1>1. UNCHANGED <<slots, radio, pending, found, session, ended, flag, sleeping, link, flash, queued>>
  BY DEF BoardServes, BoardDisconnected, DirectedTimeout, SeekTimeout, KeyWakesBoard
<1>2. left' \in Scenario
  BY SpendKeeps
  DEF AddrInv, BoardServes, BoardDisconnected, DirectedTimeout, SeekTimeout, KeyWakesBoard
<1>3. board' \in [Boards -> {"directed", "seeking", "asleep", "connected", "serving"}]
  <2>1. \E to \in {"directed", "seeking", "asleep", "serving"} : Goes(b, to)
    BY DEF Advertising, BoardServes, BoardDisconnected, DirectedTimeout, SeekTimeout, KeyWakesBoard
  <2> QED
    BY <2>1 DEF Goes, TypeOK
<1>4. owner' \in [Boards -> {ThisOne, OtherOne, NoOne}]
      /\ ownerFlash' \in [Boards -> {ThisOne, OtherOne, NoOne}]
  <2>1. /\ owner' = owner \/ owner' = [owner EXCEPT ![b] = ThisOne]
        /\ ownerFlash' = ownerFlash \/ ownerFlash' = [ownerFlash EXCEPT ![b] = ThisOne]
    BY DEF BoardServes, BoardDisconnected, DirectedTimeout, SeekTimeout, KeyWakesBoard
  <2> QED
    BY <2>1 DEF TypeOK
<1>5. TypeOK'
  BY <1>1, <1>3, <1>4 DEF TypeOK
<1>6. AddrInv'
  BY <1>1, <1>2 DEF AddrInv
<1>7. LinkInv' /\ RadioInv' /\ SlotTracksSession'
  BY <1>1 DEF LinkInv, RadioInv, SlotTracksSession
<1> QED
  BY <1>5, <1>6, <1>7

LEMMA AdvertiseErrorKeeps ==
    ASSUME SLInv, AdvertiseError
    PROVE  SLInv'
<1> USE SlotFacts, SpendKeeps, RangeIn DEF SLInv, centralVars, sessionVars, boardVars, flashVars
<1>1. TypeOK'
  BY DEF TypeOK, AddrInv, AdvertiseError, Goes, Advertising
<1>2. AddrInv'
  BY DEF TypeOK, AddrInv, OwnAddrs, AdvertiseError, Goes, Advertising
<1>3. LinkInv'
  BY DEF TypeOK, AddrInv, OwnAddrs, LinkInv, SlotTracksSession, AdvertiseError, Goes, Advertising
<1>4. RadioInv'
  BY DEF TypeOK, AddrInv, RadioInv, SlotTracksSession, AdvertiseError, Goes, Advertising
<1>5. SlotTracksSession'
  BY DEF TypeOK, AddrInv, RadioInv, SlotTracksSession, AdvertiseError, Goes, Advertising
<1> QED
  BY <1>1, <1>2, <1>3, <1>4, <1>5

LEMMA LinkLossKeeps ==
    ASSUME SLInv, LinkLoss
    PROVE  SLInv'
<1> USE SlotFacts, SpendKeeps, RangeIn DEF SLInv, centralVars, sessionVars, boardVars, flashVars
<1>1. TypeOK'
  BY DEF TypeOK, AddrInv, LinkLoss
<1>2. AddrInv'
  BY DEF TypeOK, AddrInv, OwnAddrs, LinkLoss
<1>3. LinkInv'
  BY DEF TypeOK, AddrInv, OwnAddrs, LinkInv, SlotTracksSession, LinkLoss
<1>4. RadioInv'
  BY DEF TypeOK, AddrInv, RadioInv, SlotTracksSession, LinkLoss
<1>5. SlotTracksSession'
  BY DEF TypeOK, AddrInv, RadioInv, SlotTracksSession, LinkLoss
<1> QED
  BY <1>1, <1>2, <1>3, <1>4, <1>5

LEMMA SleepChangesKeeps ==
    ASSUME SLInv, SleepChanges
    PROVE  SLInv'
<1> USE SlotFacts, SpendKeeps, RangeIn DEF SLInv, centralVars, sessionVars, boardVars, flashVars
<1>1. TypeOK'
  BY DEF TypeOK, AddrInv, SleepChanges
<1>2. AddrInv'
  BY DEF TypeOK, AddrInv, OwnAddrs, SleepChanges
<1>3. LinkInv'
  BY DEF TypeOK, AddrInv, OwnAddrs, LinkInv, SlotTracksSession, SleepChanges
<1>4. RadioInv'
  BY DEF TypeOK, AddrInv, RadioInv, SlotTracksSession, SleepChanges
<1>5. SlotTracksSession'
  BY DEF TypeOK, AddrInv, RadioInv, SlotTracksSession, SleepChanges
<1> QED
  BY <1>1, <1>2, <1>3, <1>4, <1>5

LEMMA ClearPeerKeeps ==
    ASSUME SLInv, ClearPeer
    PROVE  SLInv'
<1> USE SlotFacts, SpendKeeps, RangeIn DEF SLInv, centralVars, sessionVars, boardVars, flashVars
<1>1. TypeOK'
  BY DEF TypeOK, AddrInv, ClearPeer
<1>2. AddrInv'
  BY DEF TypeOK, AddrInv, OwnAddrs, ClearPeer
<1>3. LinkInv'
  BY DEF TypeOK, AddrInv, OwnAddrs, LinkInv, SlotTracksSession, ClearPeer
<1>4. RadioInv'
  BY DEF TypeOK, AddrInv, RadioInv, SlotTracksSession, ClearPeer
<1>5. SlotTracksSession'
  BY DEF TypeOK, AddrInv, RadioInv, SlotTracksSession, ClearPeer
<1> QED
  BY <1>1, <1>2, <1>3, <1>4, <1>5

LEMMA BoardRebootsKeeps ==
    ASSUME SLInv, BoardReboots
    PROVE  SLInv'
<1> USE DEF SLInv
<1>1. PICK b \in left.near : /\ owner' = [owner EXCEPT ![b] = ownerFlash[b]]
                             /\ board' = [board EXCEPT ![b] = Advertising(ownerFlash[b])]
                             /\ link' = [link EXCEPT ![b] = FALSE]
  BY DEF BoardReboots, Goes
<1>2. UNCHANGED <<slots, radio, pending, found, session, ended, flag, sleeping, ownerFlash,
                  flash, queued>>
  BY DEF BoardReboots, centralVars, sessionVars, flashVars
<1>3. b \in Boards
  BY DEF AddrInv, Scenario
<1>4. owner' \in [Boards -> {ThisOne, OtherOne, NoOne}] /\ link' \in [Boards -> BOOLEAN]
      /\ board' \in [Boards -> {"directed", "seeking", "asleep", "connected", "serving"}]
  <2>1. ownerFlash[b] \in {ThisOne, OtherOne, NoOne}
    BY <1>3 DEF TypeOK
  <2>2. Advertising(ownerFlash[b]) \in {"directed", "seeking"}
    BY DEF Advertising
  <2> QED
    BY <1>1, <1>3, <2>1, <2>2 DEF TypeOK
<1>5. TypeOK'
  BY <1>2, <1>4 DEF TypeOK
<1>6. AddrInv'
  <2>1. left' \in Scenario
    BY SpendKeeps DEF BoardReboots, AddrInv
  <2> QED
    BY <1>2, <2>1 DEF AddrInv
<1>7. LinkInv'
  BY <1>1, <1>2, <1>3 DEF LinkInv, TypeOK
<1>8. RadioInv' /\ SlotTracksSession'
  BY <1>2 DEF RadioInv, SlotTracksSession
<1> QED
  BY <1>5, <1>6, <1>7, <1>8

\* After a reboot every slot is what flash says, and no link or session is left.
LEMMA CentralRebootsKeeps ==
    ASSUME SLInv, CentralReboots
    PROVE  SLInv'
<1> USE SlotFacts DEF SLInv
<1>1. /\ slots' = [id \in Boards |-> IF flash[id] = NoOne THEN NoAddr ELSE Disconnected(flash[id])]
      /\ radio' = "top" /\ pending' = {} /\ found' = Nothing
      /\ session' = [id \in Boards |-> "none"] /\ ended' = <<>>
      /\ flag' = [id \in Boards |-> FALSE] /\ sleeping' = FALSE
      /\ link' = [b \in Boards |-> FALSE]
      /\ queued' = [id \in Boards |-> Unchanged]
      /\ UNCHANGED <<board, owner, ownerFlash, flash>>
  BY DEF CentralReboots, Loaded, boardVars
<1>2. \A id \in Boards : /\ slots'[id] \in Slot /\ slots'[id].st # "Connected"
                         /\ slots'[id].addr = flash[id]
  <2>1. \A id \in Boards : flash[id] \in Addrs \union {NoOne}
    BY DEF TypeOK
  <2> QED
    BY <1>1, <2>1 DEF Slot
<1>3. TypeOK'
  <2>1. sleeping' \in BOOLEAN /\ flag' \in [Boards -> BOOLEAN] /\ link' \in [Boards -> BOOLEAN]
    BY <1>1
  <2>2. ended' \in Seq(Boards) /\ Len(ended') <= N
    BY <1>1
  <2>3. queued' \in [Boards -> Addrs \union {NoOne, Unchanged}]
        /\ session' \in [Boards -> {"none", "queued", "running", "dropped", "pausing"}]
    BY <1>1
  <2>4. found'.id \in 0 .. N /\ found'.addr \in Addrs \union {NoOne}
    BY <1>1
  <2> QED
    BY <1>1, <1>2, <2>1, <2>2, <2>3, <2>4 DEF TypeOK, Slot
<1>4. AddrInv'
  <2>1. left' \in Scenario
    BY SpendKeeps DEF CentralReboots, AddrInv
  <2> QED
    BY <1>1, <1>2, <2>1 DEF AddrInv
<1>5. LinkInv' /\ RadioInv' /\ SlotTracksSession'
  BY <1>1, <1>2, RangeEmpty DEF LinkInv, RadioInv, SlotTracksSession
<1> QED
  BY <1>3, <1>4, <1>5

-----------------------------------------------------------------------------
(* The theorem.                                                            *)

LEMMA InitSLInv == Init => SLInv
<1> SUFFICES ASSUME Init PROVE SLInv
  OBVIOUS
<1> USE SlotFacts DEF Init
<1>1. /\ left \in Scenario /\ flash \in [Boards -> Addrs \union {NoOne}]
      /\ \A b \in Boards : flash[b] \in OwnAddrs(b)
      /\ ownerFlash \in [Boards -> {ThisOne, OtherOne, NoOne}]
  BY SplitScenarios DEF Scenario, OwnAddrs
<1>2. slots = [id \in Boards |-> IF flash[id] = NoOne THEN NoAddr ELSE Disconnected(flash[id])]
  BY DEF Loaded
<1>3. \A id \in Boards : /\ slots[id] \in Slot /\ slots[id].st # "Connected"
                         /\ slots[id].addr = flash[id]
  BY <1>1, <1>2 DEF Slot
<1>4. TypeOK
  <2>1. sleeping \in BOOLEAN /\ flag \in [Boards -> BOOLEAN] /\ link \in [Boards -> BOOLEAN]
    OBVIOUS
  <2>2. ended \in Seq(Boards) /\ Len(ended) <= N
    OBVIOUS
  <2>3. queued \in [Boards -> Addrs \union {NoOne, Unchanged}]
        /\ session \in [Boards -> {"none", "queued", "running", "dropped", "pausing"}]
    OBVIOUS
  <2>4. found.id \in 0 .. N /\ found.addr \in Addrs \union {NoOne}
    OBVIOUS
  <2>5. board \in [Boards -> {"directed", "seeking", "asleep", "connected", "serving"}]
    BY DEF Advertising
  <2>6. radio = "top" /\ pending = {} /\ owner = ownerFlash
    OBVIOUS
  <2> QED
    BY <1>1, <1>3, <2>1, <2>2, <2>3, <2>4, <2>5, <2>6 DEF TypeOK, Slot
<1>5. AddrInv
  BY <1>1, <1>2, <1>3 DEF AddrInv
<1>6. LinkInv /\ RadioInv /\ SlotTracksSession
  BY <1>3, RangeEmpty DEF LinkInv, RadioInv, SlotTracksSession
<1> QED
  BY <1>4, <1>5, <1>6 DEF SLInv

LEMMA NextSLInv == SLInv /\ [Next]_vars => SLInv'
<1> SUFFICES ASSUME SLInv, [Next]_vars PROVE SLInv'
  OBVIOUS
<1>1. CASE Step
  <2>1. CASE Top \/ ConnectTimeout \/ Wake \/ ScanReport \/ Take \/ ScanEnds \/ StorageWrites
    BY <2>1, TopKeeps, ConnectTimeoutKeeps, WakeKeeps, ScanReportKeeps, TakeKeeps, ScanEndsKeeps,
       StorageWritesKeeps
  <2>2. ASSUME NEW b \in Boards,
               Connect(b) \/ BoardServes(b) \/ BoardDisconnected(b) \/ DirectedTimeout(b)
                 \/ SeekTimeout(b)
        PROVE  SLInv'
    BY <2>2, ConnectKeeps, BoardStepKeeps
  <2>3. ASSUME NEW id \in Boards,
               SessionStart(id) \/ SessionStops(id) \/ StackDisconnects(id) \/ SessionEnds(id)
        PROVE  SLInv'
    BY <2>3, SessionStartKeeps, SessionStopsKeeps, StackDisconnectsKeeps, SessionEndsKeeps
  <2> QED
    BY <1>1, <2>1, <2>2, <2>3 DEF Step
<1>2. CASE Fault
  <2>1. ASSUME NEW b \in Boards, KeyWakesBoard(b) PROVE SLInv'
    BY <2>1, BoardStepKeeps
  <2> QED
    BY <1>2, <2>1, ConnectErrorKeeps, GhostReportKeeps, AdvertiseErrorKeeps, LinkLossKeeps,
       SleepChangesKeeps, ClearPeerKeeps, BoardRebootsKeeps, CentralRebootsKeeps DEF Fault
<1>3. CASE UNCHANGED vars
  BY <1>3 DEF SLInv, TypeOK, AddrInv, LinkInv, RadioInv, SlotTracksSession, vars, centralVars,
              sessionVars, boardVars, flashVars
<1> QED
  BY <1>1, <1>2, <1>3 DEF Next

\* With any number of peripherals, and links, boards and the central failing at any time: a
\* slot is Connected exactly while its session has not reported its end, and a board is
\* connected to again only after the stack let go of its old link
\* (scan_and_connect_peripherals, run_peripheral_session).
THEOREM SlotsAreFollowed == Spec => []SlotsFollowSessions
<1>1. SLInv => SlotsFollowSessions
  <2> SUFFICES ASSUME SLInv PROVE CleanReconnect
    BY DEF SLInv, SlotsFollowSessions
  <2> SUFFICES ASSUME NEW id \in pending, slots[id].addr \in Boards
               PROVE  ~ link[slots[id].addr]
    BY DEF CleanReconnect
  <2>1. id \in Boards /\ slots[id].st = "Disconnected"
    BY DEF SLInv, TypeOK, RadioInv
  <2>2. slots[id].addr = id
    BY <2>1, SlotFacts DEF SLInv, AddrInv, OwnAddrs
  <2> QED
    BY <2>1, <2>2, SlotFacts DEF SLInv, LinkInv
<1> QED
  BY <1>1, InitSLInv, NextSLInv, PTL DEF Spec

=============================================================================
