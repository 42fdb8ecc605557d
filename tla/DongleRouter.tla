---------------------------- MODULE DongleRouter ----------------------------
(***************************************************************************)
(* The dongle's USB session (dongle/router.rs, and vial_router.rs when the *)
(* scenario says vial): a relay between the configurator on the host and   *)
(* the keyboard, through two queues that the dongle task drains and fills. *)
(*                                                                         *)
(* Bytes come in pieces: what one read or one notification carries.  A     *)
(* Rynk frame is one piece or two, the last of which holds the closing     *)
(* 0x00; a Vial report is one piece.                                       *)
(***************************************************************************)
EXTENDS Integers, Sequences, FiniteSets

CONSTANTS
    KbCap, HostCap, \* pieces to_keyboard and to_host hold
    MaxRequests     \* bound: requests of a behaviour

ASSUME RouterSizes == {KbCap, HostCap, MaxRequests} \subseteq Nat \ {0}

Requests == 1 .. MaxRequests

Piece(r, k, n)  == [req |-> r, k |-> k, n |-> n]
Pieces(r, n)    == [k \in 1 .. n |-> Piece(r, k, n)]
Delimiter       == Piece(0, 1, 1)
NotReady(r)     == Piece(r, 0, 0)   \* a whole answer, with a delimiter in front

VARIABLES
    up,       \* link_connected
    dropped,  \* link_dropped is signalled
    toKb,     \* to_keyboard
    toHost,   \* to_host
    rx,       \* what the host wrote and the session has not read
    hpc,      \* host_to_keyboard: "read", "forward" or "reply"
    cur,      \* the piece it works on
    head,     \* pieces with a body it read of the frame in flight
    part,     \* history: how many of these went to the link that is up now
    kbuf,     \* the keyboard's deframer
    notes,    \* notifications the keyboard sent
    hbuf,     \* the host's deframer
    fate,     \* history: what became of each request
    rose,     \* history: a link came up in the middle of a frame
    glued,    \* history: a delimiter that was due did not fit
    bogus,    \* history: the host decoded a frame nobody sent
    left      \* the scenario, and what is left of its bounds

task   == <<rx, hpc, cur, head, part>>
ends   == <<kbuf, notes, hbuf>>
ghosts == <<fate, rose, glued, bogus>>
router == <<up, dropped, toKb, toHost, task, ends, ghosts>>

Spend(what) == left[what] > 0 /\ left' = [left EXCEPT ![what] = @ - 1]

\* A configurator opens with a lone delimiter (rynk/src/driver.rs).
Opening == IF left.vial THEN <<>> ELSE <<Delimiter>>

RouterInit ==
    /\ up = FALSE /\ dropped = FALSE /\ toKb = <<>> /\ toHost = <<>>
    /\ rx = Opening /\ hpc = "read" /\ cur = Delimiter /\ head = 0 /\ part = 0
    /\ kbuf = <<>> /\ notes = <<>> /\ hbuf = <<>>
    /\ fate = [r \in Requests |-> "unsent"]
    /\ rose = FALSE /\ glued = FALSE /\ bogus = FALSE

-----------------------------------------------------------------------------
(* The link, as the dongle task reports it *)

Full(q) == Len(q) >= HostCap

\* try_write(&[0]): nothing is written into a full pipe.
Delimited(q) == IF left.vial \/ Full(q) THEN q ELSE Append(q, Delimiter)

Lost(which) == [r \in Requests |-> IF fate[r] \in which THEN "lost" ELSE fate[r]]

\* The executor polls a forward that link_down woke long before another link is ready.
LinkUp ==
    /\ hpc = "forward" => ~dropped
    /\ up' = TRUE
    /\ dropped' = FALSE
    /\ toKb' = <<>>
    /\ kbuf' = <<>> /\ notes' = <<>> /\ part' = 0
    /\ rose' = (rose \/ head > 0)
    /\ UNCHANGED <<toHost, rx, hpc, cur, head, hbuf, fate, glued, bogus>>

LinkDown ==
    /\ up' = FALSE
    /\ dropped' = TRUE
    /\ toKb' = <<>>
    /\ toHost' = Delimited(toHost)
    /\ kbuf' = <<>> /\ notes' = <<>> /\ part' = 0
    /\ fate' = Lost({"whole"})
    /\ glued' = (glued \/ (~left.vial /\ Full(toHost)))
    /\ UNCHANGED <<rx, hpc, cur, head, hbuf, rose, bogus>>

-----------------------------------------------------------------------------
(* Host to keyboard *)

\* The host writes request r in n pieces.
HostSends(r, n) ==
    /\ fate[r] = "unsent" /\ \A q \in 1 .. r - 1 : fate[q] # "unsent"
    /\ n = 1 \/ ~left.vial
    /\ Spend("requests")
    /\ rx' = rx \o Pieces(r, n)
    /\ fate' = [fate EXCEPT ![r] = "sent"]
    /\ UNCHANGED <<up, dropped, toKb, toHost, hpc, cur, head, part, ends, rose, glued, bogus>>

Body(p) == p.req # 0

\* Mutant: a frame whose last piece was dropped is not answered.
Checked_NoReply(p, w) ==
    LET last == p.k = p.n
        read == head + (IF Body(p) THEN 1 ELSE 0) IN
    /\ cur' = p
    /\ head' = IF last THEN 0 ELSE read
    /\ part' = IF last THEN 0 ELSE part + w
    /\ hpc' = IF last /\ read > 0 /\ ~up /\ w = 1 THEN "reply" ELSE "read"
    /\ fate' = IF last /\ read > 0 /\ up
               THEN [fate EXCEPT ![p.req] = IF part + w = read THEN "whole" ELSE "broken"]
               ELSE fate

\* The end of a piece: w tells whether it went to the link.  At the end of a frame the
\* request is answered here when there is no link.
Checked(p, w) ==
    LET last == p.k = p.n
        read == head + (IF Body(p) THEN 1 ELSE 0) IN
    /\ cur' = p
    /\ head' = IF last THEN 0 ELSE read
    /\ part' = IF last THEN 0 ELSE part + w
    /\ hpc' = IF last /\ read > 0 /\ ~up THEN "reply" ELSE "read"
    /\ fate' = IF last /\ read > 0 /\ up
               THEN [fate EXCEPT ![p.req] = IF part + w = read THEN "whole" ELSE "broken"]
               ELSE fate

ReadPiece ==
    /\ hpc = "read" /\ rx # <<>>
    /\ rx' = Tail(rx)
    /\ \/ /\ up
          /\ hpc' = "forward" /\ cur' = Head(rx)
          /\ UNCHANGED <<head, part, fate>>
       \/ ~up /\ Checked(Head(rx), 0)
    /\ UNCHANGED <<up, dropped, toKb, toHost, ends, rose, glued, bogus, left>>

\* Mutant: the failed write counts only when the queue is full.
ForwardFails_WriteFirst == dropped /\ Len(toKb) >= KbCap

\* link_dropped is polled before the write.
ForwardFails == dropped

Forward ==
    /\ hpc = "forward"
    /\ \/ /\ ForwardFails
          /\ dropped' = FALSE
          /\ Checked(cur, 0)
          /\ UNCHANGED toKb
       \/ /\ ~ForwardFails
          /\ Len(toKb) < KbCap
          /\ toKb' = Append(toKb, cur)
          /\ Checked(cur, IF Body(cur) THEN 1 ELSE 0)
          /\ UNCHANGED dropped
    /\ UNCHANGED <<up, toHost, rx, ends, rose, glued, bogus, left>>

\* The answer waits for room in to_host.
Reply ==
    /\ hpc = "reply"
    /\ ~Full(toHost)
    /\ toHost' = Append(toHost, NotReady(cur.req))
    /\ hpc' = "read"
    /\ fate' = [fate EXCEPT ![cur.req] = "refused"]
    /\ UNCHANGED <<up, dropped, toKb, rx, cur, head, part, ends, rose, glued, bogus, left>>

\* request_to_keyboard: one characteristic write; the keyboard answers a whole frame in
\* as many notifications and drops any other.
KeyboardTakes ==
    /\ up /\ toKb # <<>>
    /\ LET p == Head(toKb)
           frame == Append(kbuf, p) IN
       /\ toKb' = Tail(toKb)
       /\ kbuf' = IF p.k = p.n THEN <<>> ELSE frame
       /\ notes' = IF Body(p) /\ frame = Pieces(p.req, p.n)
                   THEN notes \o Pieces(p.req, p.n) ELSE notes
    /\ UNCHANGED <<up, dropped, toHost, task, hbuf, ghosts, left>>

-----------------------------------------------------------------------------
(* Keyboard to host *)

\* keyboard_to_host of the relay: the notification goes into to_host.
Notify ==
    /\ up /\ notes # <<>> /\ ~Full(toHost)
    /\ toHost' = Append(toHost, Head(notes))
    /\ notes' = Tail(notes)
    /\ UNCHANGED <<up, dropped, toKb, task, kbuf, hbuf, ghosts, left>>

\* There is no room: Vial drops the report at once, Rynk after 20 ms.
NotifyOverflows ==
    /\ up /\ notes # <<>> /\ Full(toHost)
    /\ Spend("slow")
    /\ toHost' = Delimited(toHost)
    /\ notes' = Tail(notes)
    /\ fate' = [fate EXCEPT ![Head(notes).req] = "lost"]
    /\ glued' = (glued \/ ~left.vial)
    /\ UNCHANGED <<up, dropped, toKb, task, kbuf, hbuf, rose, bogus>>

\* keyboard_to_host of the session, and the host's deframer behind it.
HostTakes ==
    /\ toHost # <<>>
    /\ LET p == Head(toHost)
           last == p.k = p.n
           frame == Append(hbuf, p)
           intact == p.n = 0 \/ frame = Pieces(p.req, p.n) IN
       /\ toHost' = Tail(toHost)
       /\ hbuf' = IF last THEN <<>> ELSE frame
       /\ bogus' = (bogus \/ (last /\ Body(p) /\ ~intact))
       /\ fate' = IF last /\ Body(p) /\ intact /\ fate[p.req] \in {"whole", "refused"}
                  THEN [fate EXCEPT ![p.req] = "answered"] ELSE fate
    /\ UNCHANGED <<up, dropped, toKb, task, kbuf, notes, rose, glued, left>>

\* The USB side ends the session and another configurator connects.
NewSession ==
    /\ Spend("sessions")
    /\ toHost' = <<>> /\ toKb' = <<>>
    /\ rx' = Opening /\ hpc' = "read" /\ cur' = Delimiter /\ head' = 0 /\ part' = 0
    /\ hbuf' = <<>>
    /\ fate' = Lost({"sent", "whole", "refused", "broken"})
    /\ glued' = (glued \/ (notes # <<>> /\ Head(notes).k > 1))
    /\ UNCHANGED <<up, dropped, kbuf, notes, rose, bogus>>

RouterTask == ReadPiece \/ Forward \/ Reply
RouterStep == RouterTask \/ KeyboardTakes \/ Notify \/ HostTakes

RouterNext ==
    \/ RouterStep \/ NotifyOverflows \/ NewSession
    \/ \E r \in Requests, n \in 1 .. 2 : HostSends(r, n)

-----------------------------------------------------------------------------
(* Properties *)

RouterTypeOK ==
    /\ up \in BOOLEAN /\ dropped \in BOOLEAN
    /\ Len(toKb) <= KbCap /\ Len(toHost) <= HostCap
    /\ hpc \in {"read", "forward", "reply"}
    /\ head \in 0 .. 1 /\ part \in 0 .. head
    /\ fate \in [Requests -> {"unsent", "sent", "whole", "broken", "refused", "answered", "lost"}]

\* A link that is gone leaves no bytes for the keyboard that connects next: no request
\* is parked in to_keyboard, not even by a forward that was waiting when the link died
\* (link_down and the order of the select in host_to_keyboard, dongle/router.rs).
NothingParked == ~up => toKb = <<>>

\* The host never decodes a frame glued from two: a link that dies in the middle of a
\* reply closes the frame off (link_down), as long as the delimiter found room.
NoGluedFrame == bogus => glued

\* A request read in pieces is handed whole to one link or answered here; only a link
\* that comes up between two pieces breaks it (host_to_keyboard, dongle/router.rs).
WholeOrAnswered == (\E r \in Requests : fate[r] = "broken") => rose

\* Every request gets its answer, unless its link ended, a full pipe cut the stream or a
\* link came up in the middle of a frame (host_to_keyboard answers NotReady itself).
RequestsSettle ==
    \A r \in Requests :
        fate[r] = "sent" ~> (fate[r] \in {"answered", "lost", "broken"} \/ glued)

\* Frames stay whole across links and sessions (host_to_keyboard, link_down, relay).
FramesStayWhole == NothingParked /\ NoGluedFrame /\ WholeOrAnswered

=============================================================================
