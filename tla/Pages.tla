-------------------------------- MODULE Pages --------------------------------
(***************************************************************************)
(* Whole resources over a paged protocol: read_all and write_all of the host  *)
(* library (rynk/src/api.rs) against the bulk handlers of the firmware        *)
(* (host/rynk/handlers/bulk.rs).                                             *)
(*                                                                           *)
(* Reading, Lanes requests are under way at a time.  A lane claims a window   *)
(* of spacing items and covers it page by page; a page is as long as the      *)
(* reply window allows at that moment, and Busy if that is nothing.  Only     *)
(* positions are kept: a page [start, len] holds the items from start.        *)
(* Writing, the items are split by their size and the pages stored by lanes.  *)
(***************************************************************************)
EXTENDS Integers, FiniteSets, FiniteSetsExt, SequencesExt, TLC

CONSTANTS Lanes, Retries,   \* MAX_IN_FLIGHT and 16
          ReadJobs,         \* [total, device, spacing, cap]
          WriteJobs,        \* [sizes, fixed, budget, fails]
          OneByte           \* longest count that one byte encodes (127)

ASSUME PageSizes ==
    /\ Lanes \in Nat \ {0} /\ Retries \in Nat /\ OneByte \in Nat \ {0}
    /\ ReadJobs # {}
    /\ ReadJobs \subseteq [total : Nat, device : Nat, spacing : Nat \ {0}, cap : Nat]
    /\ WriteJobs # {}
    /\ WriteJobs \subseteq [sizes : Seq(Nat), fixed : Nat, budget : Nat, fails : BOOLEAN]

VARIABLES read, write

-----------------------------------------------------------------------------
(* read_all *)

Claims == [pc |-> "claim", cursor |-> 0, window |-> 0, retries |-> 0, pages |-> <<>>]

ReadStarts ==
    {[job |-> j, next |-> 0, lane |-> [l \in 1..Lanes |-> Claims]] : j \in ReadJobs}

\* A lane takes the next window or is done.
Claim(l) ==
    LET j == read.job
        start == read.next * j.spacing
    IN /\ read.lane[l].pc = "claim"
       /\ read' = [read EXCEPT !.next = @ + 1,
                     !.lane[l] = IF start >= j.total THEN [@ EXCEPT !.pc = "done"]
                                 ELSE [@ EXCEPT !.pc = "fetch", !.cursor = start, !.retries = 0,
                                                !.window = Min({start + j.spacing, j.total})]]

\* bulk_page for a reply window of cap items: Busy is -1.
BulkPage(j, start, cap) ==
    IF cap = 0 /\ start < j.device THEN -1
    ELSE Max({0, Min({start + cap, j.device}) - start})

\* The lane goes on until its window is covered.
Advanced(n, len) ==
    [n EXCEPT !.cursor = @ + len, !.pages = Append(@, [start |-> n.cursor, len |-> len]),
              !.pc = IF n.cursor + len < n.window THEN "fetch" ELSE "claim"]

Fetch(l) ==
    LET j == read.job
        n == read.lane[l]
    IN /\ n.pc = "fetch"
       /\ \E cap \in 0..j.cap :
            LET len == BulkPage(j, n.cursor, cap)
            IN read' = CASE len = -1 /\ n.retries < Retries -> [read EXCEPT !.lane[l].retries = @ + 1]
                         [] len = -1 /\ n.retries >= Retries -> [read EXCEPT !.lane[l].pc = "failed"]
                         [] len = 0 -> [read EXCEPT !.lane[l].pc = "claim"]
                         [] OTHER -> [read EXCEPT !.lane[l] = Advanced(n, len)]

\* The stitch takes the pages in order of their start, up to the first gap.
Earliest(pages) == CHOOSE p \in pages : \A q \in pages : p.start <= q.start

Stitch(s) ==
    LET p == Earliest(s.left)
    IN IF s.left = {} \/ p.start > s.len THEN s
       ELSE [left |-> s.left \ {p}, len |-> Max({s.len, p.start + p.len})]

\* The length of the result.
Stitched(lane) ==
    LET pages == UNION {ToSet(lane[l].pages) : l \in DOMAIN lane}
        out[n \in 0..Cardinality(pages)] ==
            IF n = 0 THEN [left |-> pages, len |-> 0] ELSE Stitch(out[n - 1])
    IN out[Cardinality(pages)].len

ReadNext == \E l \in 1..Lanes : Claim(l) \/ Fetch(l)

\* However short the pages were, however often the device was busy and in whatever order the
\* lanes came back, a read that succeeds returns every item the device has, up to the total.
ReadIsWhole ==
    (\A l \in 1..Lanes : read.lane[l].pc = "done")
        => Stitched(read.lane) = Min({read.job.total, read.job.device})

\* No device has more items than its capabilities say.
TotalsAreTrue == \A j \in ReadJobs : j.device <= j.total

-----------------------------------------------------------------------------
(* write_all *)

WriteStarts ==
    {[job |-> j, at |-> 0, page |-> 0, used |-> 0, start |-> 0, pages |-> <<>>,
                 pc |-> "split", lane |-> [l \in 1..Lanes |-> <<>>], stored |-> {},
                 refused |-> FALSE, twice |-> FALSE] : j \in WriteJobs}

CountBytes(n) == IF n <= OneByte THEN 1 ELSE 2

\* The count of the page widens as the page fills.
Overflows(w, size) == w.job.fixed + CountBytes(w.page + 1) + w.used + size > w.job.budget

Closed(w) == [start |-> w.start, len |-> w.page, size |-> w.used]

\* split_pages, one item a step.
SplitItem ==
    /\ write.pc = "split" /\ write.at < Len(write.job.sizes)
    /\ LET size == write.job.sizes[write.at + 1]
           w == [write EXCEPT !.at = @ + 1]
       IN write' = IF write.job.fixed + 1 + size > write.job.budget THEN [w EXCEPT !.pc = "failed"]
                   ELSE IF Overflows(write, size)
                   THEN [w EXCEPT !.pages = Append(@, Closed(write)), !.start = write.at, !.page = 1, !.used = size]
                   ELSE [w EXCEPT !.page = @ + 1, !.used = @ + size]

\* Mutant: pages are shared out rounded down.
Shares_Floor(pages) ==
    LET chunk == Len(pages) \div Lanes
    IN [l \in 1..Lanes |-> SubSeq(pages, (l - 1) * chunk + 1, Min({l * chunk, Len(pages)}))]

\* The lanes get runs of ceil(pages / lanes) pages.
Shares(pages) ==
    LET chunk == (Len(pages) + Lanes - 1) \div Lanes
    IN [l \in 1..Lanes |-> SubSeq(pages, (l - 1) * chunk + 1, Min({l * chunk, Len(pages)}))]

SplitEnds ==
    /\ write.pc = "split" /\ write.at = Len(write.job.sizes)
    /\ LET pages == IF write.page = 0 THEN write.pages ELSE Append(write.pages, Closed(write))
       IN write' = [write EXCEPT !.pages = pages, !.pc = "store", !.lane = Shares(pages)]

\* The firmware decodes the whole page (take_bulk) and stores it; a lane that is refused stops.
\* twice: history, an item of the page had been stored before.
StorePage(l) ==
    /\ write.pc = "store" /\ write.lane[l] # <<>>
    /\ LET p == Head(write.lane[l])
           items == p.start..(p.start + p.len - 1)
       IN write' = [write EXCEPT !.lane[l] = Tail(@), !.stored = @ \union items,
                                 !.twice = @ \/ items \intersect write.stored # {}]

RefusePage(l) ==
    /\ write.pc = "store" /\ write.lane[l] # <<>> /\ write.job.fails /\ ~write.refused
    /\ write' = [write EXCEPT !.lane[l] = <<>>, !.refused = TRUE]

WriteNext == SplitItem \/ SplitEnds \/ \E l \in 1..Lanes : StorePage(l) \/ RefusePage(l)

\* Every page that is sent fits the device's payload with the count it really has.
PagesFit ==
    \A p \in ToSet(write.pages) : write.job.fixed + CountBytes(p.len) + p.size <= write.job.budget

\* No item is stored twice; and when all lanes are through and none was refused, every item was.
WriteIsWhole ==
    LET over == write.pc = "store" /\ \A l \in DOMAIN write.lane : write.lane[l] = <<>>
    IN /\ ~write.twice
       /\ over /\ ~write.refused => write.stored = 0..(Len(write.job.sizes) - 1)

\* Whole resources arrive, page by page, over any number of lanes (read_all, write_all).
PagesAreWhole == ReadIsWhole /\ PagesFit /\ WriteIsWhole

=============================================================================
