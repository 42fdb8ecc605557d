------------------------------ MODULE DfuFlash ------------------------------
(* The download partition that a FlashDfuHandler (dfu/mod.rs) writes: flash
   that has to be erased page by page before it is programmed, and the two
   things the handler remembers about it.  A firmware image is the chunks
   1..Chunks; a cell of the partition holds the image's chunk ("new"), nothing
   ("blank"), what an earlier download left ("old") or anything else ("bad").

   A handler is a record:
     cells     the partition, by chunk
     erased    last_erased_page, 0 for None
     len       written_len, in chunks
     failed    DFU_WRITE_FAILED, the flag shared with the transport          *)
EXTENDS Naturals, FiniteSets

CONSTANTS Chunks,     \* chunks of a firmware image, and of the partition
          PerPage     \* chunks of a flash page

ASSUME DfuFlashAssumption == Chunks \in Nat \ {0} /\ PerPage \in Nat \ {0}

Cell  == {"new", "blank", "old", "bad"}
Pages == 1..((Chunks - 1) \div PerPage + 1)
Page(c) == (c - 1) \div PerPage + 1

Handler == [cells: [1..Chunks -> Cell], erased: Pages \cup {0},
            len: 0..Chunks, failed: BOOLEAN]

Stale == [c \in 1..Chunks |-> "old"]

\* A handler after a boot, over a partition with these cells.
Booted(cells) == [cells |-> cells, erased |-> 0, len |-> 0, failed |-> FALSE]

\* DfuCmd::Start: a new download begins; the partition keeps its cells.
Started(h) == [h EXCEPT !.erased = 0, !.len = 0, !.failed = FALSE]

\* A page is erased the first time a chunk reaches it.
PageReady(h, c) ==
    IF h.erased = Page(c) THEN h
    ELSE [h EXCEPT !.erased = Page(c),
                   !.cells = [b \in 1..Chunks |-> IF Page(b) = Page(c) THEN "blank" ELSE @[b]]]

\* NOR flash: only blank cells can be programmed, and programming the same
\* bytes again changes nothing.
Programmed(old, new) == IF old \in {"blank", new} THEN new ELSE "bad"

\* write_chunk that succeeds.
Written(h, c, d) ==
    LET r == PageReady(h, c)
    IN  [r EXCEPT !.cells[c] = Programmed(@, d), !.len = IF c > @ THEN c ELSE @]

\* write_chunk that fails: the erase failed, or the programming did, with or
\* without an effect on the cell.
FailedWrites(h, c) ==
    { [g EXCEPT !.failed = TRUE] :
        g \in {h, PageReady(h, c), [PageReady(h, c) EXCEPT !.cells[c] = "bad"]} }

\* compute_dfu_crc over the first written_len bytes: two CRCs agree when the
\* lengths do and every chunk is the image's.
Crc(h) == [n |-> h.len, d |-> IF \A c \in 1..h.len : h.cells[c] = "new" THEN "new" ELSE "bad"]
ImageCrc == [n |-> Chunks, d |-> "new"]

\* check_sanity_from_flash looks at the first eight bytes only: a blank header
\* is refused, a wrong one may pass.
MayBeSane(h) == h.cells[1] # "blank"
MayBeInsane(h) == h.cells[1] \in {"blank", "bad"}

\* What the bootloader boots after mark_updated: the partition, as it is.
Swapped(h) == IF \A c \in 1..Chunks : h.cells[c] = "new" THEN "new" ELSE "bad"
=============================================================================
