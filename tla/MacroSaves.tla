------------------------------ MODULE MacroSaves ------------------------------
(***************************************************************************)
(* The macro buffer a host edits and its chunks on flash.  The first save     *)
(* writes the whole buffer, as a boot that finds one chunk takes all others   *)
(* for empty; later ones write what changed.  A save may fail at any chunk,   *)
(* its session may end, and the power may go, between any two chunks.         *)
(* (rmk/src/keyboard/macros.rs: persist, write, clear, new; the loader of     *)
(* rmk/src/host/storage.rs)                                                   *)
(***************************************************************************)
EXTENDS Integers, FiniteSetsExt

CONSTANTS
    Editors,        \* host sessions: one each over USB and BLE
    ChunkDefaults,  \* the default macros, chunk by chunk; 0 is an empty chunk
    ChunkEdits,     \* what a host writes: partial functions from chunks
    MaxEdits        \* bound: edits

VARIABLE bank

Chunks == DOMAIN ChunkDefaults
NotStored == -1

ASSUME MacroChunks ==
    /\ ChunkDefaults \in [Chunks -> Nat] /\ 0 \in Chunks /\ Chunks \subseteq Nat
    /\ \A edit \in ChunkEdits : edit \in [DOMAIN edit -> Nat] /\ DOMAIN edit \subseteq Chunks

\* The boot of a keyboard with these chunks on flash.
BootedMacros(flash) ==
    IF \A c \in Chunks : flash[c] = NotStored THEN ChunkDefaults
    ELSE [c \in Chunks |-> IF flash[c] = NotStored THEN 0 ELSE flash[c]]

\* job: the chunks each editor has left to save, and whether it found flash without macros.
\* stale: history, see SavedMacrosBoot.
NoJob == [on |-> FALSE, left |-> {}, first |-> FALSE]
Booted(flash, n) ==
    [ram |-> BootedMacros(flash), flash |-> flash, stored |-> \E c \in Chunks : flash[c] # NotStored,
     job |-> [e \in Editors |-> NoJob], stale |-> {}, edits |-> n]

\* A keyboard that never saved a macro, and one whose defaults a layout reset wrote.
BankStarts == {Booted([c \in Chunks |-> NotStored], 0), Booted(ChunkDefaults, 0)}

\* write, clear or set_slot, and persist up to its first chunk.  Nothing changed: nothing to save,
\* unless flash has no macros yet.
Edit(e, edit) ==
    LET changed == {c \in DOMAIN edit : bank.ram[c] # edit[c]}
        left == IF ~bank.stored THEN Chunks ELSE IF changed = {} THEN {} ELSE DOMAIN edit
    IN /\ ~bank.job[e].on
       /\ bank.edits < MaxEdits
       /\ bank' = [bank EXCEPT !.ram = [c \in Chunks |-> IF c \in DOMAIN edit THEN edit[c] ELSE @[c]],
                               !.job[e] = [on |-> TRUE, left |-> left, first |-> ~bank.stored],
                               !.stale = @ \union {c \in left : ~bank.stored /\ bank.flash[c] # NotStored},
                               !.edits = @ + 1]

\* Mutant: the first save skips every empty chunk.
Skips_First(first, c) == first /\ bank.ram[c] = 0

\* A chunk that is missing from flash boots as zeros, but chunk 0 keeps the defaults away.
Skips(first, c) == first /\ c # 0 /\ bank.ram[c] = 0

\* One turn of persist's loop; the flash task answers.
SaveChunk(e) ==
    LET j == bank.job[e]
        c == Min(j.left)
    IN /\ j.left # {}
       /\ bank' = IF Skips(j.first, c)
                  THEN [bank EXCEPT !.job[e].left = @ \ {c},
                                    !.stale = IF bank.flash[c] = NotStored THEN @ \ {c} ELSE @]
                  ELSE [bank EXCEPT !.job[e].left = @ \ {c}, !.flash[c] = bank.ram[c], !.stale = @ \ {c}]

SaveEnds(e) == /\ bank.job[e].on /\ bank.job[e].left = {}
               /\ bank' = [bank EXCEPT !.job[e] = NoJob, !.stored = TRUE]

\* The flash task reports an error, or the session ends and its future is dropped, perhaps
\* when the chunk is already in the queue of the flash task.
SaveStops(e) ==
    \E w \in SUBSET {Min(bank.job[e].left)} :
        /\ w = {} \/ ~Skips(bank.job[e].first, Min(bank.job[e].left))
        /\ bank' = [bank EXCEPT !.job[e] = NoJob,
                                !.flash = [c \in Chunks |-> IF c \in w THEN bank.ram[c] ELSE @[c]],
                                !.stale = (@ \union bank.job[e].left) \ w]

PowerCycle == bank' = Booted(bank.flash, bank.edits)

BankNext == \/ \E e \in Editors :
                 \/ \E edit \in ChunkEdits : Edit(e, edit)
                 \/ SaveChunk(e) \/ SaveEnds(e)
                 \/ bank.job[e].left # {} /\ SaveStops(e)
            \/ PowerCycle

-----------------------------------------------------------------------------

\* When no save is under way the next boot loads the macros that play now, whichever the
\* order of edits, saves of two sessions and power cycles (persist).  Left out are the chunks
\* that the code does lose: those a save that stopped had still to write; and those that are
\* on flash already when a save takes flash for empty, because an earlier first save stopped
\* or is not done yet: if they became empty since, that save skips them.
SavedMacrosBoot ==
    (\A e \in Editors : ~bank.job[e].on) =>
        \A c \in Chunks \ bank.stale : BootedMacros(bank.flash)[c] = bank.ram[c]

=============================================================================
