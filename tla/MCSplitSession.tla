--------------------------- MODULE MCSplitSession ---------------------------
EXTENDS SplitSession

None == [topics |-> {}, keys |-> {}, changes |-> 0, strokes |-> 0, levels |-> 0,
         faults |-> 0, clears |-> 0]
\* State that changes while the session starts and is lost; keys and the battery with
\* a link loss; the sleep state with keys that wake the central; clearing the peer.
MCScenarios ==
    {[None EXCEPT !.topics = {"led", "status"}, !.changes = 2, !.faults = 1],
     [None EXCEPT !.topics = {"layer", "sleep"}, !.changes = 2, !.faults = 1],
     [None EXCEPT !.keys = {0, 1}, !.strokes = 3, !.faults = 1],
     [None EXCEPT !.keys = {0, Size}, !.strokes = 2, !.topics = {"sleep"}, !.changes = 2],
     [None EXCEPT !.levels = 2, !.topics = {"status"}, !.changes = 1, !.faults = 1],
     [None EXCEPT !.clears = 2, !.keys = {0}, !.strokes = 1, !.faults = 1]}
=============================================================================
