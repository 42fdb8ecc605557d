------------------------------- MODULE MCRynk -------------------------------
EXTENDS Rynk

None == [calls |-> <<>>, resident |-> FALSE, topic |-> FALSE, cancel |-> 0, changes |-> 0,
         press |-> 0, restart |-> 0, junk |-> 0, txerr |-> 0]
\* Calls that elect the pump and outlive the request numbers; requests queued behind a page
\* in the keyboard's buffer; a cancelled request; topics; the lock over two sessions; a
\* program that ends and is started again, and a probe.
MCScenarios ==
    {[None EXCEPT !.calls = <<"page", "lock", "gated">>],
     [None EXCEPT !.calls = <<"page", "page">>, !.topic = TRUE, !.changes = 1],
     [None EXCEPT !.calls = <<"lock", "gated", "lock">>, !.resident = TRUE, !.cancel = 1],
     [None EXCEPT !.calls = <<"layer">>, !.changes = 3, !.topic = TRUE],
     [None EXCEPT !.calls = <<"poll", "gated", "gated">>, !.press = 2, !.txerr = 1,
                  !.resident = TRUE],
     [None EXCEPT !.calls = <<"poll", "lock", "gated">>, !.press = 2, !.resident = TRUE],
     [None EXCEPT !.calls = <<"page">>, !.restart = 1],
     [None EXCEPT !.junk = 3]}
=============================================================================
