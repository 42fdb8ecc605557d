------------------------------ MODULE MCDongle ------------------------------
EXTENDS Dongle

CONSTANTS k1, k2

Quiet == [bonded |-> {}, modes |-> [k \in Keyboards |-> "off"], vial |-> FALSE, moves |-> 0,
          clears |-> 0, fails |-> 0, drops |-> 0, boots |-> 0, keys |-> 0, requests |-> 0,
          sessions |-> 0, slow |-> 0]
Here(k) == [Quiet EXCEPT !.bonded = {k}, !.modes[k] = "dongle"]

\* Two keyboards around an unbonded dongle; a bonded dongle, another keyboard that seeks
\* and a power cycle; a keyboard that clears its bond; requests over links that come and
\* go; requests and sessions; a host that reads slowly, with Rynk and with Vial.
MCScenarios ==
    {[Quiet EXCEPT !.modes = [k \in Keyboards |-> "dongle"], !.moves = 1, !.fails = 1, !.boots = 1],
     [Here(k1) EXCEPT !.modes[k2] = "dongle", !.boots = 1, !.fails = 1, !.moves = 1],
     [Here(k1) EXCEPT !.clears = 2, !.fails = 1, !.boots = 1, !.keys = 1],
     [Here(k1) EXCEPT !.requests = 2, !.drops = 1, !.fails = 1],
     [Here(k1) EXCEPT !.requests = 2, !.sessions = 1],
     [Here(k1) EXCEPT !.requests = 3, !.slow = 1],
     [Here(k1) EXCEPT !.requests = 3, !.slow = 1, !.drops = 1, !.vial = TRUE]}
=============================================================================
