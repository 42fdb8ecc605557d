------------------------------- MODULE MCDfu --------------------------------
(* Three chunks on two pages, two tries, two attempts.                       *)
EXTENDS Dfu

Calm == [auto |-> "none", target |-> "forward", downloads |-> 0, lose |-> 0, junk |-> 0,
         late |-> 0, flash |-> 0, power |-> 0, reset |-> 0, lock |-> FALSE, keys |-> 0]

MCScenarios ==
    { [Calm EXCEPT !.auto = a, !.lose = 1, !.flash = 1] : a \in {"match", "force"} }
    \cup { [Calm EXCEPT !.auto = "match", ![f] = 1] : f \in {"lose", "junk", "late", "flash", "power"} }
    \cup { [Calm EXCEPT !.auto = "force", ![f] = 2] : f \in {"lose", "junk", "late", "flash", "power"} }
    \cup { [Calm EXCEPT !.auto = "match", !.downloads = 1, ![f] = 1] : f \in {"lose", "junk", "power", "flash"} }
    \cup { [Calm EXCEPT !.auto = "match", !.junk = 1, !.lose = 1, !.power = 1] }
    \cup { [Calm EXCEPT !.downloads = 2, ![f] = 1] : f \in {"power", "lose", "junk", "late", "flash", "reset"} }
    \cup { [Calm EXCEPT !.target = "central", !.downloads = 2, !.flash = 1, !.power = p, !.reset = 1 - p] : p \in 0..1 }
    \cup { [Calm EXCEPT !.target = "central", !.downloads = 3, !.lock = TRUE, !.keys = 1] }

UnlockScenarios == { [Calm EXCEPT !.target = "central", !.downloads = 3, !.lock = TRUE, !.keys = 1] }
=============================================================================
