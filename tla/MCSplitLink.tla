----------------------------- MODULE MCSplitLink -----------------------------
EXTENDS SplitLink

\* Both peripherals near and known, a wrong address and a wrong central, one
\* peripheral away.
All(x)  == [b \in Boards |-> x]
Own     == [b \in Boards |-> b]
MCScenarios ==
    {[near |-> Boards, known |-> Own, owner |-> All(ThisOne),
      faults |-> 2, ghosts |-> 0, sleeps |-> 1, clears |-> 0],
     [near |-> Boards, known |-> [Own EXCEPT ![0] = Ghost], owner |-> All(OtherOne),
      faults |-> 1, ghosts |-> 1, sleeps |-> 0, clears |-> 0],
     [near |-> {0}, known |-> All(NoOne), owner |-> All(NoOne),
      faults |-> 1, ghosts |-> 1, sleeps |-> 2, clears |-> 0],
     [near |-> {0}, known |-> Own, owner |-> All(ThisOne),
      faults |-> 2, ghosts |-> 0, sleeps |-> 0, clears |-> 1]}
=============================================================================
