----------------------------- MODULE MCBleHost -----------------------------
(* BleHost on small instances.                                             *)
EXTENDS BleHost, TLC

CONSTANTS p, q

None == [s \in Slots |-> NoPeer]
Both == [s \in Slots |-> IF s = DongleProfile THEN q ELSE p]

\* Faults with profile actions, from an empty and from a full flash; the sleep
\* manager; passkey entry with a profile action, and twice.
MCScenarios ==
    {[sleepManager |-> FALSE, peers |-> {p, q}, stored |-> None,
      actions |-> 1, faults |-> 1, sessions |-> 0],
     [sleepManager |-> FALSE, peers |-> {p, q}, stored |-> Both,
      actions |-> 1, faults |-> 1, sessions |-> 0],
     [sleepManager |-> TRUE, peers |-> {p}, stored |-> None,
      actions |-> 1, faults |-> 0, sessions |-> 0],
     [sleepManager |-> FALSE, peers |-> {p}, stored |-> None,
      actions |-> 1, faults |-> 0, sessions |-> 1],
     [sleepManager |-> FALSE, peers |-> {p}, stored |-> None,
      actions |-> 0, faults |-> 0, sessions |-> 2]}
=============================================================================
