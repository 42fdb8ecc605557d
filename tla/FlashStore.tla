----------------------------- MODULE FlashStore -----------------------------
(***************************************************************************)
(* What store() and read() of rmk/src/storage/mod.rs promise a task: each  *)
(* request takes effect at one moment between its call and its return, and *)
(* returns the answer of that moment, whatever other tasks do or abandon.  *)
(*                                                                         *)
(* A key holds the number of the store that wrote it, 0 when it is absent; *)
(* a later store has a larger number.                                      *)
(***************************************************************************)
EXTENDS Integers

CONSTANTS Clients, Keys

VARIABLES
    store,   \* what each key holds
    phase,   \* per client: "idle", "pending" or "done", when its answer waits for it
    asked,   \* per client: the operation and the key
    answer,  \* per client: what its request came to
    result   \* per client: what its last request returned

vars == <<store, phase, asked, answer, result>>

Nothing  == [ok |-> FALSE, val |-> 0]
NoResult == [op |-> "none", ok |-> FALSE, val |-> 0]

AllIdle ==
    /\ phase = [c \in Clients |-> "idle"]
    /\ answer = [c \in Clients |-> Nothing]
    /\ result = [c \in Clients |-> NoResult]
    /\ \A c \in Clients : asked[c].op = "none"

Init == store = [k \in Keys |-> 0] /\ AllIdle

\* A later store of this key lands.
Lands(k) ==
    /\ store'[k] > store[k]
    /\ store' = [store EXCEPT ![k] = store'[k]]

Invoke(c) ==
    /\ phase[c] = "idle"
    /\ phase' = [phase EXCEPT ![c] = "pending"]
    /\ asked'[c].op \in {"store", "read"} /\ asked'[c].key \in Keys
    /\ asked' = [asked EXCEPT ![c] = asked'[c]]
    /\ result' = [result EXCEPT ![c] = NoResult]
    /\ UNCHANGED <<store, answer>>

Succeeds(c) ==
    \/ /\ asked[c].op = "store" /\ Lands(asked[c].key)
       /\ answer' = [answer EXCEPT ![c] = [ok |-> TRUE, val |-> 0]]
    \/ /\ asked[c].op = "read"
       /\ answer' = [answer EXCEPT ![c] = [ok |-> TRUE, val |-> store[asked[c].key]]]
       /\ UNCHANGED store

Fails(c) == answer' = [answer EXCEPT ![c] = Nothing] /\ UNCHANGED store

\* The request takes effect.
Serve(c) ==
    /\ phase[c] = "pending"
    /\ phase' = [phase EXCEPT ![c] = "done"]
    /\ Succeeds(c) \/ Fails(c)
    /\ UNCHANGED <<asked, result>>

Idle(c) ==
    /\ phase' = [phase EXCEPT ![c] = "idle"]
    /\ asked' = [asked EXCEPT ![c] = asked'[c]] /\ asked'[c].op = "none"
    /\ answer' = [answer EXCEPT ![c] = Nothing]
    /\ UNCHANGED store

Respond(c) ==
    /\ phase[c] = "done"
    /\ Idle(c)
    /\ result' = [result EXCEPT ![c] =
                    [op |-> asked[c].op, ok |-> answer[c].ok, val |-> answer[c].val]]

\* The caller gave up; a store it asked for may land later.
Abandon(c) == phase[c] # "idle" /\ Idle(c) /\ UNCHANGED result

\* A store nobody waits for.
Background(k) == Lands(k) /\ UNCHANGED <<phase, asked, answer, result>>

\* A reset of the storage, or new firmware, erases keys.
Erase ==
    /\ store' = [k \in Keys |-> store'[k]]
    /\ \A k \in Keys : store'[k] \in {store[k], 0}
    /\ UNCHANGED <<phase, asked, answer, result>>

\* The keyboard restarts; a store under way has landed or not.
Restart == AllIdle' /\ (UNCHANGED store \/ \E k \in Keys : Lands(k))

Next ==
    \/ \E c \in Clients : Invoke(c) \/ Serve(c) \/ Respond(c) \/ Abandon(c)
    \/ \E k \in Keys : Background(k)
    \/ Erase
    \/ Restart

Spec == Init /\ [][Next]_vars
=============================================================================
