------------------------------ MODULE Passkey ------------------------------
(***************************************************************************)
(* Passkey entry (rmk/src/ble/passkey.rs), as operators on one record.     *)
(*                                                                         *)
(* Two tasks share PASSKEY_ENTRY_MODE and PASSKEY_RESPONSE.  The GATT task *)
(* opens a session when the host asks for a passkey and closes it on an    *)
(* answer, on a timeout or when its connection ends.  The keyboard task    *)
(* notices the mode at its next key event and then collects digits.        *)
(*                                                                         *)
(* A digit is represented by the number of the session it was typed in:    *)
(* its value does not matter, where it comes from does.                    *)
(***************************************************************************)
EXTENDS Naturals, Sequences

CONSTANTS
    PasskeyLength,  \* PASSKEY_LENGTH
    MaxSessions     \* bound: passkey requests of the host

ASSUME PasskeyBounds == PasskeyLength \in Nat \ {0} /\ MaxSessions \in Nat

\* The keys passkey entry tells apart.
PasskeyKeys == {"digit", "enter", "escape", "backspace", "other"}

Sessions == 1 .. MaxSessions
Digits   == UNION {[1 .. n -> Sessions] : n \in 0 .. PasskeyLength}

\* What PASSKEY_RESPONSE can hold: nothing, a cancellation or a passkey,
\* and the session it was given in.
Response == [kind : {"none", "cancel", "submit"}, digits : Digits, session : 0 .. MaxSessions]
NoResponse == [kind |-> "none", digits |-> <<>>, session |-> 0]

PasskeyType ==
    [mode     : BOOLEAN,            \* PASSKEY_ENTRY_MODE
     response : Response,
     open     : BOOLEAN,            \* PasskeyInputState: deadline and guard
     active   : BOOLEAN,            \* PasskeyEntryState.active
     digits   : Digits,             \* PasskeyEntryState.digits
     session  : 0 .. MaxSessions]   \* sessions begun so far

PasskeyIdle ==
    [mode |-> FALSE, response |-> NoResponse, open |-> FALSE,
     active |-> FALSE, digits |-> <<>>, session |-> 0]

\* PasskeyInputState::clear: the guard goes, and with it the mode.
Clear(pk) ==
    IF pk.open THEN [pk EXCEPT !.open = FALSE, !.mode = FALSE] ELSE pk

\* PasskeyInputState::begin: the old response is discarded before the mode is on.
Begin(pk) ==
    [pk EXCEPT !.open = TRUE, !.mode = TRUE, !.response = NoResponse,
               !.session = @ + 1]

\* check_mode_transition, at the start of every key event.
CheckModeTransition(pk) ==
    IF pk.mode /\ ~pk.active THEN [pk EXCEPT !.active = TRUE, !.digits = <<>>]
    ELSE [pk EXCEPT !.active = @ /\ pk.mode]

Answer(kind, ds, pk) == [kind |-> kind, digits |-> ds, session |-> pk.session]

\* handle_key, on the release of a key while the keyboard task is active, and
\* the response it signals.
HandleKey(pk, key) ==
    CASE key = "digit" /\ Len(pk.digits) < PasskeyLength ->
             [pk EXCEPT !.digits = Append(@, pk.session)]
      [] key = "enter" /\ Len(pk.digits) = PasskeyLength ->
             [pk EXCEPT !.digits = <<>>, !.response = Answer("submit", pk.digits, pk)]
      [] key = "escape" ->
             [pk EXCEPT !.digits = <<>>, !.response = Answer("cancel", <<>>, pk)]
      [] key = "backspace" /\ pk.digits # <<>> ->
             [pk EXCEPT !.digits = SubSeq(@, 1, Len(@) - 1)]
      [] OTHER -> pk

\* A key event of the keyboard task, as far as passkey entry sees it.
PasskeyKey(pk, key) ==
    LET seen == CheckModeTransition(pk)
    IN  IF seen.active THEN HandleKey(seen, key) ELSE seen
=============================================================================
