------------------------------ MODULE StateEcho ------------------------------
(***************************************************************************)
(* The state of a status update on its way through a stream client: an int *)
(* on the wire, an enumeration based on char in the SDK (ECast, Enums),    *)
(* an int again in the confirmation (sendConfirm of the stream clients,    *)
(* ivi-client.cpp).  "It is possible for the server to send a newly-defined *)
(* value to an old client; the SDK does not check for this."               *)
(***************************************************************************)
EXTENDS Integers, Enums

CONSTANTS
  Sent,         \* ints the engine may send, newly defined states included
  LastKnown     \* last enumerator an old client knows: they are 0..LastKnown

VARIABLES
  item_state,   \* of the update in the client's buffer
  shown,        \* what the application's callback was given, as a set
  confirmed     \* what the confirm request says, as a set

vars == <<item_state, shown, confirmed>>

TypeOK ==
  /\ item_state \in Sent
  /\ shown \subseteq Char
  /\ confirmed \subseteq Char

-----------------------------------------------------------------------------

Init ==
  /\ item_state \in Sent
  /\ shown = {}
  /\ confirmed = {}

\* ProcessNext: the callback, then sendConfirm from the same buffer
OnCallback ==
  /\ shown = {}
  /\ shown' = {ECast(item_state)}
  /\ UNCHANGED <<item_state, confirmed>>

\* The cast back to int keeps the value
SendConfirm ==
  /\ shown # {} /\ confirmed = {}
  /\ confirmed' = {ECast(item_state)}
  /\ UNCHANGED <<item_state, shown>>

\* The buffer is read into again once the update is confirmed
ReadNext ==
  /\ confirmed # {}
  /\ item_state' \in Sent
  /\ shown' = {}
  /\ confirmed' = {}

Next == OnCallback \/ SendConfirm \/ ReadNext

Spec == Init /\ [][Next]_vars

-----------------------------------------------------------------------------
(* Properties.                                                             *)

\* The confirmation echoes the state of the update it confirms (which the
\* stream tests check of every confirmation), for enumerators an old client
\* does not know too.
ConfirmEchoes == \A state \in confirmed : state = item_state

\* A state the application finds among those it knows is the state that was
\* sent: a new one is never taken for a known one, so that a switch's default
\* case sees it.  256 is taken for 0 (KnownIsFaithful says how far it holds).
KnownMeansSent == \A state \in shown : state \in 0..LastKnown => state = item_state
=============================================================================
