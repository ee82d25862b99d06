----------------------------- MODULE StreamFeed -----------------------------
(***************************************************************************)
(* What the streams of a manager promise an application and the engine: an *)
(* update that was received is given to the application, and is only       *)
(* acknowledged after that; until then the engine may send it again.  No   *)
(* failure loses it, short of the end of the manager.                      *)
(***************************************************************************)
CONSTANT Notices    \* what may be received: an update for a client

VARIABLES
  buffered,         \* received and not yet given to the application
  given,            \* given to the application at least once
  acked,            \* acknowledged to the engine, which will not send it again
  open              \* the manager has been neither discarded nor destroyed

vars == <<buffered, given, acked, open>>

Init ==
  /\ buffered = {}
  /\ given = {}
  /\ acked = {}
  /\ open = TRUE

Receive(n) ==
  /\ n \notin acked
  /\ buffered' = buffered \cup {n}
  /\ UNCHANGED <<given, acked, open>>

Give(n) ==
  /\ open
  /\ n \in buffered
  /\ buffered' = buffered \ {n}
  /\ given' = given \cup {n}
  /\ UNCHANGED <<acked, open>>

Acknowledge(n) ==
  /\ n \in given
  /\ acked' = acked \cup {n}
  /\ UNCHANGED <<buffered, given, open>>

Discard ==
  /\ open' = FALSE
  /\ UNCHANGED <<buffered, given, acked>>

Lose(n) ==
  /\ ~open
  /\ buffered' = buffered \ {n}
  /\ UNCHANGED <<given, acked, open>>

Next ==
  \/ \E n \in Notices : Receive(n) \/ Give(n) \/ Acknowledge(n) \/ Lose(n)
  \/ Discard

Spec == Init /\ [][Next]_vars
=============================================================================
