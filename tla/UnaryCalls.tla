----------------------------- MODULE UnaryCalls -----------------------------
(***************************************************************************)
(* What the asynchronous unary clients promise an application: the         *)
(* callback given with a request is called once, after the request and not *)
(* after the manager was discarded, and may itself make requests.          *)
(***************************************************************************)
CONSTANT Calls     \* the requests an application may make

VARIABLES
  state,           \* state[k]: where request k is
  open             \* the manager has not been discarded or destroyed

vars == <<state, open>>

States == {"unmade", "pending", "called", "abandoned"}

Init ==
  /\ state = [k \in Calls |-> "unmade"]
  /\ open = TRUE

With(s, ks, value) == [k \in Calls |-> IF k \in ks THEN value ELSE s[k]]

Unmade == {k \in Calls : state[k] = "unmade"}

Request(ks) ==
  /\ open
  /\ ks \subseteq Unmade
  /\ state' = With(state, ks, "pending")
  /\ UNCHANGED open

\* The callback of k runs; it makes the requests ks
CallBack(k, ks) ==
  /\ open
  /\ state[k] = "pending"
  /\ ks \subseteq Unmade
  /\ state' = With(With(state, {k}, "called"), ks, "pending")
  /\ UNCHANGED open

Discard ==
  /\ open' = FALSE
  /\ UNCHANGED state

Abandon(k) ==
  /\ ~open
  /\ state[k] = "pending"
  /\ state' = With(state, {k}, "abandoned")
  /\ UNCHANGED open

Next ==
  \/ \E ks \in SUBSET Unmade : Request(ks)
  \/ \E k \in Calls, ks \in SUBSET Unmade : CallBack(k, ks)
  \/ Discard
  \/ \E k \in Calls : Abandon(k)

Spec == Init /\ [][Next]_vars
=============================================================================
