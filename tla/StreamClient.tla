---------------------------- MODULE StreamClient ----------------------------
(***************************************************************************)
(* The stream clients of the SDK (IVIStreamClientT, ivi-client.cpp) and    *)
(* the gRPC server-streaming calls under them.                             *)
(*                                                                         *)
(* A client owns one call.  It hands gRPC four kinds of tag, each a        *)
(* callback, and gRPC gives a tag back through the stream completion queue *)
(* with a flag `ok`:                                                       *)
(*    start         the call went to the wire          (startCallback)     *)
(*    initMetadata  the first answer of the server     (initMetadataCallback) *)
(*    read          one status update, or the end      (m_streamAdapter)   *)
(*    finish        the final status of the call       (finishCallback)    *)
(*                                                                         *)
(* The module has the client's handlers and entry points as actions that   *)
(* an owner of the clients may take in any order; StreamPoll is the owner  *)
(* the SDK ships.                                                          *)
(***************************************************************************)
EXTENDS Naturals, FiniteSets

CONSTANTS
  Clients,      \* the stream clients of a manager (item, item type, order, player)
  Subscribed,   \* those given a callback: the others never open their stream
  Updates,      \* status updates the IVI engine may push on a stream
  Resend,       \* whether the engine pushes an update it has had a confirmation of
  NoUpdate      \* content of an updateResponse nothing was read into

ASSUME ClientAssumption ==
  /\ Subscribed \subseteq Clients
  /\ NoUpdate \notin Updates
  /\ Resend \in BOOLEAN

VARIABLES
  \* StreamState: each bit field is the set of clients that have it set
  startReceived, initMetadataReceived, finishCalled, finishResponded,
  updateResponse,  \* the message buffer of each client
  \* gRPC
  live,            \* clients whose call is neither ended, broken nor cancelled
  tag,             \* tag[c][t]: where tag t of client c is
  queueDown,       \* Shutdown was called on the stream completion queue
  late,            \* kinds of tag submitted to the queue after its Shutdown
  confirmed        \* <<client, update>> pairs given to the callback and confirmed

flagVars   == <<startReceived, initMetadataReceived, finishCalled, finishResponded>>
updateVars == <<updateResponse, confirmed>>
clientVars == <<flagVars, updateVars, live, tag, queueDown, late>>

Tags == {"start", "initMetadata", "read", "finish"}

\* "ok" and "failed" are events waiting in the queue, with the value of ok
TagStatus == {"idle", "submitted", "ok", "failed", "reaped"}

ClientTypeOK ==
  /\ startReceived \subseteq Clients
  /\ initMetadataReceived \subseteq Clients
  /\ finishCalled \subseteq Clients
  /\ finishResponded \subseteq Clients
  /\ updateResponse \in [Clients -> Updates \cup {NoUpdate}]
  /\ live \subseteq Subscribed
  /\ tag \in [Clients -> [Tags -> TagStatus]]
  /\ queueDown \in BOOLEAN
  /\ late \subseteq Tags
  /\ confirmed \subseteq Clients \X (Updates \cup {NoUpdate})

-----------------------------------------------------------------------------
(* The stream completion queue.                                            *)

Ready(c, t)    == tag[c][t] \in {"ok", "failed"}
NothingReady   == \A c \in Clients, t \in Tags : ~Ready(c, t)
Outstanding(c) == {t \in Tags : tag[c][t] \in {"submitted", "ok", "failed"}}
Drained        == \A c \in Clients : Outstanding(c) = {}

\* What AsyncNext returns when it has no event to give
QueueStatus == IF queueDown /\ Drained THEN "SHUTDOWN" ELSE "TIMEOUT"

-----------------------------------------------------------------------------
(* Construction: a client with a callback subscribes at once, which submits *)
(* three tags; one without a callback counts as finished.                  *)

FreshTag(c, t) ==
  IF c \in Subscribed /\ t # "finish" THEN "submitted" ELSE "idle"

ClientInit ==
  /\ startReceived = {}
  /\ initMetadataReceived = {}
  /\ finishCalled = {}
  /\ finishResponded = Clients \ Subscribed
  /\ updateResponse = [c \in Clients |-> NoUpdate]
  /\ live = Subscribed
  /\ tag = [c \in Clients |-> [t \in Tags |-> FreshTag(c, t)]]
  /\ queueDown = FALSE
  /\ late = {}
  /\ confirmed = {}

\* Mutant: GetCallback moves the callback out, the new clients have none
ReinitializeBare ==
  /\ startReceived' = {}
  /\ initMetadataReceived' = {}
  /\ finishCalled' = {}
  /\ finishResponded' = Clients
  /\ updateResponse' = [c \in Clients |-> NoUpdate]
  /\ live' = {}
  /\ tag' = [c \in Clients |-> [t \in Tags |-> "idle"]]
  /\ queueDown' = FALSE
  /\ UNCHANGED <<late, confirmed>>

\* ReinitializeStream: a new queue, and every client destroyed and built anew
Reinitialize ==
  /\ startReceived' = {}
  /\ initMetadataReceived' = {}
  /\ finishCalled' = {}
  /\ finishResponded' = Clients \ Subscribed
  /\ updateResponse' = [c \in Clients |-> NoUpdate]
  /\ live' = Subscribed
  /\ tag' = [c \in Clients |-> [t \in Tags |-> FreshTag(c, t)]]
  /\ queueDown' = FALSE
  /\ UNCHANGED <<late, confirmed>>

-----------------------------------------------------------------------------
(* The callbacks, run by whoever takes the tag from the queue.             *)

StartCallback(c) ==
  /\ Ready(c, "start")
  /\ startReceived' = startReceived \cup {c}
  /\ tag' = [tag EXCEPT ![c]["start"] = "reaped"]
  /\ UNCHANGED <<initMetadataReceived, finishCalled, finishResponded, updateVars,
                 live, queueDown, late>>

InitMetadataCallback(c) ==
  /\ Ready(c, "initMetadata")
  /\ initMetadataReceived' = initMetadataReceived \cup {c}
  /\ tag' = [tag EXCEPT ![c]["initMetadata"] = "reaped"]
  /\ UNCHANGED <<startReceived, finishCalled, finishResponded, updateVars,
                 live, queueDown, late>>

\* Mutant: the flag that says the answer to Finish has come is not set
FinishCallbackForgets(c) ==
  /\ Ready(c, "finish")
  /\ tag' = [tag EXCEPT ![c]["finish"] = "reaped"]
  /\ UNCHANGED <<flagVars, updateVars, live, queueDown, late>>

FinishCallback(c) ==
  /\ Ready(c, "finish")
  /\ finishResponded' = finishResponded \cup {c}
  /\ tag' = [tag EXCEPT ![c]["finish"] = "reaped"]
  /\ UNCHANGED <<startReceived, initMetadataReceived, finishCalled, updateVars,
                 live, queueDown, late>>

\* Mutant: no early return when ok is false
ProcessEndAnyway(c) ==
  /\ tag[c]["read"] = "failed"
  /\ confirmed' = confirmed \cup {<<c, updateResponse[c]>>}
  /\ tag' = [tag EXCEPT ![c]["read"] = "reaped"]
  /\ UNCHANGED <<flagVars, updateResponse, live, queueDown, late>>

\* ProcessNext(ok = false): the stream has ended and nothing more is read
ProcessEnd(c) ==
  /\ tag[c]["read"] = "failed"
  /\ tag' = [tag EXCEPT ![c]["read"] = "reaped"]
  /\ UNCHANGED <<flagVars, updateVars, live, queueDown, late>>

\* ProcessNext(ok = true): callback, confirmation, and the next read.  (Poll
\* requires autoconfirmStreamUpdates, so the confirmation is not optional.)
ProcessNext(c) ==
  /\ tag[c]["read"] = "ok"
  /\ confirmed' = confirmed \cup {<<c, updateResponse[c]>>}
  /\ tag' = [tag EXCEPT ![c]["read"] = "submitted"]
  /\ late' = IF queueDown THEN late \cup {"read"} ELSE late
  /\ UNCHANGED <<flagVars, updateResponse, live, queueDown>>

\* The callback of tag t of client c
Callback(c, t) ==
  \/ t = "start"        /\ StartCallback(c)
  \/ t = "initMetadata" /\ InitMetadataCallback(c)
  \/ t = "read"         /\ (ProcessEnd(c) \/ ProcessNext(c))
  \/ t = "finish"       /\ FinishCallback(c)

-----------------------------------------------------------------------------
(* Finish.  A client that has heard from the server and was not asked to   *)
(* finish asks gRPC for the final status; otherwise it cancels its call and *)
(* counts as finished at once.                                             *)

Unfinished == Clients \ finishResponded

\* Mutant: Finish does not look at finishCalled, and asks for the status again
CancellingUnanswered == {c \in Unfinished : c \notin initMetadataReceived}

Cancelling == {c \in Unfinished : c \notin initMetadataReceived \/ c \in finishCalled}

\* Finish, called on each of the clients cs
Finish(cs) ==
  LET cancelling == cs \cap Cancelling
      finishing  == cs \cap (Unfinished \ Cancelling)
  IN
  /\ live' = live \ cancelling
  /\ finishResponded' = finishResponded \cup cancelling
  /\ finishCalled' = finishCalled \cup finishing
  /\ tag' = [c \in Clients |->
               IF c \in finishing THEN [tag[c] EXCEPT !["finish"] = "submitted"]
                                  ELSE tag[c]]
  /\ late' = IF queueDown /\ finishing # {} THEN late \cup {"finish"} ELSE late
  /\ UNCHANGED <<startReceived, initMetadataReceived, updateVars, queueDown>>

\* Finish on every client of the manager
FinishStream == Finish(Clients)

IsStreamFinished == Unfinished = {}

ShutdownQueue ==
  /\ queueDown' = TRUE
  /\ UNCHANGED <<flagVars, updateVars, live, tag, late>>

\* The destructor takes a tag from the queue without running it
DropEvent(c, t) ==
  /\ Ready(c, t)
  /\ tag' = [tag EXCEPT ![c][t] = "reaped"]
  /\ UNCHANGED <<flagVars, updateVars, live, queueDown, late>>

-----------------------------------------------------------------------------
(* gRPC and the engine.                                                    *)

Pushable(c) == {u \in Updates : Resend \/ <<c, u>> \notin confirmed}

\* The server ends the stream, or the connection breaks
Break(c) ==
  /\ c \in live
  /\ live' = live \ {c}
  /\ UNCHANGED <<flagVars, updateVars, tag, queueDown, late>>

\* A tag other than a successful read moves to the queue.  A live call
\* succeeds in order; a dead one gives every tag back, reads failed and the
\* final status delivered.
Completes(c, t, status) ==
  /\ t = "start"        => status = "ok" \/ c \notin live
  /\ t = "initMetadata" => /\ tag[c]["start"] # "submitted"
                           /\ status = "ok" \/ c \notin live
  /\ t = "read"         => status = "failed" /\ c \notin live
  /\ t = "finish"       => status = "ok" /\ c \notin live

Complete(c, t, status) ==
  /\ tag[c][t] = "submitted"
  /\ Completes(c, t, status)
  /\ tag' = [tag EXCEPT ![c][t] = status]
  /\ UNCHANGED <<flagVars, updateVars, live, queueDown, late>>

\* The engine pushes an update and it reaches the client's buffer
Push(c, u) ==
  /\ c \in live
  /\ tag[c]["read"] = "submitted"
  /\ tag[c]["initMetadata"] # "submitted"
  /\ u \in Pushable(c)
  /\ updateResponse' = [updateResponse EXCEPT ![c] = u]
  /\ tag' = [tag EXCEPT ![c]["read"] = "ok"]
  /\ UNCHANGED <<flagVars, confirmed, live, queueDown, late>>

Grpc ==
  \E c \in Clients :
    \/ Break(c)
    \/ \E t \in Tags, status \in {"ok", "failed"} : Complete(c, t, status)
    \/ \E u \in Updates : Push(c, u)

=============================================================================
