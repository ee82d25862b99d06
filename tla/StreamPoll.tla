----------------------------- MODULE StreamPoll -----------------------------
(***************************************************************************)
(* IVIClientManagerAsync as the owner of its stream clients: Poll<false>,  *)
(* the stream half of Poll's automatic recovery, and the destructor        *)
(* (ivi-client-mgr.cpp).                                                   *)
(*                                                                         *)
(* One thread runs all of it; gRPC and the engine (Grpc of StreamClient)   *)
(* run beside it and may act between any two of its steps.  A phase is a   *)
(* stretch of Poll between two calls whose order matters:                  *)
(*                                                                         *)
(*   idle    outside Poll                                                  *)
(*   poll    the first processQueue                                        *)
(*   finish  an event said ok = false: about to call FinishStream          *)
(*   settle  the processQueue before Shutdown                              *)
(*   drain   a processQueue of the loop after Shutdown                     *)
(*   cancel  about to call FinishStream again, half-way through that loop  *)
(*   done    recovery over, Poll about to look at the channel              *)
(*   dead    Poll has returned false                                       *)
(*   closing1-3, closing, closed    the destructor                 *)
(***************************************************************************)
EXTENDS StreamClient

CONSTANTS
  ErrorLoopMax,    \* IVIConfiguration::errorLoopMax
  UserFinishes     \* the clients that the application may finish by itself

ASSUME LoopAssumption ==
  /\ ErrorLoopMax \in Nat
  /\ UserFinishes \subseteq Clients

VARIABLES
  phase,
  callShutdown,   \* an event of the first processQueue said ok = false
  nextStatus,     \* last answer of AsyncNext that was not an event
  pollCount       \* rounds of the loop after Shutdown

pollVars == <<phase, callShutdown, nextStatus, pollCount>>
vars == <<clientVars, pollVars>>

Phases == {"idle", "poll", "finish", "settle", "drain", "cancel", "done", "dead",
           "closing1", "closing2", "closing3", "closing", "closed"}

TypeOK ==
  /\ ClientTypeOK
  /\ phase \in Phases
  /\ callShutdown \in BOOLEAN
  /\ nextStatus \in {"TIMEOUT", "SHUTDOWN"}
  /\ pollCount \in 0..ErrorLoopMax

Init ==
  /\ ClientInit
  /\ phase = "idle"
  /\ callShutdown = FALSE
  /\ nextStatus = "TIMEOUT"
  /\ pollCount = 0

\* callShutdown, nextStatus and pollCount are locals of Poll: they start afresh
LocalsGone ==
  /\ callShutdown' = FALSE
  /\ nextStatus' = "TIMEOUT"
  /\ pollCount' = 0

-----------------------------------------------------------------------------
(* processQueue: events are taken and run until AsyncNext has none to give. *)

\* The application unsubscribes: Finish on one of the manager's stream clients
UserFinish(c) ==
  /\ phase = "idle"
  /\ Finish({c})
  /\ UNCHANGED pollVars

StartPoll ==
  /\ phase = "idle"
  /\ phase' = "poll"
  /\ LocalsGone
  /\ UNCHANGED clientVars

\* Mutant: the queue is drained as the destructor does it, events dropped
ProcessQueueDrops(c, t) ==
  /\ phase \in {"poll", "settle", "drain"}
  /\ IF phase = "drain" THEN DropEvent(c, t) ELSE Callback(c, t)
  /\ callShutdown' = (callShutdown \/ (phase = "poll" /\ tag[c][t] = "failed"))
  /\ UNCHANGED <<phase, nextStatus, pollCount>>

\* An event of any processQueue; only the first one's result is kept
ProcessQueue(c, t) ==
  /\ phase \in {"poll", "settle", "drain"}
  /\ Callback(c, t)
  /\ callShutdown' = (callShutdown \/ (phase = "poll" /\ tag[c][t] = "failed"))
  /\ UNCHANGED <<phase, nextStatus, pollCount>>

EndPoll ==
  /\ phase = "poll"
  /\ NothingReady
  /\ phase' = IF callShutdown THEN "finish" ELSE "idle"
  /\ nextStatus' = QueueStatus
  /\ UNCHANGED <<clientVars, callShutdown, pollCount>>

-----------------------------------------------------------------------------
(* Recovery: FinishStream, processQueue, Shutdown, and the draining loop.  *)

IssueFinish ==
  /\ phase = "finish"
  /\ FinishStream
  /\ phase' = "settle"
  /\ UNCHANGED <<callShutdown, nextStatus, pollCount>>

\* Mutant: the loop's condition is a conjunction
KeepsDrainingBoth(status, finished, count) ==
  /\ status # "SHUTDOWN" /\ ~finished
  /\ count < ErrorLoopMax

\* Mutant: one round too many
KeepsDrainingOneMore(status, finished, count) ==
  /\ status # "SHUTDOWN" \/ ~finished
  /\ count <= ErrorLoopMax

\* The condition of the loop, for the values it is evaluated with
KeepsDraining(status, finished, count) ==
  /\ status # "SHUTDOWN" \/ ~finished
  /\ count < ErrorLoopMax

AfterRound(status, finished, count) ==
  IF KeepsDraining(status, finished, count) THEN "drain" ELSE "done"

IssueShutdown ==
  /\ phase = "settle"
  /\ NothingReady
  /\ nextStatus' = QueueStatus
  /\ ShutdownQueue
  /\ pollCount' = 0
  /\ phase' = AfterRound(QueueStatus, IsStreamFinished, 0)
  /\ UNCHANGED callShutdown

\* Mutant: a loop that does not count its rounds, as the unary one does not
EndRoundUncounted ==
  /\ phase = "drain"
  /\ NothingReady
  /\ nextStatus' = QueueStatus
  /\ phase' = AfterRound(QueueStatus, IsStreamFinished, pollCount)
  /\ UNCHANGED <<clientVars, callShutdown, pollCount>>

\* Mutant: rounds counted, FinishStream not called again
EndRoundPatient ==
  /\ phase = "drain"
  /\ NothingReady
  /\ nextStatus' = QueueStatus
  /\ pollCount' = pollCount + 1
  /\ phase' = AfterRound(QueueStatus, IsStreamFinished, pollCount + 1)
  /\ UNCHANGED <<clientVars, callShutdown>>

\* Mutant: FinishStream is called again after the last round
EndRoundCancelLast ==
  /\ phase = "drain"
  /\ NothingReady
  /\ nextStatus' = QueueStatus
  /\ pollCount' = pollCount + 1
  /\ phase' = IF pollCount + 1 = ErrorLoopMax
                THEN "cancel"
                ELSE AfterRound(QueueStatus, IsStreamFinished, pollCount + 1)
  /\ UNCHANGED <<clientVars, callShutdown>>

EndRound ==
  /\ phase = "drain"
  /\ NothingReady
  /\ nextStatus' = QueueStatus
  /\ pollCount' = pollCount + 1
  /\ phase' = IF pollCount + 1 = ErrorLoopMax \div 2
                THEN "cancel"
                ELSE AfterRound(QueueStatus, IsStreamFinished, pollCount + 1)
  /\ UNCHANGED <<clientVars, callShutdown>>

IssueCancel ==
  /\ phase = "cancel"
  /\ FinishStream
  /\ phase' = AfterRound(nextStatus, IsStreamFinished', pollCount)
  /\ UNCHANGED <<callShutdown, nextStatus, pollCount>>

-----------------------------------------------------------------------------
(* Poll after the recovery.                                                *)

\* ReinitializeStream, when the channel is still usable
Recover ==
  /\ phase = "done"
  /\ Reinitialize
  /\ phase' = "idle"
  /\ LocalsGone

\* GRPC_CHANNEL_SHUTDOWN: Poll returns false, the manager is to be discarded
Unrecoverable ==
  /\ phase = "done"
  /\ phase' = "dead"
  /\ LocalsGone
  /\ UNCHANGED clientVars

\* "SHUTDOWN did NOT complete gracefully, possible memory leak"
LogsLeak == phase = "done" /\ pollCount >= ErrorLoopMax

-----------------------------------------------------------------------------
(* The destructor, called outside Poll: Finish, then cancel, then Shutdown *)
(* and the events that are ready, dropped.                                 *)

Destroy ==
  /\ phase \in {"idle", "dead"}
  /\ phase' = "closing1"
  /\ UNCHANGED <<clientVars, callShutdown, nextStatus, pollCount>>

CloseFinish ==
  /\ phase = "closing1"
  /\ FinishStream
  /\ phase' = "closing2"
  /\ UNCHANGED <<callShutdown, nextStatus, pollCount>>

\* Mutant: the destructor calls FinishStream once
CloseCancelSkipped ==
  /\ phase = "closing2"
  /\ phase' = "closing3"
  /\ UNCHANGED <<clientVars, callShutdown, nextStatus, pollCount>>

CloseCancel ==
  /\ phase = "closing2"
  /\ FinishStream
  /\ phase' = "closing3"
  /\ UNCHANGED <<callShutdown, nextStatus, pollCount>>

CloseShutdown ==
  /\ phase = "closing3"
  /\ ShutdownQueue
  /\ phase' = "closing"
  /\ UNCHANGED <<callShutdown, nextStatus, pollCount>>

CloseDrop(c, t) ==
  /\ phase = "closing"
  /\ DropEvent(c, t)
  /\ UNCHANGED pollVars

EndClose ==
  /\ phase = "closing"
  /\ NothingReady
  /\ nextStatus' = QueueStatus
  /\ phase' = "closed"
  /\ UNCHANGED <<clientVars, callShutdown, pollCount>>

Closed ==
  /\ phase = "closed"
  /\ UNCHANGED vars

-----------------------------------------------------------------------------
(* Specification.                                                          *)

ThreadStep ==
  \/ StartPoll \/ EndPoll
  \/ IssueFinish \/ IssueShutdown \/ EndRound \/ IssueCancel
  \/ Recover \/ Unrecoverable
  \/ Destroy \/ CloseFinish \/ CloseCancel \/ CloseShutdown \/ EndClose
  \/ \E c \in Clients, t \in Tags : ProcessQueue(c, t) \/ CloseDrop(c, t)

GrpcStep ==
  /\ phase # "closed"
  /\ Grpc
  /\ UNCHANGED pollVars

Next ==
  \/ ThreadStep
  \/ \E c \in UserFinishes : UserFinish(c)
  \/ GrpcStep
  \/ Closed

Spec == Init /\ [][Next]_vars

\* A call that is over gives its tags back
Drains(c) ==
  /\ c \notin live
  /\ phase # "closed"
  /\ \E t \in Tags, status \in {"ok", "failed"} : Complete(c, t, status)
  /\ UNCHANGED pollVars

\* The thread keeps running: AsyncNext returns, Poll "must regularly be
\* called".  Nothing is assumed of the server or of the connection, and nothing
\* obliges the application to unsubscribe or to destroy the manager.
Fairness ==
  /\ WF_vars(ThreadStep /\ ~Destroy)
  /\ \A c \in Clients : WF_vars(Drains(c))

FairSpec == Spec /\ Fairness

-----------------------------------------------------------------------------
(* Properties.                                                             *)

Recovering == phase \in {"finish", "settle", "drain", "cancel", "done"}

Discarded == phase \in {"dead", "closing1", "closing2", "closing3", "closing", "closed"}

\* gRPC aborts when Finish is called twice on a call: no client asks for the
\* final status of a call it has already asked it of (the flags finishCalled
\* and initMetadataReceived of Finish, across the recovery and the destructor).
FinishOnce ==
  [][\A c \in Clients :
       tag'[c]["finish"] = "submitted" => tag[c]["finish"] \in {"idle", "submitted"}]_vars

\* Finish is one of the calls that put work on the queue: neither the second
\* FinishStream of the recovery, nor the destructor after a failed recovery,
\* enqueues one on a queue that Shutdown was called on.
FinishNeverLate == "finish" \notin late

\* Only an update that was read is given to the application and confirmed: a
\* failed read, or a buffer made afresh by a recovery, is neither.
ConfirmedWasRead == confirmed \subseteq Clients \X Updates

\* When the recovery rebuilds the clients, every call they had has been
\* cancelled or has ended: none stays open, receiving, with no client to it.
\* (ivi-config.h asks for errorLoopMax >= 2.)
NoOrphan ==
  ErrorLoopMax >= 2 /\ phase = "done" => live = {} /\ IsStreamFinished

\* Once the queue has shut down and drained, every client has finished: the
\* second half of the loop's condition never keeps the loop going by itself.
DrainedMeansFinished == queueDown /\ Drained => IsStreamFinished

\* If the log says the shutdown was graceful then the queue was drained: no
\* tag of a destroyed client is left in gRPC.
GracefulMeansDrained == phase = "done" /\ ~LogsLeak => Drained

\* A recovery drops no update: when it rebuilds the clients, with their message
\* buffers, none holds an update that was read and not yet given.
RecoveryKeepsUpdates ==
  ErrorLoopMax >= 2 /\ phase = "done" => \A c \in Clients : tag[c]["read"] # "ok"

\* The destructor leaves no call open.
ClosedMeansCancelled == phase = "closed" => live = {}

\* A recovery that has begun is followed by new clients, or by Poll's false.
RecoveryEnds == Recovering ~> (phase = "idle" \/ Discarded)

\* A subscribed stream that ends or breaks is opened again while the
\* application keeps calling Poll; so is one that the application finished.
AutoRecovery ==
  \A c \in Subscribed : c \notin live ~> (c \in live \/ Discarded)

\* An update that reached a client's buffer is given to the application and
\* confirmed, a failure of this or of another stream notwithstanding, unless
\* the manager is destroyed first.
UpdateDelivered ==
  \A c \in Clients, u \in Updates :
    (tag[c]["read"] = "ok" /\ updateResponse[c] = u)
       ~> (<<c, u>> \in confirmed \/ Discarded)

-----------------------------------------------------------------------------
(* The inductive invariant behind the safety properties, in parts.         *)

\* A finished client has no open call: it was cancelled, or gRPC gave its
\* final status, which it does for a call that is over.
FinishedAreDead ==
  /\ live \cap finishResponded = {}
  /\ \A c \in Clients : tag[c]["finish"] \in {"ok", "failed", "reaped"} => c \notin live

\* Finish was called exactly on the clients whose finish tag has left idle.
FinishTags == \A c \in Clients : c \notin finishCalled => tag[c]["finish"] = "idle"

\* A client that waits for the answer to Finish still has a tag out for it.
FinishAwaited ==
  phase \notin {"closing", "closed"} =>
    \A c \in finishCalled \ finishResponded : "finish" \in Outstanding(c)

\* Shutdown comes after a FinishStream, which leaves no client unasked.
ShutdownIsAfterFinish ==
  /\ phase \in {"idle", "poll", "finish", "settle"} => ~queueDown
  /\ queueDown \/ phase \in {"settle", "closing2"} => Unfinished \subseteq finishCalled
  /\ phase \in {"closing3", "closing", "closed"} => IsStreamFinished

\* The second FinishStream of a recovery finishes every client.
CancelledByHalf ==
  /\ phase = "cancel" => pollCount = ErrorLoopMax \div 2
  /\ phase \in {"drain", "cancel", "done"} => queueDown
  /\ ErrorLoopMax >= 2 /\ phase \in {"drain", "done"} /\ pollCount >= ErrorLoopMax \div 2
       => IsStreamFinished
  /\ ErrorLoopMax >= 2 /\ phase = "done" => IsStreamFinished

\* SHUTDOWN was the answer of a queue that had drained, and stays drained.
ShutdownMeansDrained ==
  phase \in {"cancel", "done"} /\ nextStatus = "SHUTDOWN" => Drained

\* A round of the loop begins with rounds left; a loop that ends with rounds
\* left has seen SHUTDOWN.
RoundsLeft == phase = "drain" => pollCount < ErrorLoopMax

EndsOnShutdown == phase = "done" /\ ~LogsLeak => nextStatus = "SHUTDOWN"

ReadsAreUpdates ==
  \A c \in Clients : tag[c]["read"] = "ok" => updateResponse[c] \in Updates

\* The parts that speak of the clients alone
ClientInv ==
  /\ FinishedAreDead
  /\ FinishTags
  /\ ReadsAreUpdates
  /\ ConfirmedWasRead

\* The parts that tie the clients to what the thread is doing
ThreadInv ==
  /\ FinishAwaited
  /\ ShutdownIsAfterFinish
  /\ CancelledByHalf
  /\ ShutdownMeansDrained
  /\ EndsOnShutdown

IInv == ClientInv /\ ThreadInv /\ RoundsLeft

=============================================================================
