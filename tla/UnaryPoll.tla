------------------------------ MODULE UnaryPoll ------------------------------
(***************************************************************************)
(* The asynchronous unary clients (CallUnaryAsync, ivi-client.cpp) and     *)
(* IVIClientManagerAsync as the owner of their completion queue:           *)
(* Poll<true>, the unary half of Poll's automatic recovery, and the        *)
(* destructor (ivi-client-mgr.cpp).                                        *)
(*                                                                         *)
(* A request allocates a tag (an AsyncCallback that owns the call's state) *)
(* and puts it on the unary queue of the moment.  gRPC gives each tag back *)
(* once, with ok; ok is FALSE when the answer is not a valid message.  The *)
(* phases are those of StreamPoll; a unary recovery has no Finish to call, *)
(* but its loop waits for the same IsStreamFinished.                       *)
(*                                                                         *)
(* The stream clients are this module's environment: they finish and are   *)
(* rebuilt (streamsFinished), and between PollUnary and ReinitializeUnary  *)
(* PollStream runs, which may confirm an update with a unary request.  An  *)
(* application that calls PollUnary and ReinitializeUnary itself may make  *)
(* a request there too.  ManagerPoll puts the streams in their place.      *)
(***************************************************************************)
EXTENDS Naturals

CONSTANTS
  Calls,           \* the requests that may be made
  CallbackCalls,   \* those that callbacks may make (a retry, the next step)
  Answered,        \* those that gRPC is sure to end
  ErrorLoopMax     \* IVIConfiguration::errorLoopMax

ASSUME UnaryAssumption ==
  /\ CallbackCalls \subseteq Calls
  /\ Answered \subseteq Calls
  /\ ErrorLoopMax \in Nat

VARIABLES
  \* the calls
  call,          \* call[k]: where the tag of request k is
  calledBack,    \* calledBack[k]: times the callback of k was called
  freed,         \* freed[k]: times the tag of k was deleted
  queueOf,       \* queueOf[k]: the queue the tag of k was put on
  afterDrain,    \* calls put on a queue between its draining and the next queue
  \* the connection's queue
  unaryQueue,    \* which queue it is now: they are numbered as they are made
  queueDown,     \* Shutdown was called on it
  \* the thread in Poll<true>
  phase,
  callShutdown,  \* an event of the first processQueue said ok = false
  nextStatus,    \* last answer of AsyncNext that was not an event
  \* the stream clients
  streamsFinished  \* what IsStreamFinished() returns

callVars  == <<call, calledBack, freed, queueOf, afterDrain>>
queueVars == <<unaryQueue, queueDown>>
pollVars  == <<phase, callShutdown, nextStatus>>
vars == <<callVars, queueVars, pollVars, streamsFinished>>

\* "ok" and "failed" are events waiting in the queue, with the value of ok
CallStatus == {"unmade", "submitted", "ok", "failed", "taken"}

Phases == {"idle", "poll", "settle", "drain", "done", "dead", "closing", "closed"}

TypeOK ==
  /\ call \in [Calls -> CallStatus]
  /\ calledBack \in [Calls -> {0, 1}]
  /\ freed \in [Calls -> {0, 1}]
  /\ queueOf \in [Calls -> Nat]
  /\ afterDrain \subseteq Calls
  /\ unaryQueue \in Nat
  /\ queueDown \in BOOLEAN
  /\ phase \in Phases
  /\ callShutdown \in BOOLEAN
  /\ nextStatus \in {"TIMEOUT", "SHUTDOWN"}
  /\ streamsFinished \in BOOLEAN

Init ==
  /\ call = [k \in Calls |-> "unmade"]
  /\ calledBack = [k \in Calls |-> 0]
  /\ freed = [k \in Calls |-> 0]
  /\ queueOf = [k \in Calls |-> 0]
  /\ afterDrain = {}
  /\ unaryQueue = 0
  /\ queueDown = FALSE
  /\ phase = "idle"
  /\ callShutdown = FALSE
  /\ nextStatus = "TIMEOUT"
  /\ streamsFinished \in BOOLEAN

LocalsGone ==
  /\ callShutdown' = FALSE
  /\ nextStatus' = "TIMEOUT"

-----------------------------------------------------------------------------
(* The queue.  AsyncNext sees the tags of the present queue only.          *)

OnQueue(k)     == queueOf[k] = unaryQueue
Ready(k)       == OnQueue(k) /\ call[k] \in {"ok", "failed"}
Outstanding(k) == call[k] \in {"submitted", "ok", "failed"}
NothingReady   == \A k \in Calls : ~Ready(k)
Drained        == \A k \in Calls : ~(OnQueue(k) /\ Outstanding(k))

QueueStatus == IF queueDown /\ Drained THEN "SHUTDOWN" ELSE "TIMEOUT"

-----------------------------------------------------------------------------
(* CallUnaryAsync: a call is started on the connection's unary queue, which *)
(* is looked up when the request is made.                                  *)

\* Mutant: a client keeps the queue it was built with, and Poll's recovery
\* rebuilds all of them but the order client
SubmitQueueOfConstruction == 0

SubmitQueue == unaryQueue

Unmade == {k \in Calls : call[k] = "unmade"}

\* Requests that an application callback makes, at most one at a time
CallbackRequests == {{}} \cup {{k} : k \in CallbackCalls \cap Unmade}

\* What the functions call and queueOf become when ks are requested
Requested(status, ks) == [k \in Calls |-> IF k \in ks THEN "submitted" ELSE status[k]]

Enqueue(ks) ==
  queueOf' = [k \in Calls |-> IF k \in ks THEN SubmitQueue ELSE queueOf[k]]

\* A request made outside the callbacks of PollUnary
CallUnaryAsync(k) ==
  /\ phase \in {"idle", "done"}
  /\ k \in Unmade
  /\ call' = Requested(call, {k})
  /\ Enqueue({k})
  /\ afterDrain' = IF phase = "done" THEN afterDrain \cup {k} ELSE afterDrain
  /\ UNCHANGED <<calledBack, freed, unaryQueue, queueDown, pollVars>>

-----------------------------------------------------------------------------
(* processQueue<true>: the callback is called, then its tag is deleted.    *)

StartPoll ==
  /\ phase = "idle"
  /\ phase' = "poll"
  /\ LocalsGone
  /\ UNCHANGED <<callVars, queueVars>>

\* Mutant: the tag stays in the queue and is run again
ProcessQueueAgain(k) ==
  /\ phase \in {"poll", "settle", "drain"}
  /\ Ready(k)
  /\ calledBack' = [calledBack EXCEPT ![k] = @ + 1]
  /\ callShutdown' = (callShutdown \/ (phase = "poll" /\ call[k] = "failed"))
  /\ UNCHANGED <<call, freed, queueOf, afterDrain, queueVars, phase, nextStatus>>

\* Mutant: the tag is not deleted, as a stream client's is not
ProcessQueueKeeps(k) ==
  /\ phase \in {"poll", "settle", "drain"}
  /\ Ready(k)
  /\ calledBack' = [calledBack EXCEPT ![k] = @ + 1]
  /\ \E ks \in CallbackRequests :
       /\ call' = Requested([call EXCEPT ![k] = "taken"], ks)
       /\ Enqueue(ks)
  /\ callShutdown' = (callShutdown \/ (phase = "poll" /\ call[k] = "failed"))
  /\ UNCHANGED <<freed, afterDrain, unaryQueue, queueDown, phase, nextStatus>>

\* Mutant: a call that comes back with ok = false has no callback called
ProcessQueueSilent(k) ==
  /\ phase \in {"poll", "settle", "drain"}
  /\ Ready(k)
  /\ calledBack' = [calledBack EXCEPT ![k] = IF call[k] = "ok" THEN @ + 1 ELSE @]
  /\ freed' = [freed EXCEPT ![k] = @ + 1]
  /\ \E ks \in CallbackRequests :
       /\ call' = Requested([call EXCEPT ![k] = "taken"], ks)
       /\ Enqueue(ks)
  /\ callShutdown' = (callShutdown \/ (phase = "poll" /\ call[k] = "failed"))
  /\ UNCHANGED <<afterDrain, unaryQueue, queueDown, phase, nextStatus>>

ProcessQueue(k) ==
  /\ phase \in {"poll", "settle", "drain"}
  /\ Ready(k)
  /\ calledBack' = [calledBack EXCEPT ![k] = @ + 1]
  /\ freed' = [freed EXCEPT ![k] = @ + 1]
  /\ \E ks \in CallbackRequests :
       /\ call' = Requested([call EXCEPT ![k] = "taken"], ks)
       /\ Enqueue(ks)
  /\ callShutdown' = (callShutdown \/ (phase = "poll" /\ call[k] = "failed"))
  /\ UNCHANGED <<afterDrain, unaryQueue, queueDown, phase, nextStatus>>

EndPoll ==
  /\ phase = "poll"
  /\ NothingReady
  /\ phase' = IF callShutdown THEN "settle" ELSE "idle"
  /\ nextStatus' = QueueStatus
  /\ UNCHANGED <<callVars, queueVars, callShutdown>>

-----------------------------------------------------------------------------
(* Recovery: processQueue, Shutdown, and the loop that waits for SHUTDOWN  *)
(* and for the streams.  Only a stream loop increments pollCount, so the   *)
(* test pollCount < maxShutdownPolls compares 0 every time.                *)

\* Mutant: the loop waits for the streams only
KeepsDrainingStreams(status) ==
  /\ ~streamsFinished
  /\ 0 < ErrorLoopMax

\* Mutant: the loop waits for the queue only
KeepsDrainingQueue(status) ==
  /\ status # "SHUTDOWN"
  /\ 0 < ErrorLoopMax

KeepsDraining(status) ==
  /\ status # "SHUTDOWN" \/ ~streamsFinished
  /\ 0 < ErrorLoopMax

AfterRound(status) == IF KeepsDraining(status) THEN "drain" ELSE "done"

\* Mutant: Shutdown is not called
IssueNoShutdown ==
  /\ phase = "settle"
  /\ NothingReady
  /\ nextStatus' = QueueStatus
  /\ phase' = AfterRound(QueueStatus)
  /\ UNCHANGED <<callVars, queueVars, callShutdown>>

IssueShutdown ==
  /\ phase = "settle"
  /\ NothingReady
  /\ nextStatus' = QueueStatus
  /\ queueDown' = TRUE
  /\ phase' = AfterRound(QueueStatus)
  /\ UNCHANGED <<callVars, unaryQueue, callShutdown>>

EndRound ==
  /\ phase = "drain"
  /\ NothingReady
  /\ nextStatus' = QueueStatus
  /\ phase' = AfterRound(QueueStatus)
  /\ UNCHANGED <<callVars, queueVars, callShutdown>>

\* ReinitializeUnary: a new queue.  The clients rebuilt with it have no state
\* but a stub of the same channel.
Recover ==
  /\ phase = "done"
  /\ unaryQueue' = unaryQueue + 1
  /\ queueDown' = FALSE
  /\ phase' = "idle"
  /\ LocalsGone
  /\ UNCHANGED callVars

\* GRPC_CHANNEL_SHUTDOWN: Poll returns false, the manager is to be discarded
Unrecoverable ==
  /\ phase = "done"
  /\ phase' = "dead"
  /\ LocalsGone
  /\ UNCHANGED <<callVars, queueVars>>

-----------------------------------------------------------------------------
(* The destructor: Shutdown, and the tags that are ready deleted unrun.    *)

Destroy ==
  /\ phase \in {"idle", "dead"}
  /\ queueDown' = TRUE
  /\ phase' = "closing"
  /\ UNCHANGED <<callVars, unaryQueue, callShutdown, nextStatus>>

CloseDrop(k) ==
  /\ phase = "closing"
  /\ Ready(k)
  /\ call' = [call EXCEPT ![k] = "taken"]
  /\ freed' = [freed EXCEPT ![k] = @ + 1]
  /\ UNCHANGED <<calledBack, queueOf, afterDrain, queueVars, pollVars>>

EndClose ==
  /\ phase = "closing"
  /\ NothingReady
  /\ nextStatus' = QueueStatus
  /\ phase' = "closed"
  /\ UNCHANGED <<callVars, queueVars, callShutdown>>

Closed ==
  /\ phase = "closed"
  /\ UNCHANGED <<callVars, queueVars, pollVars>>

-----------------------------------------------------------------------------
(* gRPC: a call ends, with an answer, an error or a broken connection (ok), *)
(* or with an answer that cannot be read (failed).                         *)

Complete(k) ==
  /\ phase # "closed"
  /\ call[k] = "submitted"
  /\ \E status \in {"ok", "failed"} : call' = [call EXCEPT ![k] = status]
  /\ UNCHANGED <<calledBack, freed, queueOf, afterDrain, queueVars, pollVars>>

-----------------------------------------------------------------------------
(* Specification.                                                          *)

ThreadStep ==
  \/ StartPoll \/ EndPoll \/ IssueShutdown \/ EndRound
  \/ Recover \/ Unrecoverable \/ EndClose
  \/ \E k \in Calls : ProcessQueue(k) \/ CloseDrop(k)

\* Streams are finished, by PollStream or by the application, and rebuilt
StreamsChange ==
  /\ streamsFinished' = ~streamsFinished
  /\ UNCHANGED <<callVars, queueVars, pollVars>>

UnaryStep ==
  \/ ThreadStep
  \/ Destroy
  \/ \E k \in Calls : CallUnaryAsync(k) \/ Complete(k)
  \/ Closed

Next ==
  \/ UnaryStep /\ UNCHANGED streamsFinished
  \/ StreamsChange

Spec == Init /\ [][Next]_vars

\* The thread keeps running and calling Poll.  The SDK gives its calls no
\* deadline, so only the server or the connection ends one: the calls in
\* Answered are ended, the others may be or not.
Fairness ==
  /\ WF_vars(ThreadStep /\ UNCHANGED streamsFinished)
  /\ \A k \in Answered : WF_vars(Complete(k) /\ UNCHANGED streamsFinished)

FairSpec == Spec /\ Fairness

-----------------------------------------------------------------------------
(* Properties.  A queue is told from the ones before it by its number,     *)
(* which grows by one at each recovery; a recovery takes a failed call, so *)
(* there are no more of them than calls.                                   *)

Recovering == phase \in {"settle", "drain", "done"}

Discarded == phase \in {"dead", "closing", "closed"}

\* A tag is deleted when, and only when, it has been taken from a queue: no
\* answered call leaks and none is deleted twice.
FreedWhenTaken == \A k \in Calls : freed[k] = (IF call[k] = "taken" THEN 1 ELSE 0)

\* A recovery abandons no call: when it makes a new queue, every call of the
\* old one has been answered and its callback called, unless it was made after
\* the draining.
NoCallLost ==
  ErrorLoopMax >= 1 /\ phase = "done" =>
    \A k \in Calls : Outstanding(k) => k \in afterDrain

\* Every call that waits for its answer waits on the queue that Poll polls: the
\* only way to be left on an old queue is to be made between its draining and
\* ReinitializeUnary.
OnPolledQueue ==
  ErrorLoopMax >= 1 =>
    \A k \in Calls : Outstanding(k) => OnQueue(k) \/ k \in afterDrain

\* What the application sees is UnaryCalls: one callback per request.
AbstractState ==
  [k \in Calls |->
     IF call[k] = "unmade" THEN "unmade"
     ELSE IF Outstanding(k) THEN "pending"
     ELSE IF calledBack[k] = 1 THEN "called" ELSE "abandoned"]

Promise == INSTANCE UnaryCalls WITH state <- AbstractState, open <- ~Discarded

OneCallbackPerRequest == Promise!Spec

\* If the stream clients are all finished from some time on, an answer that has
\* arrived reaches its callback, whatever recoveries come between and whatever
\* other calls are never answered, unless the manager is discarded.
AnswerDelivered ==
  <>[]streamsFinished =>
    \A k \in Calls :
      (call[k] \in {"ok", "failed"} /\ k \notin afterDrain)
        ~> (calledBack[k] = 1 \/ Discarded)

\* Once the stream clients are all finished, a unary recovery ends, and the
\* next one too, unless a call of the queue it drains is never answered: a
\* request without an answer on any other queue holds up nothing.
NeverAnswered(k) == <>[](call[k] = "submitted" /\ OnQueue(k))

RecoveryEnds ==
  <>[]streamsFinished =>
    []<>~Recovering \/ \E k \in Calls \ Answered : NeverAnswered(k)

\* The inductive invariant behind them: a callback is called when its tag is
\* freed, but in the destructor.
CalledWhenFreed ==
  /\ \A k \in Calls : calledBack[k] <= freed[k]
  /\ phase \notin {"closing", "closed"} => \A k \in Calls : calledBack[k] = freed[k]

IInv == FreedWhenTaken /\ CalledWhenFreed /\ OnPolledQueue /\ NoCallLost

=============================================================================
