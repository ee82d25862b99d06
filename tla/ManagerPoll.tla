----------------------------- MODULE ManagerPoll -----------------------------
(***************************************************************************)
(* IVIClientManagerAsync whole: Poll() runs PollUnary, then PollStream,    *)
(* then rebuilds what failed, in one thread (ivi-client-mgr.cpp).          *)
(*                                                                         *)
(* The stream side is StreamPoll, which this module extends; the unary     *)
(* side is an instance of UnaryPoll, its variables named u... where both   *)
(* have one.  They meet in three places:                                   *)
(*   - an update taken by PollStream is confirmed by a unary request, put  *)
(*     on whatever unary queue the connection then has;                    *)
(*   - the draining loop of PollUnary waits for IsStreamFinished;          *)
(*   - the engine may push an update again until it has a confirmation.    *)
(***************************************************************************)
EXTENDS StreamPoll

CONSTANTS
  Calls,           \* the unary requests that may be made
  Confirmations,   \* those that confirm an update; bounds the updates pushed
  CallbackCalls    \* those that callbacks of unary requests may make

ASSUME ManagerAssumption ==
  /\ Confirmations \subseteq Calls
  /\ CallbackCalls \subseteq Calls \ Confirmations

VARIABLES
  \* the unary side (see UnaryPoll)
  call, calledBack, freed, queueOf, afterDrain, unaryQueue,
  uDown, uPhase, uCallShutdown, uNextStatus,
  \* the thread
  at,              \* where in the manager it is
  \* the engine
  confirmOf,       \* confirmOf[k]: the <<client, update>> that request k confirms
  acked            \* <<client, update>> pairs whose confirmation the engine has

unaryVars   == <<call, calledBack, freed, queueOf, afterDrain, unaryQueue,
                 uDown, uPhase, uCallShutdown, uNextStatus>>
engineVars  == <<confirmOf, acked>>
managerVars == <<vars, unaryVars, at, engineVars>>

U == INSTANCE UnaryPoll WITH
       queueDown <- uDown, phase <- uPhase, callShutdown <- uCallShutdown,
       nextStatus <- uNextStatus, streamsFinished <- IsStreamFinished,
       Answered <- Calls

\*   out      outside the manager      unary    in PollUnary
\*   stream   in PollStream            reinit   ReinitializeUnary done, stream next
\*   dead     Poll has returned false  closing  in the destructor
Places == {"out", "unary", "stream", "reinit", "dead", "closing"}

Notices == Clients \X Updates

EngineTypes ==
  /\ at \in Places
  /\ confirmOf \in [Confirmations -> Notices \cup {NoUpdate}]
  /\ acked \subseteq Notices

ManagerTypeOK == TypeOK /\ U!TypeOK /\ EngineTypes

ManagerInit ==
  /\ Init
  /\ U!Init
  /\ at = "out"
  /\ confirmOf = [k \in Confirmations |-> NoUpdate]
  /\ acked = {}

-----------------------------------------------------------------------------
(* The application, between two calls of Poll.                             *)

Request(k) ==
  /\ at = "out"
  /\ UNCHANGED <<vars, at, engineVars>>
  /\ U!CallUnaryAsync(k)

Unsubscribe(c) ==
  /\ at = "out"
  /\ UserFinish(c)
  /\ UNCHANGED <<unaryVars, at, engineVars>>

-----------------------------------------------------------------------------
(* Poll: PollUnary, then PollStream whatever came of it.                   *)

PollUnary ==
  /\ at = "out"
  /\ at' = "unary"
  /\ UNCHANGED <<vars, engineVars>>
  /\ U!StartPoll

InPollUnary ==
  /\ at = "unary"
  /\ UNCHANGED <<vars, at, engineVars>>
  /\ \/ U!EndPoll \/ U!IssueShutdown \/ U!EndRound
     \/ \E k \in Calls : U!ProcessQueue(k)

PollStream ==
  /\ at = "unary"
  /\ uPhase \in {"idle", "done"}
  /\ StartPoll
  /\ at' = "stream"
  /\ UNCHANGED <<unaryVars, engineVars>>

\* Mutant: the next read is issued before the confirmation is made
ConfirmAfterRead(c) ==
  \E k \in Confirmations :
    /\ U!CallUnaryAsync(k)
    /\ confirmOf' = [confirmOf EXCEPT ![k] = <<c, NoUpdate>>]
    /\ UNCHANGED acked

\* Confirm: a unary request that names the update
Confirm(c) ==
  \E k \in Confirmations :
    /\ U!CallUnaryAsync(k)
    /\ confirmOf' = [confirmOf EXCEPT ![k] = <<c, updateResponse[c]>>]
    /\ UNCHANGED acked

\* An event of the stream queue; an update is confirmed as it is given
StreamEvent(c, t) ==
  /\ at = "stream"
  /\ ProcessQueue(c, t)
  /\ UNCHANGED at
  /\ IF t = "read" /\ tag[c][t] = "ok"
       THEN Confirm(c)
       ELSE UNCHANGED <<unaryVars, engineVars>>

InPollStream ==
  /\ at = "stream"
  /\ EndPoll \/ IssueFinish \/ IssueShutdown \/ EndRound \/ IssueCancel
  /\ UNCHANGED <<unaryVars, at, engineVars>>

-----------------------------------------------------------------------------
(* Poll: the recovery attempt.                                             *)

Returned == at = "stream" /\ phase \in {"idle", "done"}

Return ==
  /\ Returned
  /\ phase = "idle" /\ uPhase = "idle"
  /\ at' = "out"
  /\ UNCHANGED <<vars, unaryVars, engineVars>>

\* Mutant: a failure of the unary side rebuilds the stream clients too
RecoverUnaryAndStream ==
  /\ Returned
  /\ at' = "out"
  /\ Reinitialize
  /\ phase' = "idle"
  /\ UNCHANGED <<callShutdown, nextStatus, pollCount, engineVars>>
  /\ U!Recover

\* ReinitializeUnary, when the channel is still usable
RecoverUnary ==
  /\ Returned
  /\ at' = IF phase = "done" THEN "reinit" ELSE "out"
  /\ UNCHANGED <<vars, engineVars>>
  /\ U!Recover

\* Mutant: a failure of the stream side makes a new unary queue as well
RecoverStreamAndUnary ==
  /\ Returned /\ uPhase = "idle"
  /\ Recover
  /\ at' = "out"
  /\ unaryQueue' = unaryQueue + 1
  /\ UNCHANGED <<call, calledBack, freed, queueOf, afterDrain, uDown, uPhase,
                 uCallShutdown, uNextStatus, engineVars>>

\* ReinitializeStream, after ReinitializeUnary where both sides failed
RecoverStream ==
  /\ at = "reinit" \/ (Returned /\ uPhase = "idle")
  /\ Recover
  /\ at' = "out"
  /\ UNCHANGED <<unaryVars, engineVars>>

\* GRPC_CHANNEL_SHUTDOWN: Poll returns false
ReturnFalse ==
  /\ Returned
  /\ phase = "done" \/ uPhase = "done"
  /\ at' = "dead"
  /\ IF phase = "done"  THEN Unrecoverable   ELSE UNCHANGED vars
  /\ IF uPhase = "done" THEN U!Unrecoverable ELSE UNCHANGED unaryVars
  /\ UNCHANGED engineVars

-----------------------------------------------------------------------------
(* The destructor: the unary queue, then the streams.                      *)

CloseUnary ==
  /\ at \in {"out", "dead"}
  /\ at' = "closing"
  /\ UNCHANGED <<vars, engineVars>>
  /\ U!Destroy

InCloseUnary ==
  /\ at = "closing"
  /\ UNCHANGED <<vars, at, engineVars>>
  /\ U!EndClose \/ \E k \in Calls : U!CloseDrop(k)

InCloseStream ==
  /\ at = "closing"
  /\ uPhase = "closed"
  /\ \/ Destroy \/ CloseFinish \/ CloseCancel \/ CloseShutdown \/ EndClose
     \/ \E c \in Clients, t \in Tags : CloseDrop(c, t)
  /\ UNCHANGED <<unaryVars, at, engineVars>>

ManagerClosed ==
  /\ phase = "closed"
  /\ UNCHANGED managerVars

-----------------------------------------------------------------------------
(* gRPC and the engine.                                                    *)

\* Bound: every update pushed has a confirmation left to be made of it
ConfirmationsLeft ==
  Cardinality({k \in Confirmations : call[k] = "unmade"})
    > Cardinality({c \in Clients : tag[c]["read"] = "ok"})

\* The engine pushes what it has no confirmation of
Send(c, u) ==
  /\ <<c, u>> \notin acked
  /\ ConfirmationsLeft
  /\ Push(c, u)

StreamGrpc ==
  /\ phase # "closed"
  /\ \E c \in Clients :
       \/ Break(c)
       \/ \E t \in Tags, status \in {"ok", "failed"} : Complete(c, t, status)
       \/ \E u \in Updates : Send(c, u)
  /\ UNCHANGED <<pollVars, unaryVars, at, engineVars>>

\* A unary call ends.  A confirmation may have reached the engine or not,
\* whatever its answer says: the SDK logs a failure and does not try again.
UnaryGrpc(k) ==
  /\ UNCHANGED <<vars, at, confirmOf>>
  /\ U!Complete(k)
  /\ \/ k \in Confirmations /\ acked' = acked \cup {confirmOf[k]}
     \/ UNCHANGED acked

-----------------------------------------------------------------------------
(* Specification.                                                          *)

ManagerThread ==
  \/ PollUnary \/ InPollUnary \/ PollStream \/ InPollStream
  \/ Return \/ RecoverUnary \/ RecoverStream \/ ReturnFalse
  \/ InCloseUnary \/ InCloseStream
  \/ \E c \in Clients, t \in Tags : StreamEvent(c, t)

Application ==
  \/ \E k \in Calls \ Confirmations : Request(k)
  \/ \E c \in UserFinishes : Unsubscribe(c)
  \/ CloseUnary

ManagerNext ==
  \/ ManagerThread
  \/ Application
  \/ StreamGrpc
  \/ \E k \in Calls : UnaryGrpc(k)
  \/ ManagerClosed

ManagerSpec == ManagerInit /\ [][ManagerNext]_managerVars

\* A streaming call that is over gives its tags back
StreamDrains(c) ==
  /\ c \notin live
  /\ phase # "closed"
  /\ \E t \in Tags, status \in {"ok", "failed"} : Complete(c, t, status)
  /\ UNCHANGED <<pollVars, unaryVars, at, engineVars>>

\* As in StreamPoll and UnaryPoll: the thread keeps running, gRPC gives back
\* the tags of calls that are over, and unary calls end.
ManagerFairness ==
  /\ WF_managerVars(ManagerThread)
  /\ \A c \in Clients : WF_managerVars(StreamDrains(c))
  /\ \A k \in Calls : WF_managerVars(UnaryGrpc(k))

FairManagerSpec == ManagerSpec /\ ManagerFairness

-----------------------------------------------------------------------------
(* Properties.                                                             *)

\* The stream side behaves as StreamPoll says it does on its own, whatever the
\* unary side is doing: its guarantees hold of the whole manager.
StreamSide == Spec

\* So does the unary side as UnaryPoll says: PollStream's confirmations are
\* requests that UnaryPoll's environment may make.
UnarySide == U!Spec

\* A new unary queue is made only while no stream is subscribed: the loop of
\* PollUnary waits for streams that PollUnary does not finish.
RecoveryAwaitsStreams ==
  ErrorLoopMax >= 1 /\ uPhase = "done" => IsStreamFinished

\* The invariants behind the refinements: the streams are rebuilt with the unary
\* side idle, and a confirmation that was made is of an update that was given.
ReinitIsIdle == at = "reinit" => uPhase = "idle"

ConfirmsGiven == \A k \in Confirmations : call[k] # "unmade" => confirmOf[k] \in confirmed

\* What the application and the engine see of the streams is StreamFeed: no
\* recovery of either queue, and no lost confirmation, costs an update.
Buffered == {<<c, updateResponse[c]>> : c \in {d \in Clients : tag[d]["read"] = "ok"}}

Feed == INSTANCE StreamFeed WITH
          buffered <- Buffered, given <- confirmed, open <- at \notin {"dead", "closing"}

UpdatesKept == Feed!Spec

\* A stream that ended is opened again, unless the manager is discarded or
\* PollUnary is draining its queue: nothing else keeps it closed.
ReopenedUnlessDraining ==
  \A c \in Subscribed :
    c \notin live ~> (c \in live \/ uPhase = "drain" \/ at \in {"dead", "closing"})

\* PollUnary comes to an end if the streams are finished when it starts.
EndsWhenFinished == (at = "unary" /\ IsStreamFinished) ~> (at # "unary")

-----------------------------------------------------------------------------
(* What the source says of the manager and the code does not keep.         *)

\* ivi-client-mgr.h:33: Poll stalls the thread for a limited time only.
PollReturns == (at \in {"unary", "stream", "reinit"}) ~> (at \in {"out", "dead"})

\* ivi-client-mgr.cpp:214: no work is enqueued on the queue after Shutdown; a
\* confirmation is none on the unary queue.
NoLateConfirmation ==
  [][\A k \in Confirmations : call[k] = "unmade" /\ uDown => call'[k] = "unmade"]_managerVars

=============================================================================
