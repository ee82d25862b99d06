-------------------------- MODULE ManagerPollProofs --------------------------
(***************************************************************************)
(* The manager implements its two halves: a step of the whole is a step of *)
(* StreamPoll or leaves it alone, and the same for UnaryPoll.  So what is  *)
(* proved of each half holds of the manager, whatever the other half does; *)
(* the rest of the module proves what takes both of them.                  *)
(***************************************************************************)
EXTENDS ManagerPoll, StreamPollProofs

-----------------------------------------------------------------------------
(* The stream half.                                                        *)

LEMMA StreamStep == [ManagerNext]_managerVars => [Next]_vars
<1> SUFFICES ASSUME [ManagerNext]_managerVars PROVE [Next]_vars
  OBVIOUS
<1>1. CASE UNCHANGED managerVars
  BY <1>1 DEF managerVars
<1>2. ASSUME NEW k \in Calls, Request(k) \/ UnaryGrpc(k) PROVE UNCHANGED vars
  BY <1>2 DEF Request, UnaryGrpc
<1>3. ASSUME NEW c \in UserFinishes, Unsubscribe(c) PROVE Next
  BY <1>3 DEF Unsubscribe, Next
<1>4. CASE PollUnary \/ InPollUnary \/ Return \/ RecoverUnary \/ CloseUnary \/ InCloseUnary
           \/ ManagerClosed
  BY <1>4 DEF PollUnary, InPollUnary, Return, RecoverUnary, CloseUnary, InCloseUnary,
              ManagerClosed, managerVars
<1>5. CASE PollStream \/ InPollStream \/ RecoverStream \/ InCloseStream
  BY <1>5 DEF PollStream, InPollStream, RecoverStream, InCloseStream, Next, ThreadStep
<1>6. ASSUME NEW c \in Clients, NEW t \in Tags, StreamEvent(c, t) PROVE Next
  BY <1>6 DEF StreamEvent, Next, ThreadStep
<1>7. CASE ReturnFalse
  BY <1>7 DEF ReturnFalse, Next, ThreadStep
<1>8. CASE StreamGrpc
  <2>1. Grpc
    BY <1>8 DEF StreamGrpc, Send, Grpc
  <2> QED BY <1>8, <2>1 DEF StreamGrpc, GrpcStep, Next
<1> QED
  BY <1>1, <1>2, <1>3, <1>4, <1>5, <1>6, <1>7, <1>8
  DEF ManagerNext, ManagerThread, Application

\* The manager implements StreamPoll: every theorem of StreamPollProofs is one
\* of the manager too, with unary requests, recoveries and confirmations beside.
THEOREM StreamHalf == ManagerSpec => StreamSide
<1>1. ManagerInit => Init
  BY DEF ManagerInit
<1> QED BY <1>1, StreamStep, PTL DEF ManagerSpec, StreamSide, Spec

-----------------------------------------------------------------------------
(* The unary half.  UP is U with what UnaryPollProofs proves of it.         *)

UP == INSTANCE UnaryPollProofs WITH
        queueDown <- uDown, phase <- uPhase, callShutdown <- uCallShutdown,
        nextStatus <- uNextStatus, streamsFinished <- IsStreamFinished,
        Answered <- Calls

\* The constants of the manager are ones that UnaryPoll may have.
LEMMA UnaryConstants == UP!UnaryAssumption
BY ManagerAssumption, LoopAssumption DEF UP!UnaryAssumption

LEMMA FlagsAreBoolean ==
  /\ IsStreamFinished \in BOOLEAN
  /\ IsStreamFinished' = ~IsStreamFinished \/ UNCHANGED IsStreamFinished
BY DEF IsStreamFinished

\* Whatever the streams do while the unary side stands still is a step of its
\* environment, or none.
LEMMA StreamsMove ==
  ASSUME UNCHANGED unaryVars
  PROVE  [U!Next]_(U!vars)
<1>1. /\ UNCHANGED U!callVars /\ UNCHANGED U!queueVars /\ UNCHANGED U!pollVars
  BY DEF unaryVars, U!callVars, U!queueVars, U!pollVars
<1>2. CASE UNCHANGED IsStreamFinished
  BY <1>1, <1>2 DEF U!vars
<1>3. CASE IsStreamFinished' = ~IsStreamFinished
  BY <1>1, <1>3 DEF U!Next, U!StreamsChange
<1> QED BY <1>2, <1>3, FlagsAreBoolean

\* An update is taken: its confirmation is a request, and no stream finishes.
LEMMA ConfirmStep ==
  ASSUME NEW c \in Clients, NEW t \in Tags, StreamEvent(c, t)
  PROVE  [U!Next]_(U!vars)
<1>1. CASE t = "read" /\ tag[c][t] = "ok"
  <2>1. PICK k \in Confirmations : U!CallUnaryAsync(k)
    BY <1>1 DEF StreamEvent, Confirm
  <2>2. UNCHANGED IsStreamFinished
    BY <1>1 DEF StreamEvent, ProcessQueue, Callback, ProcessNext, ProcessEnd, flagVars,
                IsStreamFinished, Unfinished
  <2> QED BY <2>1, <2>2, ManagerAssumption DEF U!Next, U!UnaryStep
<1>2. CASE ~(t = "read" /\ tag[c][t] = "ok")
  BY <1>2, StreamsMove DEF StreamEvent
<1> QED BY <1>1, <1>2

LEMMA UnaryHalfStep == [ManagerNext]_managerVars => [U!Next]_(U!vars)
<1> SUFFICES ASSUME [ManagerNext]_managerVars PROVE [U!Next]_(U!vars)
  OBVIOUS
<1>0. UNCHANGED vars => UNCHANGED IsStreamFinished
  BY DEF vars, clientVars, flagVars, IsStreamFinished, Unfinished
<1>1. CASE UNCHANGED managerVars \/ ManagerClosed \/ Return
  BY <1>1, StreamsMove DEF managerVars, ManagerClosed, Return
<1>2. ASSUME NEW k \in Calls, Request(k) \/ UnaryGrpc(k) PROVE U!Next
  BY <1>0, <1>2 DEF Request, UnaryGrpc, U!Next, U!UnaryStep
<1>3. ASSUME NEW c \in UserFinishes, Unsubscribe(c) PROVE [U!Next]_(U!vars)
  BY <1>3, StreamsMove DEF Unsubscribe
<1>4. CASE PollUnary \/ InPollUnary \/ RecoverUnary \/ CloseUnary \/ InCloseUnary
  BY <1>0, <1>4 DEF PollUnary, InPollUnary, RecoverUnary, CloseUnary, InCloseUnary,
                    U!Next, U!UnaryStep, U!ThreadStep
<1>5. CASE PollStream \/ InPollStream \/ RecoverStream \/ InCloseStream \/ StreamGrpc
  BY <1>5, StreamsMove DEF PollStream, InPollStream, RecoverStream, InCloseStream, StreamGrpc
<1>6. ASSUME NEW c \in Clients, NEW t \in Tags, StreamEvent(c, t) PROVE [U!Next]_(U!vars)
  BY <1>6, ConfirmStep
<1>7. CASE ReturnFalse
  <2>1. UNCHANGED IsStreamFinished
    BY <1>0, <1>7 DEF ReturnFalse, Unrecoverable, clientVars, flagVars, IsStreamFinished,
                      Unfinished
  <2>2. CASE uPhase = "done"
    BY <1>7, <2>1, <2>2 DEF ReturnFalse, U!Next, U!UnaryStep, U!ThreadStep
  <2>3. CASE uPhase # "done"
    BY <1>7, <2>3, StreamsMove DEF ReturnFalse
  <2> QED BY <2>2, <2>3
<1> QED
  BY <1>1, <1>2, <1>3, <1>4, <1>5, <1>6, <1>7
  DEF ManagerNext, ManagerThread, Application

\* The manager implements UnaryPoll: PollStream makes no request, and changes
\* no stream, that UnaryPoll does not allow for.
THEOREM UnaryHalf == ManagerSpec => UnarySide
<1>1. ManagerInit => U!Init
  BY DEF ManagerInit
<1> QED BY <1>1, UnaryHalfStep, PTL DEF ManagerSpec, UnarySide, U!Spec

\* U and UP are one module under the same substitution.
LEMMA SameUnaryStep == [U!Next]_(U!vars) => [UP!Next]_(UP!vars)
<1>1. UNCHANGED U!vars => UNCHANGED UP!vars
  BY DEF U!vars, UP!vars, U!callVars, UP!callVars, U!queueVars, UP!queueVars,
         U!pollVars, UP!pollVars
<1>2. U!Next => UP!Next
  BY DEF
    U!Next, U!UnaryStep, U!StreamsChange, U!ThreadStep, U!StartPoll, U!ProcessQueue,
    U!EndPoll, U!IssueShutdown, U!EndRound, U!Recover, U!Unrecoverable, U!Destroy,
    U!CloseDrop, U!EndClose, U!Closed, U!CallUnaryAsync, U!Complete, U!LocalsGone,
    U!callVars, U!queueVars, U!pollVars, U!OnQueue, U!Ready, U!Outstanding,
    U!NothingReady, U!Drained, U!QueueStatus, U!KeepsDraining, U!AfterRound,
    U!SubmitQueue, U!Unmade, U!CallbackRequests, U!Requested, U!Enqueue,
    UP!Next, UP!UnaryStep, UP!StreamsChange, UP!ThreadStep, UP!StartPoll, UP!ProcessQueue,
    UP!EndPoll, UP!IssueShutdown, UP!EndRound, UP!Recover, UP!Unrecoverable, UP!Destroy,
    UP!CloseDrop, UP!EndClose, UP!Closed, UP!CallUnaryAsync, UP!Complete, UP!LocalsGone,
    UP!callVars, UP!queueVars, UP!pollVars, UP!OnQueue, UP!Ready, UP!Outstanding,
    UP!NothingReady, UP!Drained, UP!QueueStatus, UP!KeepsDraining, UP!AfterRound,
    UP!SubmitQueue, UP!Unmade, UP!CallbackRequests, UP!Requested, UP!Enqueue
<1> QED BY <1>1, <1>2

LEMMA UnaryIsUP == U!Spec => UP!Spec
<1>1. U!Init => UP!Init
  BY DEF U!Init, UP!Init
<1> QED BY <1>1, SameUnaryStep, PTL DEF U!Spec, UP!Spec

\* What UnaryPollProofs proves of the unary side holds of the manager's: its
\* types, tags deleted once, no call lost by a recovery or left on an old queue.
THEOREM UnaryGuarantees ==
  ManagerSpec => [](U!TypeOK /\ U!FreedWhenTaken /\ U!NoCallLost /\ U!OnPolledQueue)
<1>1. /\ UP!TypeOK => U!TypeOK
      /\ UP!FreedWhenTaken => U!FreedWhenTaken
  BY DEF UP!TypeOK, U!TypeOK, UP!CallStatus, U!CallStatus, UP!Phases, U!Phases,
         UP!FreedWhenTaken, U!FreedWhenTaken
<1>2. /\ UP!NoCallLost => U!NoCallLost
      /\ UP!OnPolledQueue => U!OnPolledQueue
  BY DEF UP!NoCallLost, U!NoCallLost, UP!OnPolledQueue, U!OnPolledQueue,
         UP!Outstanding, U!Outstanding, UP!OnQueue, U!OnQueue
<1> QED
  BY <1>1, <1>2, UnaryHalf, UnaryIsUP, UnaryConstants, UP!TypeCorrect, UP!TagsFreedOnce,
     UP!NothingLost, UP!AlwaysPolled, PTL
  DEF UnarySide

-----------------------------------------------------------------------------
(* What takes both halves: the manager's own inductive invariant.          *)

\* A loop that ends has seen the streams finished.
LEMMA LoopAwaitsStreams ==
  ASSUME U!IssueShutdown \/ U!EndRound, ErrorLoopMax >= 1, uPhase' = "done"
  PROVE  IsStreamFinished
BY LoopAssumption DEF U!IssueShutdown, U!EndRound, U!AfterRound, U!KeepsDraining

\* Confirmed updates stay confirmed, and only the recovery of the streams makes
\* a client unfinished again.
LEMMA ClientsGrow ==
  ASSUME [Next]_vars
  PROVE  /\ confirmed \subseteq confirmed'
         /\ Recover \/ finishResponded \subseteq finishResponded'
<1> USE DEF flagVars, updateVars, clientVars
<1>1. ASSUME NEW c \in Clients, NEW t \in Tags, Callback(c, t)
      PROVE  confirmed \subseteq confirmed' /\ finishResponded \subseteq finishResponded'
  BY <1>1 DEF Callback, StartCallback, InitMetadataCallback, FinishCallback, ProcessEnd,
              ProcessNext
<1>2. ASSUME NEW cs \in SUBSET Clients, Finish(cs)
      PROVE  confirmed \subseteq confirmed' /\ finishResponded \subseteq finishResponded'
  BY <1>2 DEF Finish
<1>3. ASSUME Grpc
      PROVE  confirmed \subseteq confirmed' /\ finishResponded \subseteq finishResponded'
  BY <1>3 DEF Grpc, Break, Complete, Push
<1>4. CASE GrpcStep \/ \E c \in UserFinishes : UserFinish(c)
  BY <1>2, <1>3, <1>4, LoopAssumption DEF GrpcStep, UserFinish
<1>5. ASSUME NEW c \in Clients, NEW t \in Tags, ProcessQueue(c, t) \/ CloseDrop(c, t)
      PROVE  confirmed \subseteq confirmed' /\ finishResponded \subseteq finishResponded'
  BY <1>1, <1>5 DEF ProcessQueue, CloseDrop, DropEvent
<1>6. CASE IssueFinish \/ IssueCancel \/ CloseFinish \/ CloseCancel
  BY <1>2, <1>6 DEF IssueFinish, IssueCancel, CloseFinish, CloseCancel, FinishStream
<1>7. CASE Recover
  BY <1>7 DEF Recover, Reinitialize
<1>8. CASE StartPoll \/ EndPoll \/ IssueShutdown \/ EndRound \/ Unrecoverable \/ Destroy
           \/ CloseShutdown \/ EndClose \/ Closed \/ UNCHANGED vars
  BY <1>8 DEF StartPoll, EndPoll, IssueShutdown, ShutdownQueue, EndRound, Unrecoverable,
              Destroy, CloseShutdown, EndClose, Closed, vars
<1> QED
  BY <1>4, <1>5, <1>6, <1>7, <1>8 DEF Next, ThreadStep

\* In the manager, that recovery is RecoverStream.
LEMMA RecoverIsRecoverStream ==
  ASSUME [ManagerNext]_managerVars, Recover
  PROVE  RecoverStream
<1>1. phase = "done" /\ phase' = "idle"
  BY DEF Recover
<1>2. phase' # phase
  BY <1>1
<1> QED
  BY <1>1, <1>2
  DEF ManagerNext, ManagerThread, Application, managerVars, vars, pollVars, Request, Unsubscribe,
      UserFinish, PollUnary, InPollUnary, PollStream, StartPoll, StreamEvent, ProcessQueue,
      InPollStream, EndPoll, IssueFinish, IssueShutdown, EndRound, IssueCancel, Return,
      RecoverUnary, ReturnFalse, Unrecoverable, CloseUnary, InCloseUnary, InCloseStream,
      Destroy, CloseFinish, CloseCancel, CloseShutdown, CloseDrop, EndClose, StreamGrpc,
      UnaryGrpc, ManagerClosed

\* Streams that were finished when the unary loop ended are so until its queue
\* is rebuilt: PollStream only finishes more of them.
LEMMA AwaitsStep ==
  RecoveryAwaitsStreams /\ ReinitIsIdle /\ [ManagerNext]_managerVars
    => RecoveryAwaitsStreams'
<1> SUFFICES ASSUME RecoveryAwaitsStreams, ReinitIsIdle, [ManagerNext]_managerVars,
                    ErrorLoopMax >= 1, uPhase' = "done"
             PROVE  IsStreamFinished'
  BY DEF RecoveryAwaitsStreams
<1>1. CASE uPhase = "done"
  <2>1. ~RecoverStream
    BY <1>1 DEF ReinitIsIdle, RecoverStream
  <2>2. finishResponded \subseteq finishResponded'
    BY <2>1, StreamStep, ClientsGrow, RecoverIsRecoverStream
  <2> QED BY <1>1, <2>2 DEF RecoveryAwaitsStreams, IsStreamFinished, Unfinished
<1>2. CASE uPhase # "done"
  <2>1. InPollUnary /\ (U!IssueShutdown \/ U!EndRound)
    BY <1>2
    DEF ManagerNext, ManagerThread, Application, managerVars, unaryVars, Request, Unsubscribe,
        PollUnary, InPollUnary, PollStream, StreamEvent, Confirm, InPollStream, Return,
        RecoverUnary, RecoverStream, ReturnFalse, CloseUnary, InCloseUnary, InCloseStream,
        StreamGrpc, UnaryGrpc, ManagerClosed, U!StartPoll, U!EndPoll, U!ProcessQueue,
        U!CallUnaryAsync, U!Recover, U!Unrecoverable, U!Destroy, U!EndClose, U!CloseDrop,
        U!Complete, U!pollVars
  <2>2. IsStreamFinished
    BY <2>1, LoopAwaitsStreams
  <2> QED BY <2>1, <2>2
      DEF InPollUnary, vars, clientVars, flagVars, IsStreamFinished, Unfinished
<1> QED BY <1>1, <1>2

LEMMA ReinitStep == ReinitIsIdle /\ [ManagerNext]_managerVars => ReinitIsIdle'
BY DEF ReinitIsIdle, ManagerNext, ManagerThread, Application, managerVars, unaryVars, Request,
       Unsubscribe, PollUnary, InPollUnary, PollStream, StreamEvent, Confirm, InPollStream,
       Return, RecoverUnary, RecoverStream, ReturnFalse, CloseUnary, InCloseUnary,
       InCloseStream, StreamGrpc, UnaryGrpc, ManagerClosed, U!Recover, U!CallUnaryAsync,
       U!Complete, U!pollVars

\* An update given to the application is made the object of one request.
LEMMA ConfirmGiven ==
  ASSUME TypeOK, ReadsAreUpdates, U!TypeOK, EngineTypes, ConfirmsGiven,
         NEW c \in Clients, tag[c]["read"] = "ok", ProcessQueue(c, "read"), Confirm(c),
         at' \in Places
  PROVE  EngineTypes' /\ ConfirmsGiven'
<1>1. <<c, updateResponse[c]>> \in Notices
  BY DEF ReadsAreUpdates, Notices
<1>2. confirmed' = confirmed \cup {<<c, updateResponse[c]>>}
  BY DEF ProcessQueue, Callback, ProcessNext, ProcessEnd
<1>3. PICK k \in Confirmations :
        /\ U!CallUnaryAsync(k)
        /\ confirmOf' = [confirmOf EXCEPT ![k] = <<c, updateResponse[c]>>]
        /\ UNCHANGED acked
  BY DEF Confirm
<1>4. \A j \in Confirmations \ {k} : call'[j] = call[j]
  BY <1>3, ManagerAssumption DEF U!TypeOK, U!CallUnaryAsync, U!Requested
<1>5. ConfirmsGiven'
  <2> SUFFICES ASSUME NEW j \in Confirmations, call'[j] # "unmade"
               PROVE  confirmOf'[j] \in confirmed'
    BY DEF ConfirmsGiven
  <2>1. CASE j = k
    BY <1>2, <1>3, <2>1 DEF EngineTypes
  <2>2. CASE j # k
    BY <1>2, <1>3, <1>4, <2>2 DEF EngineTypes, ConfirmsGiven
  <2> QED BY <2>1, <2>2
<1>6. at' \in Places => EngineTypes'
  BY <1>1, <1>3 DEF EngineTypes
<1> QED BY <1>5, <1>6

\* No other step makes a confirmation.
LEMMA NoConfirmation ==
  ASSUME U!TypeOK, NEW k \in Confirmations, call[k] = "unmade",
         [ManagerNext]_managerVars, \A c \in Clients : ~StreamEvent(c, "read")
  PROVE  call'[k] = "unmade"
<1>1. ASSUME NEW j \in Calls \ Confirmations, U!CallUnaryAsync(j) PROVE call'[k] = "unmade"
  BY <1>1, ManagerAssumption DEF U!TypeOK, U!CallUnaryAsync, U!Requested
<1>2. ASSUME NEW j \in Calls, U!ProcessQueue(j) PROVE call'[k] = "unmade"
  <2>1. PICK ks \in U!CallbackRequests :
          call' = U!Requested([call EXCEPT ![j] = "taken"], ks)
    BY <1>2 DEF U!ProcessQueue
  <2>2. k \notin ks /\ k \in Calls
    BY ManagerAssumption DEF U!CallbackRequests
  <2>3. j # k
    BY <1>2 DEF U!ProcessQueue, U!Ready
  <2> QED BY <2>1, <2>2, <2>3 DEF U!Requested, U!TypeOK
<1>3. ASSUME NEW j \in Calls, U!Complete(j) PROVE call'[k] = "unmade"
  BY <1>3 DEF U!Complete, U!TypeOK
<1>4. ASSUME NEW j \in Calls, U!CloseDrop(j) PROVE call'[k] = "unmade"
  BY <1>4 DEF U!CloseDrop, U!Ready, U!TypeOK
<1>5. CASE UNCHANGED call
  BY <1>5
<1> QED
  BY <1>1, <1>2, <1>3, <1>4, <1>5
  DEF ManagerNext, ManagerThread, Application, managerVars, unaryVars, Request, Unsubscribe,
      PollUnary, InPollUnary, PollStream, StreamEvent, InPollStream, Return, RecoverUnary,
      RecoverStream, ReturnFalse, CloseUnary, InCloseUnary, InCloseStream, StreamGrpc,
      UnaryGrpc, ManagerClosed, U!callVars, U!StartPoll, U!EndPoll, U!IssueShutdown,
      U!EndRound, U!Recover, U!Unrecoverable, U!Destroy, U!EndClose, Tags

LEMMA GivenStep ==
  TypeOK /\ IInv /\ U!TypeOK /\ EngineTypes /\ ConfirmsGiven /\ [ManagerNext]_managerVars
    => EngineTypes' /\ ConfirmsGiven'
<1> SUFFICES ASSUME TypeOK, IInv, U!TypeOK, EngineTypes, ConfirmsGiven,
                    [ManagerNext]_managerVars
             PROVE  EngineTypes' /\ ConfirmsGiven'
  OBVIOUS
<1>1. ReadsAreUpdates /\ ConfirmedWasRead /\ confirmed \subseteq confirmed'
  BY StreamStep, ClientsGrow DEF IInv, ClientInv
<1>2. ASSUME NEW c \in Clients, StreamEvent(c, "read"), tag[c]["read"] = "ok"
      PROVE  EngineTypes' /\ ConfirmsGiven'
  <2>1. at' \in Places /\ ProcessQueue(c, "read") /\ Confirm(c)
    BY <1>2 DEF StreamEvent, EngineTypes
  <2> QED BY <1>1, <1>2, <2>1, ConfirmGiven
<1>3. CASE \A c \in Clients : ~(StreamEvent(c, "read") /\ tag[c]["read"] = "ok")
  <2>1. at' \in Places /\ UNCHANGED confirmOf
    BY <1>3 DEF ManagerNext, ManagerThread, Application, managerVars, engineVars, EngineTypes,
      Places, Request, Unsubscribe, PollUnary, InPollUnary, PollStream, StreamEvent,
      InPollStream, Return, RecoverUnary, RecoverStream, ReturnFalse, CloseUnary,
      InCloseUnary, InCloseStream, StreamGrpc, UnaryGrpc, ManagerClosed
  <2>2. \A k \in Confirmations : call[k] = "unmade" => call'[k] = "unmade"
    BY <1>3, NoConfirmation DEF StreamEvent, unaryVars
  <2>3. ConfirmsGiven'
    BY <1>1, <2>1, <2>2 DEF ConfirmsGiven
  <2>4. ASSUME NEW k \in Calls, UnaryGrpc(k) PROVE acked' \subseteq Notices
    <3>1. k \in Confirmations => confirmOf[k] \in confirmed
      BY <2>4 DEF UnaryGrpc, U!Complete, ConfirmsGiven
    <3>2. confirmed \subseteq Notices
      BY <1>1 DEF ConfirmedWasRead, Notices
    <3> QED BY <2>4, <3>1, <3>2 DEF UnaryGrpc, EngineTypes
  <2>5. ASSUME UNCHANGED acked PROVE acked' \subseteq Notices
    BY <2>5 DEF EngineTypes
  <2>6. acked' \subseteq Notices
    BY <1>3, <2>4, <2>5 DEF ManagerNext, ManagerThread, Application, managerVars, engineVars,
      EngineTypes, Request, Unsubscribe, PollUnary, InPollUnary, PollStream, StreamEvent,
      InPollStream, Return, RecoverUnary, RecoverStream, ReturnFalse, CloseUnary,
      InCloseUnary, InCloseStream, StreamGrpc, ManagerClosed
  <2> QED BY <2>1, <2>3, <2>6 DEF EngineTypes
<1> QED BY <1>2, <1>3

\* The two halves' theorems, in the manager.
THEOREM StreamGuarantees == ManagerSpec => [](TypeOK /\ IInv /\ RecoveryKeepsUpdates)
BY StreamHalf, TypeCorrect, Invariance, NothingDropped, PTL DEF StreamSide

\* A unary recovery replaces the queue only while no stream is subscribed and
\* unfinished, for any errorLoopMax but 0.
THEOREM AwaitsStreams == ManagerSpec => []RecoveryAwaitsStreams
<1>1. ManagerInit => RecoveryAwaitsStreams /\ ReinitIsIdle
  BY DEF ManagerInit, U!Init, RecoveryAwaitsStreams, ReinitIsIdle
<1> QED BY <1>1, AwaitsStep, ReinitStep, PTL DEF ManagerSpec

LEMMA EngineInvariance == ManagerSpec => [](EngineTypes /\ ConfirmsGiven)
<1>1. ManagerInit => EngineTypes /\ ConfirmsGiven
  BY ManagerAssumption DEF ManagerInit, U!Init, EngineTypes, ConfirmsGiven, Places
<1> QED BY <1>1, GivenStep, StreamGuarantees, UnaryGuarantees, PTL DEF ManagerSpec

\* The manager's types: a confirmation names an update of a client, and nothing
\* else ever reaches the engine.
THEOREM ManagerTypes == ManagerSpec => []ManagerTypeOK
<1>1. TypeOK /\ U!TypeOK /\ EngineTypes => ManagerTypeOK
  BY DEF ManagerTypeOK
<1> QED BY <1>1, StreamGuarantees, UnaryGuarantees, EngineInvariance, PTL

-----------------------------------------------------------------------------
(* The manager implements StreamFeed.                                      *)

\* How the reads of the clients may change: the buffered updates with them.
LEMMA SameReads ==
  ASSUME UNCHANGED updateResponse,
         \A c \in Clients : tag'[c]["read"] = "ok" <=> tag[c]["read"] = "ok"
  PROVE  Buffered' = Buffered
BY DEF Buffered

\* An update comes.
LEMMA SendReceives ==
  ASSUME TypeOK, NEW c \in Clients, NEW u \in Updates, Send(c, u)
  PROVE  Buffered' = Buffered \cup {<<c, u>>}
<1>1. /\ tag[c]["read"] # "ok" /\ tag'[c]["read"] = "ok" /\ updateResponse'[c] = u
      /\ \A d \in Clients \ {c} : tag'[d] = tag[d] /\ updateResponse'[d] = updateResponse[d]
  BY DEF Send, Push, TypeOK, ClientTypeOK, Tags
<1> QED BY <1>1 DEF Buffered

\* A read is taken, by the callback or by the destructor.
LEMMA TakenRead ==
  ASSUME TypeOK, NEW c \in Clients, tag[c]["read"] = "ok", NEW status, status # "ok",
         tag' = [tag EXCEPT ![c]["read"] = status], UNCHANGED updateResponse
  PROVE  Buffered' = Buffered \ {<<c, updateResponse[c]>>}
<1>1. /\ tag'[c]["read"] # "ok"
      /\ \A d \in Clients \ {c} : tag'[d] = tag[d]
  BY DEF TypeOK, ClientTypeOK, Tags
<1> QED BY <1>1 DEF Buffered

\* Asking a stream to finish, and gRPC giving a tag back, take no read.
LEMMA FinishSameReads ==
  ASSUME TypeOK, NEW cs \in SUBSET Clients, Finish(cs)
  PROVE  Buffered' = Buffered /\ UNCHANGED confirmed
BY FinishKeeps, SameReads DEF Finish, updateVars, TypeOK

LEMMA QuietStream ==
  ASSUME TypeOK,
         \/ UNCHANGED clientVars
         \/ ShutdownQueue
         \/ \E cs \in SUBSET Clients : Finish(cs)
         \/ \E c \in Clients : Break(c)
         \/ \E c \in Clients, t \in Tags, status \in {"ok", "failed"} : Complete(c, t, status)
  PROVE  Buffered' = Buffered /\ UNCHANGED confirmed
<1> USE DEF updateVars
<1>1. CASE UNCHANGED clientVars \/ ShutdownQueue \/ \E c \in Clients : Break(c)
  BY <1>1, SameReads DEF clientVars, ShutdownQueue, Break
<1>2. ASSUME NEW c \in Clients, NEW t \in Tags, NEW status \in {"ok", "failed"},
             Complete(c, t, status)
      PROVE  Buffered' = Buffered /\ UNCHANGED confirmed
  BY <1>2, SameReads DEF Complete, Completes, TypeOK, ClientTypeOK, Tags
<1> QED BY <1>1, <1>2, FinishSameReads

\* A read that is taken while its stream is polled is given to the application.
LEMMA EventGives ==
  ASSUME TypeOK, IInv, NEW c \in Clients, NEW t \in Tags, StreamEvent(c, t)
  PROVE  [Feed!Next]_(Feed!vars)
<1> USE DEF updateVars, flagVars
<1>0. at = "stream" /\ UNCHANGED at /\ Callback(c, t) /\ UNCHANGED acked
  BY DEF StreamEvent, ProcessQueue, Confirm, engineVars
<1>1. CASE t = "read" /\ tag[c][t] = "ok"
  <2>1. ProcessNext(c)
    BY <1>0, <1>1 DEF Callback, ProcessEnd
  <2>2. Buffered' = Buffered \ {<<c, updateResponse[c]>>}
    BY <1>1, <2>1, TakenRead DEF ProcessNext
  <2>3. <<c, updateResponse[c]>> \in Notices /\ <<c, updateResponse[c]>> \in Buffered
    BY <1>1 DEF IInv, ClientInv, ReadsAreUpdates, Notices, Buffered
  <2>4. confirmed' = confirmed \cup {<<c, updateResponse[c]>>}
    BY <2>1 DEF ProcessNext
  <2>5. Feed!Give(<<c, updateResponse[c]>>)
    BY <1>0, <2>2, <2>3, <2>4 DEF Feed!Give
  <2> QED BY <2>3, <2>5 DEF Feed!Next
<1>2. CASE ~(t = "read" /\ tag[c][t] = "ok")
  <2>1. /\ UNCHANGED <<updateResponse, confirmed>>
        /\ \A d \in Clients : tag'[d]["read"] = "ok" <=> tag[d]["read"] = "ok"
    BY <1>0, <1>2
    DEF Callback, StartCallback, InitMetadataCallback, FinishCallback, ProcessEnd,
        ProcessNext, TypeOK, ClientTypeOK, Tags
  <2> QED BY <1>0, <2>1, SameReads DEF Feed!vars
<1> QED BY <1>1, <1>2

\* The destructor loses what it takes; nothing else of it is visible.
LEMMA CloseLoses ==
  ASSUME TypeOK, IInv, InCloseStream
  PROVE  [Feed!Next]_(Feed!vars)
<1> USE DEF updateVars, flagVars
<1>0. at = "closing" /\ UNCHANGED at /\ UNCHANGED acked
  BY DEF InCloseStream, engineVars
<1>1. ASSUME NEW c \in Clients, NEW t \in Tags, CloseDrop(c, t)
      PROVE  [Feed!Next]_(Feed!vars)
  <2>1. CASE t = "read" /\ tag[c][t] = "ok"
    <3>1. Buffered' = Buffered \ {<<c, updateResponse[c]>>}
      BY <1>1, <2>1, TakenRead DEF CloseDrop, DropEvent
    <3>2. <<c, updateResponse[c]>> \in Notices
      BY <2>1 DEF IInv, ClientInv, ReadsAreUpdates, Notices
    <3>3. Feed!Lose(<<c, updateResponse[c]>>)
      BY <1>0, <1>1, <3>1 DEF Feed!Lose, CloseDrop, DropEvent
    <3> QED BY <3>2, <3>3 DEF Feed!Next
  <2>2. CASE ~(t = "read" /\ tag[c][t] = "ok")
    <3>1. /\ UNCHANGED <<updateResponse, confirmed>>
          /\ \A d \in Clients : tag'[d]["read"] = "ok" <=> tag[d]["read"] = "ok"
      BY <1>1, <2>2 DEF CloseDrop, DropEvent, TypeOK, ClientTypeOK, Tags
    <3> QED BY <1>0, <3>1, SameReads DEF Feed!vars
  <2> QED BY <2>1, <2>2
<1>2. CASE ~\E c \in Clients, t \in Tags : CloseDrop(c, t)
  <2>1. UNCHANGED clientVars \/ ShutdownQueue \/ Finish(Clients)
    BY <1>2 DEF InCloseStream, Destroy, CloseFinish, CloseCancel, CloseShutdown, EndClose,
                FinishStream
  <2> QED BY <1>0, <2>1, QuietStream DEF Feed!vars
<1> QED BY <1>1, <1>2

LEMMA FeedStep ==
  ASSUME ErrorLoopMax >= 2, TypeOK, IInv, RecoveryKeepsUpdates, EngineTypes, ConfirmsGiven,
         [ManagerNext]_managerVars
  PROVE  [Feed!Next]_(Feed!vars)
<1>0. UNCHANGED vars => Buffered' = Buffered /\ UNCHANGED confirmed
  BY DEF vars, clientVars, updateVars, Buffered
<1>1. CASE \/ InPollUnary \/ PollUnary \/ Return \/ RecoverUnary \/ InCloseUnary
           \/ ManagerClosed \/ UNCHANGED managerVars
           \/ \E k \in Calls \ Confirmations : Request(k)
  <2>1. /\ UNCHANGED vars /\ UNCHANGED acked
        /\ at \notin {"dead", "closing"} <=> at' \notin {"dead", "closing"}
    BY <1>1 DEF InPollUnary, PollUnary, Return, Returned, RecoverUnary, InCloseUnary,
                ManagerClosed, managerVars, engineVars, Request
  <2> QED BY <1>0, <2>1 DEF Feed!vars
<1>2. CASE PollStream \/ InPollStream \/ \E c \in UserFinishes : Unsubscribe(c)
  <2>1. \/ UNCHANGED clientVars
        \/ ShutdownQueue
        \/ \E cs \in SUBSET Clients : Finish(cs)
    BY <1>2, LoopAssumption
    DEF PollStream, StartPoll, InPollStream, EndPoll, IssueFinish, IssueShutdown, EndRound,
        IssueCancel, FinishStream, Unsubscribe, UserFinish
  <2>2. /\ UNCHANGED acked
        /\ at \notin {"dead", "closing"} <=> at' \notin {"dead", "closing"}
    BY <1>2 DEF PollStream, InPollStream, Unsubscribe, engineVars
  <2> QED BY <2>1, <2>2, QuietStream DEF Feed!vars
<1>3. CASE RecoverStream
  <2>1. Buffered = {}
    BY <1>3 DEF RecoverStream, Recover, RecoveryKeepsUpdates, Buffered
  <2>2. Buffered' = {} /\ UNCHANGED confirmed
    BY <1>3 DEF RecoverStream, Recover, Reinitialize, FreshTag, Buffered, Tags
  <2> QED BY <1>3, <2>1, <2>2 DEF RecoverStream, Returned, engineVars, Feed!vars
<1>4. CASE ReturnFalse \/ CloseUnary
  <2>1. UNCHANGED clientVars /\ UNCHANGED acked /\ at' \in {"dead", "closing"}
    BY <1>4 DEF ReturnFalse, CloseUnary, Unrecoverable, vars, engineVars
  <2>2. Buffered' = Buffered /\ UNCHANGED confirmed
    BY <2>1, QuietStream
  <2> QED BY <2>1, <2>2 DEF Feed!Next, Feed!Discard
<1>5. CASE StreamGrpc
  <2>1. UNCHANGED acked /\ UNCHANGED at
    BY <1>5 DEF StreamGrpc, engineVars
  <2>2. ASSUME NEW c \in Clients, NEW u \in Updates, Send(c, u) PROVE Feed!Next
    <3>1. Buffered' = Buffered \cup {<<c, u>>}
      BY <2>2, SendReceives
    <3>2. <<c, u>> \in Notices /\ <<c, u>> \notin acked /\ UNCHANGED confirmed
      BY <2>2 DEF Send, Push, Notices
    <3> QED BY <2>1, <3>1, <3>2 DEF Feed!Next, Feed!Receive
  <2>3. CASE ~\E c \in Clients, u \in Updates : Send(c, u)
    <3>1. Buffered' = Buffered /\ UNCHANGED confirmed
      BY <1>5, <2>3, QuietStream DEF StreamGrpc
    <3> QED BY <2>1, <3>1 DEF Feed!vars
  <2> QED BY <2>2, <2>3
<1>6. ASSUME NEW k \in Calls, UnaryGrpc(k) PROVE [Feed!Next]_(Feed!vars)
  <2>1. UNCHANGED vars /\ UNCHANGED at /\ call[k] = "submitted"
    BY <1>6 DEF UnaryGrpc, U!Complete
  <2>2. CASE UNCHANGED acked
    BY <1>0, <2>1, <2>2 DEF Feed!vars
  <2>3. CASE k \in Confirmations /\ acked' = acked \cup {confirmOf[k]}
    <3>1. confirmOf[k] \in confirmed /\ confirmOf[k] \in Notices
      BY <2>1, <2>3 DEF ConfirmsGiven, IInv, ClientInv, ConfirmedWasRead, Notices
    <3> QED BY <1>0, <2>1, <2>3, <3>1 DEF Feed!Next, Feed!Acknowledge
  <2> QED BY <1>6, <2>2, <2>3 DEF UnaryGrpc
<1> QED
  BY <1>1, <1>2, <1>3, <1>4, <1>5, <1>6, EventGives, CloseLoses
  DEF ManagerNext, ManagerThread, Application

\* For errorLoopMax of at least 2, no update that reached the manager is lost to
\* the application, and none is acknowledged before the application has it.
THEOREM FeedRefinement == ASSUME ErrorLoopMax >= 2 PROVE ManagerSpec => UpdatesKept
<1>1. ManagerInit => Feed!Init
  BY DEF ManagerInit, Init, ClientInit, FreshTag, Tags, Buffered, Feed!Init
<1>2. /\ TypeOK /\ IInv /\ RecoveryKeepsUpdates /\ EngineTypes /\ ConfirmsGiven
      /\ [ManagerNext]_managerVars
      => [Feed!Next]_(Feed!vars)
  BY FeedStep
<1> QED
  BY <1>1, <1>2, StreamGuarantees, EngineInvariance, PTL
  DEF ManagerSpec, UpdatesKept, Feed!Spec

=============================================================================
