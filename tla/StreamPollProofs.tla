-------------------------- MODULE StreamPollProofs --------------------------
(***************************************************************************)
(* What StreamPoll's runs check on two streams, for any set of clients, of *)
(* updates and any errorLoopMax.                                           *)
(***************************************************************************)
EXTENDS StreamPoll, TLAPS

-----------------------------------------------------------------------------
(* Type correctness.                                                       *)

\* The callbacks leave the clients' variables in their types.
LEMMA CallbackType ==
  ASSUME ClientTypeOK, NEW c \in Clients, NEW t \in Tags, Callback(c, t)
  PROVE  ClientTypeOK'
<1>1. CASE StartCallback(c)
  BY <1>1 DEF StartCallback, ClientTypeOK, Tags, TagStatus, updateVars
<1>2. CASE InitMetadataCallback(c)
  BY <1>2 DEF InitMetadataCallback, ClientTypeOK, Tags, TagStatus, updateVars
<1>3. CASE FinishCallback(c)
  BY <1>3 DEF FinishCallback, ClientTypeOK, Tags, TagStatus, updateVars
<1>4. CASE ProcessEnd(c)
  BY <1>4 DEF ProcessEnd, ClientTypeOK, Tags, TagStatus, updateVars, flagVars
<1>5. CASE ProcessNext(c)
  BY <1>5 DEF ProcessNext, ClientTypeOK, Tags, TagStatus, flagVars
<1> QED BY <1>1, <1>2, <1>3, <1>4, <1>5 DEF Callback

LEMMA FinishType ==
  ASSUME ClientTypeOK, NEW cs \in SUBSET Clients, Finish(cs)
  PROVE  ClientTypeOK'
BY DEF Finish, Cancelling, Unfinished, ClientTypeOK, Tags, TagStatus, updateVars

LEMMA FinishStreamType ==
  ASSUME ClientTypeOK, FinishStream
  PROVE  ClientTypeOK'
BY FinishType DEF FinishStream

LEMMA ReinitializeType ==
  ASSUME ClientTypeOK, Reinitialize
  PROVE  ClientTypeOK'
BY ClientAssumption DEF Reinitialize, ClientTypeOK, FreshTag, Tags, TagStatus

LEMMA GrpcType ==
  ASSUME ClientTypeOK, Grpc
  PROVE  ClientTypeOK'
<1>1. ASSUME NEW c \in Clients, Break(c) PROVE ClientTypeOK'
  BY <1>1 DEF Break, ClientTypeOK, flagVars, updateVars
<1>2. ASSUME NEW c \in Clients, NEW t \in Tags, NEW status \in {"ok", "failed"},
             Complete(c, t, status)
      PROVE  ClientTypeOK'
  BY <1>2 DEF Complete, ClientTypeOK, Tags, TagStatus, flagVars, updateVars
<1>3. ASSUME NEW c \in Clients, NEW u \in Updates, Push(c, u) PROVE ClientTypeOK'
  BY <1>3 DEF Push, ClientTypeOK, Tags, TagStatus, flagVars
<1> QED BY <1>1, <1>2, <1>3 DEF Grpc

LEMMA ZeroRounds == 0 \in 0..ErrorLoopMax
BY LoopAssumption

\* RoundsLeft is what keeps pollCount in range.
TypeInv == TypeOK /\ RoundsLeft

LEMMA TypeInit == Init => TypeInv
<1> SUFFICES ASSUME Init PROVE TypeInv
  OBVIOUS
<1>1. ClientTypeOK
  BY ClientAssumption DEF Init, ClientInit, ClientTypeOK, FreshTag, Tags, TagStatus
<1> QED BY <1>1, ZeroRounds DEF Init, TypeInv, TypeOK, RoundsLeft, Phases

LEMMA AfterRoundPhase ==
  ASSUME NEW status, NEW finished, NEW count,
         phase' = AfterRound(status, finished, count), pollCount' = count
  PROVE  phase' \in {"drain", "done"} /\ RoundsLeft'
BY DEF AfterRound, KeepsDraining, RoundsLeft

LEMMA TypeStep == TypeInv /\ [Next]_vars => TypeInv'
<1> SUFFICES ASSUME TypeOK, RoundsLeft, [Next]_vars PROVE TypeOK' /\ RoundsLeft'
  BY DEF TypeInv
<1> USE DEF Phases, RoundsLeft
<1>1. CASE StartPoll
  BY <1>1, ZeroRounds DEF StartPoll, LocalsGone, TypeOK, ClientTypeOK, clientVars, flagVars, updateVars
<1>2. ASSUME NEW c \in Clients, NEW t \in Tags, ProcessQueue(c, t)
      PROVE  TypeOK' /\ RoundsLeft'
  <2>1. ClientTypeOK'
    BY <1>2, CallbackType DEF ProcessQueue, TypeOK
  <2> QED BY <1>2, <2>1 DEF ProcessQueue, TypeOK
<1>3. CASE EndPoll
  BY <1>3 DEF EndPoll, QueueStatus, TypeOK, ClientTypeOK, clientVars, flagVars, updateVars
<1>4. CASE IssueFinish
  BY <1>4, FinishStreamType DEF IssueFinish, TypeOK
<1>5. CASE IssueShutdown
  BY <1>5, ZeroRounds DEF IssueShutdown, ShutdownQueue, AfterRound, KeepsDraining, QueueStatus,
              TypeOK, ClientTypeOK, flagVars, updateVars
<1>6. CASE EndRound
  <2>1. ClientTypeOK' /\ callShutdown' \in BOOLEAN /\ nextStatus' \in {"TIMEOUT", "SHUTDOWN"}
    BY <1>6 DEF EndRound, QueueStatus, TypeOK, ClientTypeOK, clientVars, flagVars, updateVars
  <2>2. pollCount' \in 0..ErrorLoopMax
    BY <1>6, LoopAssumption DEF EndRound, TypeOK
  <2>3. phase' \in {"drain", "done", "cancel"} /\ RoundsLeft'
    BY <1>6, AfterRoundPhase DEF EndRound
  <2> QED BY <2>1, <2>2, <2>3 DEF TypeOK
<1>7. CASE IssueCancel
  <2>1. phase' \in {"drain", "done"} /\ RoundsLeft'
    BY <1>7, AfterRoundPhase DEF IssueCancel
  <2> QED BY <1>7, <2>1, FinishStreamType DEF IssueCancel, TypeOK
<1>8. CASE Recover
  BY <1>8, ZeroRounds, ReinitializeType DEF Recover, LocalsGone, TypeOK
<1>9. CASE Unrecoverable
  BY <1>9, ZeroRounds DEF Unrecoverable, LocalsGone, TypeOK, ClientTypeOK, clientVars, flagVars, updateVars
<1>10. CASE Destroy
  BY <1>10 DEF Destroy, TypeOK, ClientTypeOK, clientVars, flagVars, updateVars
<1>11. CASE CloseFinish \/ CloseCancel
  BY <1>11, FinishStreamType DEF CloseFinish, CloseCancel, TypeOK
<1>12. CASE CloseShutdown
  BY <1>12 DEF CloseShutdown, ShutdownQueue, TypeOK, ClientTypeOK, flagVars, updateVars
<1>13. ASSUME NEW c \in Clients, NEW t \in Tags, CloseDrop(c, t)
      PROVE  TypeOK' /\ RoundsLeft'
  BY <1>13 DEF CloseDrop, DropEvent, pollVars, TypeOK, ClientTypeOK, Tags, TagStatus,
               flagVars, updateVars
<1>14. CASE EndClose
  BY <1>14 DEF EndClose, QueueStatus, TypeOK, ClientTypeOK, clientVars, flagVars, updateVars
<1>15. CASE GrpcStep
  BY <1>15, GrpcType DEF GrpcStep, pollVars, TypeOK
<1>16. CASE Closed \/ UNCHANGED vars
  BY <1>16 DEF Closed, vars, pollVars, TypeOK, ClientTypeOK, clientVars, flagVars, updateVars
<1>17. ASSUME NEW c \in UserFinishes, UserFinish(c)
      PROVE  TypeOK' /\ RoundsLeft'
  <2>1. {c} \in SUBSET Clients
    BY LoopAssumption
  <2>2. ClientTypeOK'
    BY <1>17, <2>1, FinishType DEF UserFinish, TypeOK
  <2> QED BY <1>17, <2>2 DEF UserFinish, pollVars, TypeOK
<1> QED
  BY <1>1, <1>2, <1>3, <1>4, <1>5, <1>6, <1>7, <1>8, <1>9, <1>10, <1>11, <1>12, <1>13,
     <1>14, <1>15, <1>16, <1>17
  DEF Next, ThreadStep

\* Every variable keeps its type; pollCount never passes errorLoopMax.
THEOREM TypeCorrect == Spec => []TypeOK
<1>1. TypeInv => TypeOK
  BY DEF TypeInv
<1> QED BY <1>1, TypeInit, TypeStep, PTL DEF Spec

-----------------------------------------------------------------------------
(* The clients' part of the inductive invariant, one lemma per way the     *)
(* clients' variables change.                                              *)

\* A callback changes one tag to reaped, or a successful read to submitted.
LEMMA CallbackInv ==
  ASSUME ClientTypeOK, ClientInv, NEW c \in Clients, NEW t \in Tags, Callback(c, t)
  PROVE  ClientInv'
<1> USE DEF ClientTypeOK, ClientInv, FinishedAreDead, FinishTags, ReadsAreUpdates,
            ConfirmedWasRead, Tags, TagStatus
<1>1. CASE StartCallback(c)
  BY <1>1 DEF StartCallback, updateVars
<1>2. CASE InitMetadataCallback(c)
  BY <1>2 DEF InitMetadataCallback, updateVars
<1>3. CASE FinishCallback(c)
  BY <1>3 DEF FinishCallback, Ready, updateVars
<1>4. CASE ProcessEnd(c)
  BY <1>4 DEF ProcessEnd, updateVars, flagVars
<1>5. CASE ProcessNext(c)
  BY <1>5 DEF ProcessNext, flagVars
<1> QED BY <1>1, <1>2, <1>3, <1>4, <1>5 DEF Callback

LEMMA FinishInv ==
  ASSUME ClientTypeOK, ClientInv, NEW cs \in SUBSET Clients, Finish(cs)
  PROVE  ClientInv'
BY DEF Finish, Cancelling, Unfinished, updateVars, ClientTypeOK, ClientInv,
       FinishedAreDead, FinishTags, ReadsAreUpdates, ConfirmedWasRead, Tags, TagStatus

LEMMA FinishStreamInv ==
  ASSUME ClientTypeOK, ClientInv, FinishStream
  PROVE  ClientInv'
BY FinishInv DEF FinishStream

LEMMA ReinitializeInv ==
  ASSUME ClientInv, Reinitialize
  PROVE  ClientInv'
BY ClientAssumption
DEF Reinitialize, FreshTag, ClientInv, FinishedAreDead, FinishTags, ReadsAreUpdates,
    ConfirmedWasRead, Tags

LEMMA GrpcInv ==
  ASSUME ClientTypeOK, ClientInv, Grpc
  PROVE  ClientInv'
<1> USE DEF ClientTypeOK, ClientInv, FinishedAreDead, FinishTags, ReadsAreUpdates,
            ConfirmedWasRead, Tags, TagStatus
<1>1. ASSUME NEW c \in Clients, Break(c) PROVE ClientInv'
  BY <1>1 DEF Break, flagVars, updateVars
<1>2. ASSUME NEW c \in Clients, NEW t \in Tags, NEW status \in {"ok", "failed"},
             Complete(c, t, status)
      PROVE  ClientInv'
  BY <1>2 DEF Complete, Completes, flagVars, updateVars
<1>3. ASSUME NEW c \in Clients, NEW u \in Updates, Push(c, u) PROVE ClientInv'
  BY <1>3 DEF Push, flagVars
<1> QED BY <1>1, <1>2, <1>3 DEF Grpc

LEMMA DropInv ==
  ASSUME ClientTypeOK, ClientInv, NEW c \in Clients, NEW t \in Tags, DropEvent(c, t)
  PROVE  ClientInv'
BY DEF DropEvent, Ready, flagVars, updateVars, ClientTypeOK, ClientInv,
       FinishedAreDead, FinishTags, ReadsAreUpdates, ConfirmedWasRead, Tags, TagStatus

\* What is left when no action touches the clients but, perhaps, Shutdown.
LEMMA SameClientsInv ==
  ASSUME ClientInv, UNCHANGED <<flagVars, updateVars, live, tag>>
  PROVE  ClientInv'
BY DEF flagVars, updateVars, ClientInv, FinishedAreDead, FinishTags, ReadsAreUpdates,
       ConfirmedWasRead

-----------------------------------------------------------------------------
(* The thread's part of the inductive invariant.                           *)

Awaited == \A c \in finishCalled \ finishResponded : "finish" \in Outstanding(c)

\* Finish on any clients leaves a tag out for each client it asks, and reads
\* where they were.
LEMMA FinishKeeps ==
  ASSUME ClientTypeOK, NEW cs \in SUBSET Clients, Finish(cs)
  PROVE  /\ queueDown' = queueDown
         /\ Awaited => Awaited'
         /\ \A c \in Clients : tag'[c]["read"] = tag[c]["read"]
         /\ ~queueDown => late' = late
BY DEF Finish, Cancelling, Unfinished, Awaited, Outstanding, Tags, TagStatus, ClientTypeOK

\* FinishStream leaves no client unasked; called again, it finishes them all
\* and submits nothing.
LEMMA FinishStreamAsks ==
  ASSUME ClientTypeOK, FinishStream
  PROVE  /\ Unfinished' \subseteq finishCalled'
         /\ queueDown' = queueDown
         /\ Awaited => Awaited'
         /\ Unfinished \subseteq finishCalled =>
              IsStreamFinished' /\ tag' = tag /\ late' = late
<1> USE DEF Cancelling, Unfinished
<1>1. Unfinished' \subseteq finishCalled' /\ queueDown' = queueDown
  BY DEF FinishStream, Finish, ClientTypeOK
<1>2. Awaited => Awaited'
  BY FinishKeeps DEF FinishStream
<1>3. ASSUME Unfinished \subseteq finishCalled
      PROVE  IsStreamFinished' /\ tag' = tag /\ late' = late
  <2>1. Clients \cap (Unfinished \ Cancelling) = {}
    BY <1>3
  <2>2. tag' = [c \in Clients |-> tag[c]]
    BY <2>1 DEF FinishStream, Finish
  <2>3. tag' = tag
    BY <2>2 DEF ClientTypeOK
  <2>4. IsStreamFinished'
    BY <2>1 DEF FinishStream, Finish, IsStreamFinished
  <2>5. late' = late
    BY <2>1 DEF FinishStream, Finish
  <2> QED BY <2>3, <2>4, <2>5
<1> QED BY <1>1, <1>2, <1>3

\* Callbacks keep the finish tag out until its answer comes, and change no
\* flag of Finish but finishResponded, upwards.
LEMMA CallbackKeeps ==
  ASSUME ClientTypeOK, NEW c \in Clients, NEW t \in Tags, Callback(c, t)
  PROVE  /\ Unfinished' \subseteq Unfinished
         /\ finishCalled' = finishCalled
         /\ queueDown' = queueDown
         /\ Awaited => Awaited'
         /\ Ready(c, t)
<1> USE DEF ClientTypeOK, Tags, TagStatus, Unfinished, Awaited, Outstanding, Ready
<1>1. CASE t = "start" /\ StartCallback(c)
  BY <1>1 DEF StartCallback
<1>2. CASE t = "initMetadata" /\ InitMetadataCallback(c)
  BY <1>2 DEF InitMetadataCallback
<1>3. CASE t = "finish" /\ FinishCallback(c)
  BY <1>3 DEF FinishCallback
<1>4. CASE t = "read" /\ ProcessEnd(c)
  BY <1>4 DEF ProcessEnd, flagVars
<1>5. CASE t = "read" /\ ProcessNext(c)
  BY <1>5 DEF ProcessNext, flagVars
<1> QED BY <1>1, <1>2, <1>3, <1>4, <1>5 DEF Callback

\* gRPC moves tags that are out, and leaves the flags alone.
LEMMA GrpcKeeps ==
  ASSUME ClientTypeOK, Grpc
  PROVE  /\ UNCHANGED <<finishCalled, finishResponded, queueDown, late>>
         /\ Awaited => Awaited'
         /\ Drained => Drained'
<1> USE DEF ClientTypeOK, Tags, TagStatus, Awaited, Outstanding, Drained, flagVars, updateVars
<1>1. ASSUME NEW c \in Clients, Break(c)
      PROVE  /\ UNCHANGED <<finishCalled, finishResponded, queueDown, late, tag>>
  BY <1>1 DEF Break
<1>2. ASSUME NEW c \in Clients, NEW t \in Tags, NEW status \in {"ok", "failed"},
             Complete(c, t, status)
      PROVE  /\ UNCHANGED <<finishCalled, finishResponded, queueDown, late>>
             /\ Awaited => Awaited'
             /\ ~Drained
  BY <1>2 DEF Complete
<1>3. ASSUME NEW c \in Clients, NEW u \in Updates, Push(c, u)
      PROVE  /\ UNCHANGED <<finishCalled, finishResponded, queueDown, late>>
             /\ Awaited => Awaited'
             /\ ~Drained
  BY <1>3 DEF Push
<1> QED BY <1>1, <1>2, <1>3 DEF Grpc

\* Half of errorLoopMax comes before its last round.
LEMMA HalfBeforeLast ==
  ASSUME ErrorLoopMax >= 2
  PROVE  ErrorLoopMax \div 2 \in Nat /\ ErrorLoopMax \div 2 <= ErrorLoopMax - 1
BY LoopAssumption

LEMMA ThreadStepInv ==
  ASSUME TypeOK, ClientInv, ThreadInv, RoundsLeft, [Next]_vars
  PROVE  ThreadInv'
<1> USE DEF ThreadInv, FinishAwaited, Awaited, ShutdownIsAfterFinish, CancelledByHalf,
            ShutdownMeansDrained, EndsOnShutdown, LogsLeak, TypeOK, Phases
<1>1. CASE StartPoll
  BY <1>1 DEF StartPoll, LocalsGone, clientVars, flagVars, Unfinished, IsStreamFinished,
              Outstanding, Drained
<1>2. ASSUME NEW c \in Clients, NEW t \in Tags, ProcessQueue(c, t) PROVE ThreadInv'
  <2>1. /\ Unfinished' \subseteq Unfinished
        /\ UNCHANGED <<phase, nextStatus, pollCount, finishCalled, queueDown>>
        /\ Awaited => Awaited'
    BY <1>2, CallbackKeeps DEF ProcessQueue
  <2>2. phase \in {"poll", "settle", "drain"}
    BY <1>2 DEF ProcessQueue
  <2> QED BY <2>1, <2>2 DEF IsStreamFinished
<1>3. CASE EndPoll
  BY <1>3 DEF EndPoll, QueueStatus, clientVars, flagVars, Unfinished, IsStreamFinished,
              Outstanding, Drained
<1>4. CASE IssueFinish
  BY <1>4, FinishStreamAsks DEF IssueFinish
<1>5. CASE IssueShutdown
  <2>1. /\ UNCHANGED <<finishCalled, finishResponded, tag>>
        /\ queueDown'
        /\ nextStatus' = "TIMEOUT" /\ pollCount' = 0 /\ phase = "settle"
        /\ phase' = AfterRound("TIMEOUT", IsStreamFinished, 0)
    BY <1>5 DEF IssueShutdown, ShutdownQueue, QueueStatus, flagVars, updateVars
  <2>2. phase' = IF 0 < ErrorLoopMax THEN "drain" ELSE "done"
    BY <2>1 DEF AfterRound, KeepsDraining
  <2>3. ErrorLoopMax >= 2 => ErrorLoopMax \div 2 > 0
    BY LoopAssumption
  <2>4. ErrorLoopMax >= 0
    BY LoopAssumption
  <2> QED BY <2>1, <2>2, <2>3, <2>4, LoopAssumption
          DEF Unfinished, IsStreamFinished, Outstanding
<1>6. CASE EndRound
  <2>1. /\ UNCHANGED <<finishCalled, finishResponded, tag, queueDown>>
        /\ nextStatus' = QueueStatus /\ pollCount' = pollCount + 1 /\ phase = "drain"
    BY <1>6 DEF EndRound, clientVars, flagVars
  <2>2. pollCount' \in Nat /\ pollCount \in Nat
    BY <2>1, LoopAssumption
  <2>3. FinishAwaited' /\ ShutdownIsAfterFinish' /\ queueDown'
    <3>1. phase' \in {"drain", "done", "cancel"}
      BY <1>6 DEF EndRound, AfterRound
    <3> QED BY <2>1, <3>1 DEF Unfinished, IsStreamFinished, Outstanding
  <2>4. ShutdownMeansDrained'
    BY <2>1 DEF QueueStatus, Drained, Outstanding
  <2>5. CASE pollCount + 1 = ErrorLoopMax \div 2
    BY <1>6, <2>1, <2>3, <2>4, <2>5 DEF EndRound
  <2>6. CASE pollCount + 1 # ErrorLoopMax \div 2
    <3>1. phase' = AfterRound(QueueStatus, IsStreamFinished, pollCount + 1)
      BY <1>6, <2>6 DEF EndRound
    <3>2. IsStreamFinished' <=> IsStreamFinished
      BY <2>1 DEF IsStreamFinished, Unfinished
    <3>3. phase' = "done" => \/ nextStatus' = "SHUTDOWN" /\ IsStreamFinished
                             \/ pollCount' >= ErrorLoopMax
      BY <2>1, <2>2, <3>1, LoopAssumption DEF AfterRound, KeepsDraining
    <3>4. ASSUME ErrorLoopMax >= 2, pollCount' >= ErrorLoopMax \div 2
          PROVE  IsStreamFinished
      BY <3>4, <2>1, <2>2, <2>6, HalfBeforeLast
    <3>5. ErrorLoopMax >= 2 /\ pollCount' >= ErrorLoopMax
            => pollCount' >= ErrorLoopMax \div 2
      BY <2>2, HalfBeforeLast, LoopAssumption
    <3>6. phase' \in {"drain", "done"}
      BY <3>1 DEF AfterRound
    <3>7. CancelledByHalf'
      BY <2>3, <3>2, <3>3, <3>4, <3>5, <3>6
    <3>8. EndsOnShutdown'
      BY <3>3, <2>1, <2>2, LoopAssumption
    <3> QED BY <2>3, <2>4, <3>7, <3>8
  <2> QED BY <2>5, <2>6
<1>7. CASE IssueCancel
  <2>1. Unfinished \subseteq finishCalled /\ phase = "cancel" /\ queueDown
    BY <1>7 DEF IssueCancel
  <2>2. /\ IsStreamFinished' /\ tag' = tag /\ queueDown' /\ Unfinished' \subseteq finishCalled'
        /\ Awaited'
    BY <1>7, <2>1, FinishStreamAsks DEF IssueCancel
  <2>3. /\ UNCHANGED <<nextStatus, pollCount>>
        /\ phase' = AfterRound(nextStatus, IsStreamFinished', pollCount)
    BY <1>7 DEF IssueCancel
  <2>4. phase' \in {"drain", "done"}
    BY <2>3 DEF AfterRound
  <2>5. phase' = "done" => nextStatus' = "SHUTDOWN" \/ pollCount' >= ErrorLoopMax
    BY <2>2, <2>3, LoopAssumption DEF AfterRound, KeepsDraining
  <2>6. Drained => Drained'
    BY <2>2 DEF Drained, Outstanding
  <2> QED BY <2>1, <2>2, <2>3, <2>4, <2>5, <2>6
<1>8. CASE Recover
  BY <1>8 DEF Recover, Reinitialize, LocalsGone, Outstanding
<1>9. CASE Unrecoverable
  BY <1>9 DEF Unrecoverable, LocalsGone, clientVars, flagVars, Unfinished,
              IsStreamFinished, Outstanding
<1>10. CASE Destroy
  BY <1>10 DEF Destroy, clientVars, flagVars, Unfinished, IsStreamFinished, Outstanding
<1>11. CASE CloseFinish
  BY <1>11, FinishStreamAsks DEF CloseFinish
<1>12. CASE CloseCancel
  BY <1>12, FinishStreamAsks DEF CloseCancel
<1>13. CASE CloseShutdown
  BY <1>13 DEF CloseShutdown, ShutdownQueue, flagVars, Unfinished, IsStreamFinished, Outstanding
<1>14. ASSUME NEW c \in Clients, NEW t \in Tags, CloseDrop(c, t) PROVE ThreadInv'
  BY <1>14 DEF CloseDrop, DropEvent, pollVars, flagVars, Unfinished, IsStreamFinished
<1>15. CASE EndClose
  BY <1>15 DEF EndClose, clientVars, flagVars, Unfinished, IsStreamFinished
<1>16. CASE GrpcStep
  BY <1>16, GrpcKeeps DEF GrpcStep, pollVars, Unfinished, IsStreamFinished
<1>17. CASE Closed \/ UNCHANGED vars
  BY <1>17 DEF Closed, vars, pollVars, clientVars, flagVars, Unfinished, IsStreamFinished,
               Outstanding, Drained
<1>18. ASSUME NEW c \in UserFinishes, UserFinish(c) PROVE ThreadInv'
  <2>1. {c} \in SUBSET Clients
    BY LoopAssumption
  <2>2. queueDown' = queueDown /\ (Awaited => Awaited')
    BY <1>18, <2>1, FinishKeeps DEF UserFinish
  <2> QED BY <1>18, <2>2 DEF UserFinish, pollVars
<1> QED
  BY <1>1, <1>2, <1>3, <1>4, <1>5, <1>6, <1>7, <1>8, <1>9, <1>10, <1>11, <1>12, <1>13,
     <1>14, <1>15, <1>16, <1>17, <1>18
  DEF Next, ThreadStep

-----------------------------------------------------------------------------
(* The invariant, and the theorems that follow from it.                    *)

LEMMA InvInit == Init => IInv
BY DEF Init, ClientInit, FreshTag, IInv, ClientInv, FinishedAreDead, FinishTags,
       ReadsAreUpdates, ConfirmedWasRead, ThreadInv, FinishAwaited, ShutdownIsAfterFinish,
       CancelledByHalf, ShutdownMeansDrained, EndsOnShutdown, RoundsLeft, Unfinished, Tags

LEMMA InvStep == TypeOK /\ IInv /\ [Next]_vars => IInv'
<1> SUFFICES ASSUME TypeOK, IInv, [Next]_vars PROVE IInv'
  OBVIOUS
<1> USE DEF IInv
<1>1. RoundsLeft' /\ ThreadInv'
  BY TypeStep, ThreadStepInv DEF TypeInv
<1>2. ClientInv'
  <2>1. CASE IssueFinish \/ IssueCancel \/ CloseFinish \/ CloseCancel
    BY <2>1, FinishStreamInv DEF IssueFinish, IssueCancel, CloseFinish, CloseCancel, TypeOK
  <2>2. CASE Recover
    BY <2>2, ReinitializeInv DEF Recover
  <2>3. ASSUME NEW c \in Clients, NEW t \in Tags, ProcessQueue(c, t) PROVE ClientInv'
    BY <2>3, CallbackInv DEF ProcessQueue, TypeOK
  <2>4. ASSUME NEW c \in Clients, NEW t \in Tags, CloseDrop(c, t) PROVE ClientInv'
    BY <2>4, DropInv DEF CloseDrop, TypeOK
  <2>5. CASE GrpcStep
    BY <2>5, GrpcInv DEF GrpcStep, TypeOK
  <2>6. CASE IssueShutdown \/ CloseShutdown
    BY <2>6, SameClientsInv DEF IssueShutdown, CloseShutdown, ShutdownQueue
  <2>7. CASE StartPoll \/ EndPoll \/ EndRound \/ Unrecoverable \/ Destroy \/ EndClose
    BY <2>7, SameClientsInv
    DEF StartPoll, EndPoll, EndRound, Unrecoverable, Destroy, EndClose, clientVars
  <2>8. CASE Closed \/ UNCHANGED vars
    BY <2>8, SameClientsInv DEF Closed, vars, clientVars
  <2>9. ASSUME NEW c \in UserFinishes, UserFinish(c) PROVE ClientInv'
    BY <2>9, LoopAssumption, FinishInv DEF UserFinish, TypeOK
  <2> QED
    BY <2>1, <2>2, <2>3, <2>4, <2>5, <2>6, <2>7, <2>8, <2>9 DEF Next, ThreadStep
<1> QED BY <1>1, <1>2

\* The inductive invariant holds in every reachable state.
THEOREM Invariance == Spec => []IInv
BY InvInit, InvStep, TypeCorrect, PTL DEF Spec

\* The recovery abandons no open call, for every errorLoopMax of at least 2.
THEOREM NothingOrphaned == Spec => []NoOrphan
<1>1. TypeOK => live \subseteq Clients
  BY ClientAssumption DEF TypeOK, ClientTypeOK
<1>2. TypeOK /\ IInv => NoOrphan
  BY <1>1 DEF IInv, ThreadInv, CancelledByHalf, ClientInv, FinishedAreDead,
              IsStreamFinished, Unfinished, NoOrphan
<1> QED BY <1>2, TypeCorrect, Invariance, PTL

\* The loop's test of IsStreamFinished is never what keeps it going once the
\* queue has drained.
THEOREM DrainFinishes == Spec => []DrainedMeansFinished
<1>1. TypeOK /\ IInv => DrainedMeansFinished
  <2> SUFFICES ASSUME TypeOK, IInv, queueDown, Drained, ~IsStreamFinished PROVE FALSE
    BY DEF DrainedMeansFinished
  <2>1. PICK c \in Clients : c \in finishCalled \ finishResponded
    BY DEF IInv, ThreadInv, ShutdownIsAfterFinish, IsStreamFinished, Unfinished
  <2>2. "finish" \in Outstanding(c)
    BY <2>1 DEF IInv, ThreadInv, FinishAwaited, ShutdownIsAfterFinish
  <2> QED BY <2>1, <2>2 DEF Drained
<1> QED BY <1>1, TypeCorrect, Invariance, PTL

\* "SHUTDOWN completed gracefully" is only logged when it did.
THEOREM GracefulIsTrue == Spec => []GracefulMeansDrained
<1>1. IInv => GracefulMeansDrained
  BY DEF IInv, ThreadInv, EndsOnShutdown, ShutdownMeansDrained, GracefulMeansDrained
<1> QED BY <1>1, Invariance, PTL

\* The destructor leaves no call open.
THEOREM CloseCancels == Spec => []ClosedMeansCancelled
<1>1. TypeOK /\ IInv => ClosedMeansCancelled
  BY ClientAssumption
  DEF TypeOK, ClientTypeOK, IInv, ThreadInv, ShutdownIsAfterFinish, ClientInv,
      FinishedAreDead, IsStreamFinished, Unfinished, ClosedMeansCancelled
<1> QED BY <1>1, TypeCorrect, Invariance, PTL

\* Nothing but an update that was read is confirmed.
THEOREM OnlyReadsConfirmed == Spec => []ConfirmedWasRead
<1>1. IInv => ConfirmedWasRead
  BY DEF IInv, ClientInv
<1> QED BY <1>1, Invariance, PTL

-----------------------------------------------------------------------------
(* Finish, the one call a recovery or the destructor puts on the queue.    *)

\* A step submits a finish tag only where it was idle.
LEMMA FinishOnceStep ==
  ASSUME TypeOK, IInv, [Next]_vars, NEW c \in Clients, tag'[c]["finish"] = "submitted"
  PROVE  tag[c]["finish"] \in {"idle", "submitted"}
<1> USE DEF TypeOK, ClientTypeOK, Tags, TagStatus
<1>1. CASE IssueFinish \/ IssueCancel \/ CloseFinish \/ CloseCancel
  <2>1. FinishStream
    BY <1>1 DEF IssueFinish, IssueCancel, CloseFinish, CloseCancel
  <2> QED BY <2>1
      DEF FinishStream, Finish, Cancelling, Unfinished, IInv, ClientInv, FinishTags
<1>2. CASE Recover
  BY <1>2 DEF Recover, Reinitialize, FreshTag
<1>3. ASSUME NEW d \in Clients, NEW t \in Tags, ProcessQueue(d, t)
      PROVE  tag[c]["finish"] \in {"idle", "submitted"}
  BY <1>3 DEF ProcessQueue, Callback, StartCallback, InitMetadataCallback, FinishCallback,
              ProcessEnd, ProcessNext
<1>4. ASSUME NEW d \in Clients, NEW t \in Tags, CloseDrop(d, t)
      PROVE  tag[c]["finish"] \in {"idle", "submitted"}
  BY <1>4 DEF CloseDrop, DropEvent
<1>5. CASE GrpcStep
  <2>1. ASSUME NEW d \in Clients, Break(d) PROVE tag' = tag
    BY <2>1 DEF Break
  <2>2. ASSUME NEW d \in Clients, NEW t \in Tags, NEW status \in {"ok", "failed"},
               Complete(d, t, status)
        PROVE  tag[c]["finish"] \in {"idle", "submitted"}
    BY <2>2 DEF Complete
  <2>3. ASSUME NEW d \in Clients, NEW u \in Updates, Push(d, u)
        PROVE  tag[c]["finish"] \in {"idle", "submitted"}
    BY <2>3 DEF Push
  <2> QED BY <1>5, <2>1, <2>2, <2>3 DEF GrpcStep, Grpc
<1>6. CASE tag' = tag
  BY <1>6
<1>7. ASSUME NEW d \in UserFinishes, UserFinish(d)
      PROVE  tag[c]["finish"] \in {"idle", "submitted"}
  BY <1>7 DEF UserFinish, Finish, Cancelling, Unfinished, IInv, ClientInv, FinishTags
<1> QED
  BY <1>1, <1>2, <1>3, <1>4, <1>5, <1>6, <1>7
  DEF Next, ThreadStep, StartPoll, EndPoll, IssueShutdown, EndRound, Unrecoverable,
      Destroy, CloseShutdown, EndClose, Closed, ShutdownQueue, updateVars, clientVars, vars

\* No client asks gRPC for the final status of a call twice.
THEOREM FinishedOnce == Spec => FinishOnce
<1>1. TypeOK /\ IInv /\ [Next]_vars =>
        [\A c \in Clients :
           tag'[c]["finish"] = "submitted" => tag[c]["finish"] \in {"idle", "submitted"}]_vars
  BY FinishOnceStep
<1> QED BY <1>1, TypeCorrect, Invariance, PTL DEF Spec, FinishOnce

\* No client asks for the final status on a queue that was shut down.
LEMMA FinishLateStep ==
  TypeOK /\ IInv /\ FinishNeverLate /\ [Next]_vars => FinishNeverLate'
<1> SUFFICES ASSUME TypeOK, IInv, "finish" \notin late, [Next]_vars
             PROVE  "finish" \notin late'
  BY DEF FinishNeverLate
<1>1. CASE IssueFinish \/ IssueCancel \/ CloseFinish \/ CloseCancel
  <2>1. FinishStream
    BY <1>1 DEF IssueFinish, IssueCancel, CloseFinish, CloseCancel
  <2>2. CASE queueDown
    BY <2>1, <2>2, FinishStreamAsks DEF IInv, ThreadInv, ShutdownIsAfterFinish, TypeOK
  <2>3. CASE ~queueDown
    BY <2>1, <2>3, FinishKeeps DEF FinishStream, TypeOK
  <2> QED BY <2>2, <2>3
<1>2. CASE Recover
  BY <1>2 DEF Recover, Reinitialize
<1>3. ASSUME NEW c \in Clients, NEW t \in Tags, ProcessQueue(c, t)
      PROVE  "finish" \notin late'
  BY <1>3 DEF ProcessQueue, Callback, StartCallback, InitMetadataCallback, FinishCallback,
              ProcessEnd, ProcessNext
<1>4. ASSUME NEW c \in Clients, NEW t \in Tags, CloseDrop(c, t) PROVE late' = late
  BY <1>4 DEF CloseDrop, DropEvent
<1>5. CASE GrpcStep
  BY <1>5, GrpcKeeps DEF GrpcStep, TypeOK
<1>6. ASSUME NEW c \in UserFinishes, UserFinish(c) PROVE late' = late
  <2>1. {c} \in SUBSET Clients /\ ~queueDown
    BY <1>6, LoopAssumption DEF UserFinish, IInv, ThreadInv, ShutdownIsAfterFinish
  <2> QED BY <1>6, <2>1, FinishKeeps DEF UserFinish, TypeOK
<1> QED
  BY <1>1, <1>2, <1>3, <1>4, <1>5, <1>6
  DEF Next, ThreadStep, StartPoll, EndPoll, IssueShutdown, EndRound, Unrecoverable,
      Destroy, CloseShutdown, EndClose, Closed, ShutdownQueue, clientVars, vars

\* Neither the recovery's second FinishStream nor the destructor's puts a
\* Finish on a queue after its Shutdown.
THEOREM NoLateFinish == Spec => []FinishNeverLate
<1>1. Init => FinishNeverLate
  BY DEF Init, ClientInit, FinishNeverLate
<1> QED BY <1>1, FinishLateStep, TypeCorrect, Invariance, PTL DEF Spec

-----------------------------------------------------------------------------
(* What a recovery does with the updates it finds in the clients.          *)

\* A round that ends the loop has just found nothing ready, and by then every
\* call is dead: no update comes any more.
LEMMA KeepsUpdatesStep ==
  TypeOK /\ IInv /\ RecoveryKeepsUpdates /\ [Next]_vars => RecoveryKeepsUpdates'
<1> SUFFICES ASSUME TypeOK, IInv, RecoveryKeepsUpdates, [Next]_vars,
                    ErrorLoopMax >= 2, phase' = "done", NEW c \in Clients
             PROVE  tag'[c]["read"] # "ok"
  BY DEF RecoveryKeepsUpdates
<1>1. CASE EndRound
  BY <1>1 DEF EndRound, NothingReady, Ready, clientVars, Tags
<1>2. CASE IssueShutdown
  BY <1>2, LoopAssumption DEF IssueShutdown, QueueStatus, IInv, ThreadInv,
     ShutdownIsAfterFinish, AfterRound, KeepsDraining
<1>3. CASE IssueCancel
  <2>1. /\ phase = "cancel" /\ pollCount = ErrorLoopMax \div 2 /\ FinishStream
        /\ phase' = AfterRound(nextStatus, IsStreamFinished', pollCount)
    BY <1>3 DEF IssueCancel, IInv, ThreadInv, CancelledByHalf
  <2>2. pollCount < ErrorLoopMax
    BY <2>1, HalfBeforeLast, LoopAssumption
  <2>3. nextStatus = "SHUTDOWN"
    BY <2>1, <2>2 DEF AfterRound, KeepsDraining
  <2>4. Drained
    BY <2>1, <2>3 DEF IInv, ThreadInv, ShutdownMeansDrained
  <2>5. tag[c]["read"] # "ok"
    BY <2>4 DEF Drained, Outstanding, Tags
  <2> QED BY <2>1, <2>5, FinishKeeps DEF FinishStream, TypeOK
<1>4. CASE GrpcStep
  <2>1. phase = "done" /\ Grpc
    BY <1>4 DEF GrpcStep, pollVars
  <2>2. tag[c]["read"] # "ok" /\ IsStreamFinished
    BY <2>1 DEF RecoveryKeepsUpdates, IInv, ThreadInv, CancelledByHalf
  <2>3. live = {}
    BY <2>2, ClientAssumption
    DEF TypeOK, ClientTypeOK, IInv, ClientInv, FinishedAreDead, IsStreamFinished, Unfinished
  <2>4. ASSUME NEW d \in Clients, Break(d) PROVE FALSE
    BY <2>3, <2>4 DEF Break
  <2>5. ASSUME NEW d \in Clients, NEW u \in Updates, Push(d, u) PROVE FALSE
    BY <2>3, <2>5 DEF Push
  <2>6. ASSUME NEW d \in Clients, NEW t \in Tags, NEW status \in {"ok", "failed"},
               Complete(d, t, status)
        PROVE  tag'[c]["read"] # "ok"
    BY <2>2, <2>6 DEF Complete, Completes, TypeOK, ClientTypeOK, Tags
  <2> QED BY <2>1, <2>4, <2>5, <2>6 DEF Grpc
<1>5. CASE UNCHANGED vars
  BY <1>5 DEF vars, pollVars, clientVars, RecoveryKeepsUpdates
<1> QED
  BY <1>1, <1>2, <1>3, <1>4, <1>5
  DEF Next, ThreadStep, StartPoll, ProcessQueue, EndPoll, IssueFinish, Recover,
      Unrecoverable, Destroy, CloseFinish, CloseCancel, CloseShutdown, CloseDrop, EndClose,
      UserFinish, Closed, pollVars

\* No recovery drops an update that was read, for every errorLoopMax of at
\* least 2: the message buffers it destroys have all been given.
THEOREM NothingDropped == Spec => []RecoveryKeepsUpdates
<1>1. Init => RecoveryKeepsUpdates
  BY DEF Init, RecoveryKeepsUpdates
<1> QED BY <1>1, KeepsUpdatesStep, TypeCorrect, Invariance, PTL DEF Spec

=============================================================================
