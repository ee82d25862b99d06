-------------------------- MODULE UnaryPollProofs ---------------------------
(***************************************************************************)
(* What UnaryPoll's runs check on a few calls, for any set of calls and    *)
(* any errorLoopMax; and that UnaryPoll implements UnaryCalls.             *)
(***************************************************************************)
EXTENDS UnaryPoll, TLAPS

Invs == TypeOK /\ IInv

\* What a request changes: the tags requested are on the present queue.
LEMMA EnqueueTags ==
  ASSUME TypeOK, NEW status \in [Calls -> CallStatus], NEW ks \in SUBSET Calls,
         call' = Requested(status, ks), Enqueue(ks)
  PROVE  /\ call' \in [Calls -> CallStatus] /\ queueOf' \in [Calls -> Nat]
         /\ \A j \in Calls : call'[j] = IF j \in ks THEN "submitted" ELSE status[j]
         /\ \A j \in Calls : queueOf'[j] = IF j \in ks THEN unaryQueue ELSE queueOf[j]
BY DEF TypeOK, Requested, Enqueue, SubmitQueue, CallStatus

LEMMA InvInit == Init => Invs
<1> SUFFICES ASSUME Init PROVE Invs
  OBVIOUS
<1>1. TypeOK
  BY DEF Init, TypeOK, CallStatus, Phases
<1>2. FreedWhenTaken /\ CalledWhenFreed
  BY DEF Init, FreedWhenTaken, CalledWhenFreed
<1>3. OnPolledQueue /\ NoCallLost
  BY DEF Init, OnPolledQueue, NoCallLost, Outstanding
<1> QED BY <1>1, <1>2, <1>3 DEF Invs, IInv

\* A callback: its tag is taken and deleted, and the requests it makes join
\* the queue it came from.
LEMMA ProcessQueueInv ==
  ASSUME Invs, NEW k \in Calls, ProcessQueue(k), streamsFinished' \in BOOLEAN
  PROVE  Invs'
<1> USE DEF Invs, TypeOK, IInv, CallStatus
<1>1. PICK ks \in CallbackRequests :
        call' = Requested([call EXCEPT ![k] = "taken"], ks) /\ Enqueue(ks)
  BY DEF ProcessQueue
<1>2. ks \subseteq Unmade /\ ks \in SUBSET Calls /\ k \notin Unmade
  BY DEF CallbackRequests, Unmade, ProcessQueue, Ready
<1> DEFINE status == [call EXCEPT ![k] = "taken"]
<1>3. /\ call' = Requested(status, ks) /\ Enqueue(ks)
      /\ status \in [Calls -> CallStatus]
      /\ \A j \in Calls : status[j] = IF j = k THEN "taken" ELSE call[j]
  BY <1>1
<1> HIDE DEF status
<1>4. /\ call' \in [Calls -> CallStatus] /\ queueOf' \in [Calls -> Nat]
      /\ \A j \in Calls : call'[j] = IF j \in ks THEN "submitted"
                                     ELSE IF j = k THEN "taken" ELSE call[j]
      /\ \A j \in Calls : queueOf'[j] = IF j \in ks THEN unaryQueue ELSE queueOf[j]
  BY <1>2, <1>3, EnqueueTags
<1>5. /\ phase \in {"poll", "settle", "drain"} /\ call[k] \in {"ok", "failed"}
      /\ calledBack' = [calledBack EXCEPT ![k] = @ + 1]
      /\ freed' = [freed EXCEPT ![k] = @ + 1]
      /\ callShutdown' \in BOOLEAN
      /\ UNCHANGED <<afterDrain, unaryQueue, queueDown, phase, nextStatus>>
  BY DEF ProcessQueue, Ready
<1>6. calledBack[k] = 0 /\ freed[k] = 0
  BY <1>5 DEF FreedWhenTaken, CalledWhenFreed
<1>7. TypeOK'
  BY <1>4, <1>5, <1>6 DEF Phases
<1>8. FreedWhenTaken'
  BY <1>2, <1>4, <1>5, <1>6 DEF FreedWhenTaken, Unmade
<1>9. CalledWhenFreed'
  BY <1>5, <1>6 DEF CalledWhenFreed
<1>10. OnPolledQueue' /\ NoCallLost'
  BY <1>4, <1>5 DEF OnPolledQueue, NoCallLost, Outstanding, OnQueue
<1> QED BY <1>7, <1>8, <1>9, <1>10

\* A round that ends the loop has seen every tag of the queue come back.
LEMMA AfterRoundDrained ==
  ASSUME Invs, ErrorLoopMax >= 1, AfterRound(QueueStatus) = "done"
  PROVE  \A k \in Calls : Outstanding(k) => k \in afterDrain
<1>1. 0 < ErrorLoopMax
  BY UnaryAssumption
<1>2. ~KeepsDraining(QueueStatus)
  BY DEF AfterRound
<1>3. QueueStatus = "SHUTDOWN"
  BY <1>1, <1>2 DEF KeepsDraining
<1>4. Drained
  BY <1>3 DEF QueueStatus
<1> QED BY <1>4 DEF Invs, IInv, Drained, OnPolledQueue

LEMMA InvStep == Invs /\ [Next]_vars => Invs'
<1> SUFFICES ASSUME Invs, [Next]_vars PROVE Invs'
  OBVIOUS
<1>0. streamsFinished' \in BOOLEAN
  BY DEF Next, StreamsChange, vars, Invs, TypeOK
<1> USE DEF Invs, TypeOK, IInv, CallStatus, Phases
<1>1. ASSUME NEW k \in Calls, CallUnaryAsync(k) PROVE Invs'
  <2>1. {k} \in SUBSET Calls /\ call \in [Calls -> CallStatus] /\ call[k] = "unmade"
    BY <1>1 DEF CallUnaryAsync, Unmade
  <2>2. /\ call' \in [Calls -> CallStatus] /\ queueOf' \in [Calls -> Nat]
        /\ \A j \in Calls : call'[j] = IF j = k THEN "submitted" ELSE call[j]
        /\ \A j \in Calls : queueOf'[j] = IF j = k THEN unaryQueue ELSE queueOf[j]
    <3>1. call' = Requested(call, {k}) /\ Enqueue({k})
      BY <1>1 DEF CallUnaryAsync
    <3>2. /\ \A j \in Calls : call'[j] = IF j \in {k} THEN "submitted" ELSE call[j]
          /\ \A j \in Calls : queueOf'[j] = IF j \in {k} THEN unaryQueue ELSE queueOf[j]
          /\ call' \in [Calls -> CallStatus] /\ queueOf' \in [Calls -> Nat]
         
      BY <2>1, <3>1, EnqueueTags
    <3> QED BY <3>2
  <2>3. /\ afterDrain \subseteq afterDrain' /\ afterDrain' \subseteq Calls
        /\ phase = "done" => k \in afterDrain'
    BY <1>1 DEF CallUnaryAsync
  <2> QED BY <1>0, <1>1, <2>1, <2>2, <2>3
      DEF CallUnaryAsync, pollVars, FreedWhenTaken, CalledWhenFreed, OnPolledQueue,
          NoCallLost, Outstanding, OnQueue
<1>2. ASSUME NEW k \in Calls, ProcessQueue(k) PROVE Invs'
  BY <1>0, <1>2, ProcessQueueInv
<1>3. ASSUME NEW k \in Calls, Complete(k) PROVE Invs'
  BY <1>0, <1>3 DEF Complete, queueVars, pollVars, FreedWhenTaken, CalledWhenFreed, OnPolledQueue,
              NoCallLost, Outstanding, OnQueue
<1>4. ASSUME NEW k \in Calls, CloseDrop(k) PROVE Invs'
  BY <1>0, <1>4 DEF CloseDrop, Ready, queueVars, pollVars, FreedWhenTaken, CalledWhenFreed,
              OnPolledQueue, NoCallLost, Outstanding, OnQueue
<1>5. CASE IssueShutdown \/ EndRound
  <2>1. phase' = AfterRound(QueueStatus) /\ phase \notin {"closing", "closed"}
    BY <1>5 DEF IssueShutdown, EndRound
  <2>2. phase' \in {"drain", "done"}
    BY <2>1 DEF AfterRound
  <2>3. NoCallLost'
    BY <1>5, <2>1, AfterRoundDrained
    DEF IssueShutdown, EndRound, callVars, NoCallLost, Outstanding
  <2> QED BY <1>0, <1>5, <2>1, <2>2, <2>3
      DEF IssueShutdown, EndRound, QueueStatus, callVars, queueVars, FreedWhenTaken,
          CalledWhenFreed, OnPolledQueue, Outstanding, OnQueue
<1>6. CASE Recover
  <2>1. TypeOK'
    <3>1. unaryQueue' \in Nat
      BY <1>6 DEF Recover
    <3>2. /\ UNCHANGED <<call, calledBack, freed, queueOf, afterDrain>>
          /\ queueDown' = FALSE /\ phase' = "idle"
          /\ callShutdown' = FALSE /\ nextStatus' = "TIMEOUT"
      BY <1>6 DEF Recover, LocalsGone, callVars
    <3> QED BY <1>0, <3>1, <3>2
  <2>2. FreedWhenTaken' /\ CalledWhenFreed'
    BY <1>6 DEF Recover, callVars, FreedWhenTaken, CalledWhenFreed
  <2>3. OnPolledQueue' /\ NoCallLost'
    BY <1>6 DEF Recover, callVars, OnPolledQueue, NoCallLost, Outstanding
  <2> QED BY <2>1, <2>2, <2>3
<1>7. CASE StartPoll \/ EndPoll \/ Unrecoverable \/ Destroy \/ EndClose
  BY <1>0, <1>7 DEF StartPoll, EndPoll, Unrecoverable, Destroy, EndClose, LocalsGone, QueueStatus,
              callVars, queueVars, FreedWhenTaken, CalledWhenFreed, OnPolledQueue,
              NoCallLost, Outstanding, OnQueue
<1>8. CASE Closed \/ StreamsChange \/ UNCHANGED vars
  BY <1>0, <1>8 DEF Closed, StreamsChange, vars, callVars, queueVars, pollVars, FreedWhenTaken, CalledWhenFreed,
              OnPolledQueue, NoCallLost, Outstanding, OnQueue
<1> QED
  BY <1>1, <1>2, <1>3, <1>4, <1>5, <1>6, <1>7, <1>8 DEF Next, UnaryStep, ThreadStep

\* The inductive invariant, with the types, holds in every reachable state.
THEOREM Invariance == Spec => []Invs
BY InvInit, InvStep, PTL DEF Spec

\* Types, and one callback and one deletion per tag, for any number of calls.
THEOREM TypeCorrect == Spec => []TypeOK
<1>1. Invs => TypeOK
  BY DEF Invs
<1> QED BY <1>1, Invariance, PTL

\* No answered call leaks its tag, and no tag is deleted twice.
THEOREM TagsFreedOnce == Spec => []FreedWhenTaken
<1>1. Invs => FreedWhenTaken
  BY DEF Invs, IInv
<1> QED BY <1>1, Invariance, PTL

\* No recovery abandons a call, for any errorLoopMax but 0.
THEOREM NothingLost == Spec => []NoCallLost
<1>1. Invs => NoCallLost
  BY DEF Invs, IInv
<1> QED BY <1>1, Invariance, PTL

\* No call waits on a queue that is no longer polled.
THEOREM AlwaysPolled == Spec => []OnPolledQueue
<1>1. Invs => OnPolledQueue
  BY DEF Invs, IInv
<1> QED BY <1>1, Invariance, PTL

-----------------------------------------------------------------------------
(* Refinement: UnaryPoll implements UnaryCalls.                            *)

LEMMA RefinesInit == Init => Promise!Init
BY DEF Init, Promise!Init, AbstractState, Outstanding, Discarded

\* Two states in which every call is in the same place look the same.
LEMMA SameAbstractState ==
  ASSUME UNCHANGED <<call, calledBack>>
  PROVE  AbstractState' = AbstractState
BY DEF AbstractState, Outstanding

LEMMA ProcessQueueRefines ==
  ASSUME Invs, NEW k \in Calls, ProcessQueue(k)
  PROVE  \E ks \in SUBSET Promise!Unmade : Promise!CallBack(k, ks)
<1>1. PICK ks \in CallbackRequests :
        call' = Requested([call EXCEPT ![k] = "taken"], ks)
  BY DEF ProcessQueue
<1>2. ks \subseteq Unmade /\ ks \in SUBSET Calls /\ k \notin Unmade
  BY DEF CallbackRequests, Unmade, ProcessQueue, Ready
<1>3. \A j \in Calls : call'[j] = IF j \in ks THEN "submitted"
                                   ELSE IF j = k THEN "taken" ELSE call[j]
  BY <1>1 DEF Requested, Invs, TypeOK
<1>4. \A j \in Calls : calledBack'[j] = IF j = k THEN 1 ELSE calledBack[j]
  BY DEF ProcessQueue, Ready, Invs, TypeOK, IInv, FreedWhenTaken, CalledWhenFreed
<1>5. Outstanding(k) /\ ~Discarded /\ ~Discarded'
  BY DEF ProcessQueue, Ready, Outstanding, Discarded
<1>6. ks \subseteq Promise!Unmade
  BY <1>2 DEF Unmade, Promise!Unmade, AbstractState
<1>7. AbstractState[k] = "pending"
  BY <1>5 DEF AbstractState, Outstanding
<1>8. AbstractState' = [j \in Calls |-> IF j \in ks THEN "pending"
                                         ELSE IF j = k THEN "called" ELSE AbstractState[j]]
  BY <1>2, <1>3, <1>4 DEF AbstractState, Outstanding
<1>9. AbstractState' = Promise!With(Promise!With(AbstractState, {k}, "called"), ks, "pending")
  BY <1>8 DEF Promise!With
<1> QED BY <1>5, <1>6, <1>7, <1>9 DEF Promise!CallBack

LEMMA RefinesStep == Invs /\ [Next]_vars => [Promise!Next]_(Promise!vars)
<1> SUFFICES ASSUME Invs, [Next]_vars PROVE [Promise!Next]_(Promise!vars)
  OBVIOUS
<1> USE DEF Promise!Next, Promise!vars
<1>1. ASSUME NEW k \in Calls, CallUnaryAsync(k) PROVE Promise!Next
  <2>1. /\ call[k] = "unmade" /\ ~Discarded /\ ~Discarded' /\ calledBack' = calledBack
        /\ \A j \in Calls : call'[j] = IF j = k THEN "submitted" ELSE call[j]
    BY <1>1 DEF CallUnaryAsync, Unmade, Requested, Discarded, pollVars
  <2>2. AbstractState' = Promise!With(AbstractState, {k}, "pending")
    BY <2>1 DEF AbstractState, Outstanding, Promise!With
  <2>3. {k} \subseteq Promise!Unmade
    BY <2>1 DEF Promise!Unmade, AbstractState
  <2> QED BY <2>1, <2>2, <2>3 DEF Promise!Request
<1>2. ASSUME NEW k \in Calls, ProcessQueue(k) PROVE Promise!Next
  BY <1>2, ProcessQueueRefines
<1>3. ASSUME NEW k \in Calls, Complete(k) PROVE UNCHANGED Promise!vars
  BY <1>3 DEF Complete, pollVars, Discarded, AbstractState, Outstanding, Invs, TypeOK
<1>4. ASSUME NEW k \in Calls, CloseDrop(k) PROVE Promise!Next
  <2>1. /\ Outstanding(k) /\ calledBack[k] = 0 /\ calledBack' = calledBack
        /\ Discarded /\ Discarded'
        /\ \A j \in Calls : call'[j] = IF j = k THEN "taken" ELSE call[j]
    BY <1>4 DEF CloseDrop, Ready, Outstanding, Discarded, pollVars, Invs, TypeOK, IInv,
                FreedWhenTaken, CalledWhenFreed
  <2>2. AbstractState' = Promise!With(AbstractState, {k}, "abandoned")
    BY <2>1 DEF AbstractState, Outstanding, Promise!With
  <2>3. AbstractState[k] = "pending"
    BY <2>1 DEF AbstractState, Outstanding
  <2> QED BY <2>1, <2>2, <2>3 DEF Promise!Abandon
<1>5. CASE Unrecoverable \/ Destroy
  BY <1>5, SameAbstractState
  DEF Unrecoverable, Destroy, callVars, Discarded, Promise!Discard
<1>6. CASE StartPoll \/ EndPoll \/ IssueShutdown \/ EndRound \/ Recover \/ EndClose
  BY <1>6, SameAbstractState
  DEF StartPoll, EndPoll, IssueShutdown, EndRound, Recover, EndClose, AfterRound, callVars,
      Discarded
<1>7. CASE Closed \/ StreamsChange \/ UNCHANGED vars
  BY <1>7, SameAbstractState DEF Closed, StreamsChange, vars, callVars, pollVars, Discarded
<1> QED
  BY <1>1, <1>2, <1>3, <1>4, <1>5, <1>6, <1>7 DEF Next, UnaryStep, ThreadStep

\* Each request's callback is called at most once, after the request, and
\* never once the manager is discarded.
THEOREM Refinement == Spec => OneCallbackPerRequest
BY RefinesInit, RefinesStep, Invariance, PTL
DEF Spec, OneCallbackPerRequest, Promise!Spec

=============================================================================
