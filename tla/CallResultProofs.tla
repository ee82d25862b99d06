-------------------------- MODULE CallResultProofs --------------------------
(***************************************************************************)
(* CallResult for every set of HTTP codes and of answers: results are      *)
(* functions of what came over the wire, and the translations are total.   *)
(***************************************************************************)
EXTENDS CallResult, TLAPS

\* Results are what the two ways to make a call make of the wire.
Translated ==
  /\ wire \in Wires
  /\ asyncResult \in {<<>>, <<CallUnaryAsync(wire)>>}
  /\ syncResult \in {<<>>, <<CallUnary(wire)>>}
  /\ elementResult \in {<<>>, <<ParseItemTypeListToElement(CallUnaryAsync(wire))>>}

LEMMA TranslatedAlways == Spec => []Translated
<1>1. Init => Translated
  BY DEF Init, Translated
<1>2. Translated /\ [Next]_vars => Translated'
  <2> SUFFICES ASSUME Translated, [Next]_vars PROVE Translated'
    OBVIOUS
  <2>1. CASE AsyncCallback
    BY <2>1 DEF Translated, AsyncCallback
  <2>2. CASE SyncReturn
    BY <2>2 DEF Translated, SyncReturn
  <2>3. CASE UNCHANGED vars
    BY <2>3 DEF Translated, vars
  <2> QED BY <2>1, <2>2, <2>3 DEF Next, Answered
<1> QED BY <1>1, <1>2, PTL DEF Spec

\* No HTTP code, known or not, makes a failure a success.
LEMMA FallbackFails ==
  ASSUME NEW http
  PROVE  HttpFallback(http) \in IVIResultStatus \ {"SUCCESS"}
<1>1. TranslateHttpError(http) \in IVIResultStatus
  BY DEF TranslateHttpError, IVIResultStatus
<1>2. "UNKNOWN_ERROR" \in IVIResultStatus \ {"SUCCESS"}
  BY DEF IVIResultStatus
<1> QED BY <1>1, <1>2 DEF HttpFallback

\* Nor does a gRPC status that is translated at all.
LEMMA TranslationFails ==
  ASSUME NEW http, NEW grpc
  PROVE  TranslateGrpcError(http, grpc) \in IVIResultStatus \ {"SUCCESS"}
<1>1. CASE grpc \in SameName
  BY <1>1 DEF TranslateGrpcError, SameName, IVIResultStatus
<1>2. CASE grpc \notin SameName
  BY <1>2, FallbackFails DEF TranslateGrpcError, IVIResultStatus
<1> QED BY <1>1, <1>2

\* Answers are sequences of at most two elements, and their heads are answers.
LEMMA AnswersAreLists ==
  ASSUME NEW answer \in Answers
  PROVE  /\ answer \in Seq(Elements)
         /\ Len(answer) >= 1 => <<Head(answer)>> \in Answers
         /\ <<>> \in Answers
<1>1. PICK n \in 0..2 : answer \in [1..n -> Elements]
  BY DEF Answers
<1>2. answer \in Seq(Elements) /\ Len(answer) = n
  BY <1>1
<1>3. ASSUME Len(answer) >= 1 PROVE <<Head(answer)>> \in [1..1 -> Elements]
  BY <1>2, <1>3
<1>4. <<>> \in [1..0 -> Elements]
  OBVIOUS
<1> QED BY <1>2, <1>3, <1>4 DEF Answers

LEMMA ResultTypes ==
  ASSUME NEW w \in Wires
  PROVE  /\ CallUnaryAsync(w) \in Results
         /\ CallUnary(w) \in Results
         /\ ParseItemTypeListToElement(CallUnaryAsync(w)) \in Results
<1>1. w.answer \in Answers
  BY DEF Wires
<1>2. \A s \in IVIResultStatus : Failure(s) \in Results
  BY <1>1, AnswersAreLists DEF Failure, Results
<1>3. \A a \in Answers : Success(a) \in Results
  BY DEF Success, Results, IVIResultStatus
<1>4. \A grpc : Failure(TranslateGrpcError(w.http, grpc)) \in Results
  BY <1>2, TranslationFails
<1>5. CallUnaryAsync(w) \in Results /\ CallUnary(w) \in Results
  BY <1>1, <1>3, <1>4 DEF CallUnaryAsync, CallUnary
<1>6. ASSUME NEW r \in Results PROVE ParseItemTypeListToElement(r) \in Results
  <2>1. r.payload \in Answers /\ r.status \in IVIResultStatus
    BY DEF Results
  <2>2. Len(r.payload) >= 1 => Success(<<Head(r.payload)>>) \in Results
    BY <2>1, <1>3, AnswersAreLists
  <2>3. Failure("NOT_FOUND") \in Results
    BY <1>2 DEF IVIResultStatus
  <2> QED BY <2>1, <2>2, <2>3, <1>2 DEF ParseItemTypeListToElement
<1> QED BY <1>5, <1>6

\* Every result is one of the SDK's statuses with a list of the answer's type.
THEOREM TypeCorrect == Spec => []TypeOK
<1>1. Translated => TypeOK
  BY ResultTypes DEF Translated, TypeOK
<1> QED BY <1>1, TranslatedAlways, PTL

\* What either manager has given is what it makes of the wire.
LEMMA GivenIsTranslated ==
  ASSUME Translated, NEW r \in Given(asyncResult) \cup Given(syncResult)
  PROVE  r = CallUnaryAsync(wire) \/ r = CallUnary(wire)
BY DEF Given, Translated

\* A failed call is SUCCESS in neither manager, and a call that succeeded is.
THEOREM FailuresReported == Spec => []FailureIsReported
<1>1. ASSUME NEW w
      PROVE  CallUnaryAsync(w).status = "SUCCESS" <=> w.ok /\ w.grpc = "OK"
  BY TranslationFails DEF CallUnaryAsync, CheckOkUnaryAsync, Success, Failure
<1>2. ASSUME NEW w \in Wires
      PROVE  CallUnary(w).status = "SUCCESS" <=> w.ok /\ w.grpc = "OK"
  <2>1. BlockingStatus(w) = "OK" <=> w.ok /\ w.grpc = "OK"
    BY DEF BlockingStatus, Wires
  <2> QED BY <2>1, TranslationFails DEF CallUnary, Success, Failure
<1>3. Translated => FailureIsReported
  BY <1>1, <1>2, GivenIsTranslated DEF Translated, FailureIsReported
<1> QED BY <1>3, TranslatedAlways, PTL

\* No payload without SUCCESS, and no element where the list had none.
THEOREM PayloadsValid == Spec => []PayloadIsValid
<1>1. ASSUME NEW w
      PROVE  /\ CallUnaryAsync(w).payload # <<>> => CallUnaryAsync(w).status = "SUCCESS"
             /\ CallUnary(w).payload # <<>> => CallUnary(w).status = "SUCCESS"
  BY DEF CallUnaryAsync, CallUnary, Success, Failure
<1>2. ASSUME NEW r
      PROVE  LET e == ParseItemTypeListToElement(r)
             IN  e.status = "SUCCESS" <=> Len(e.payload) = 1
  <2>1. CASE r.status # "SUCCESS"
    <3>1. ParseItemTypeListToElement(r) = Failure(r.status)
      BY <2>1 DEF ParseItemTypeListToElement
    <3>2. Len(Failure(r.status).payload) # 1
      BY DEF Failure
    <3> QED BY <2>1, <3>1, <3>2 DEF Failure
  <2>2. CASE r.status = "SUCCESS" /\ Len(r.payload) >= 1
    BY <2>2 DEF ParseItemTypeListToElement, Success
  <2>3. CASE r.status = "SUCCESS" /\ ~(Len(r.payload) >= 1)
    BY <2>3 DEF ParseItemTypeListToElement, Failure
  <2> QED BY <2>1, <2>2, <2>3
<1>3. Translated => PayloadIsValid
  <2> SUFFICES ASSUME Translated PROVE PayloadIsValid
    OBVIOUS
  <2>1. ASSUME NEW r \in Given(asyncResult) \cup Given(syncResult)
        PROVE  r = CallUnaryAsync(wire) \/ r = CallUnary(wire)
    BY <2>1, GivenIsTranslated
  <2>2. ASSUME NEW r \in Given(elementResult)
        PROVE  r = ParseItemTypeListToElement(CallUnaryAsync(wire))
    BY <2>2 DEF Given, Translated
  <2> QED BY <2>1, <2>2, <1>1, <1>2 DEF PayloadIsValid
<1> QED BY <1>3, TranslatedAlways, PTL

\* Of the statuses that tell of a failure, CANCELLED is the one for which the
\* HTTP code decides on the result (the default of TranslateGrpcError).
THEOREM OnlyCancelledAsksHttp ==
  ASSUME 404 \in HttpCodes, NEW grpc \in GrpcCodes \ {"OK"}
  PROVE  (\E h1, h2 \in HttpCodes \cup {NoHttpCode} :
            TranslateGrpcError(h1, grpc) # TranslateGrpcError(h2, grpc))
         <=> grpc = "CANCELLED"
<1>1. ASSUME grpc # "CANCELLED", NEW h1, NEW h2
      PROVE  TranslateGrpcError(h1, grpc) = TranslateGrpcError(h2, grpc)
  BY <1>1 DEF TranslateGrpcError, GrpcCodes, SameName
<1>2. ASSUME NEW http PROVE TranslateGrpcError(http, "CANCELLED") = HttpFallback(http)
  BY DEF TranslateGrpcError, SameName
<1>3. TranslateHttpError(404) = "NOT_FOUND"
  BY ResultAssumption DEF TranslateHttpError
<1>4. TranslateHttpError(NoHttpCode) = "SUCCESS"
  BY ResultAssumption DEF TranslateHttpError
<1>5. HttpFallback(404) = "NOT_FOUND" /\ HttpFallback(NoHttpCode) = "UNKNOWN_ERROR"
  BY <1>3, <1>4 DEF HttpFallback
<1> QED BY <1>1, <1>2, <1>5

=============================================================================
