----------------------------- MODULE CallResult -----------------------------
(***************************************************************************)
(* From the end of a unary call to the result an application is given      *)
(* (ivi-client.cpp: CallUnary, the callback of CallUnaryAsync, the status  *)
(* translations, and the one-element form of the item type requests).      *)
(*                                                                         *)
(* The engine answers one request made through both managers; what came    *)
(* over the wire is chosen in Init, and both results are checked.          *)
(***************************************************************************)
EXTENDS Naturals, Sequences

CONSTANTS
  HttpCodes,    \* HTTP codes a proxy may leave in the trailing metadata
  NoHttpCode,   \* the trailing metadata has no httpcode
  Elements      \* what a list answer may hold

ASSUME ResultAssumption ==
  /\ HttpCodes \subseteq Nat
  /\ NoHttpCode \notin Nat

VARIABLES
  wire,          \* the end of the call: ok, grpc-status, httpcode, answer
  asyncResult,   \* result of the call's callback, a sequence of at most one
  syncResult,    \* result of the blocking call, likewise
  elementResult  \* what GetItemType makes of the list, likewise

vars == <<wire, asyncResult, syncResult, elementResult>>

GrpcCodes == {
  "OK", "CANCELLED", "UNKNOWN", "INVALID_ARGUMENT", "DEADLINE_EXCEEDED", "NOT_FOUND",
  "ALREADY_EXISTS", "PERMISSION_DENIED", "UNAUTHENTICATED", "RESOURCE_EXHAUSTED",
  "FAILED_PRECONDITION", "ABORTED", "OUT_OF_RANGE", "UNIMPLEMENTED", "INTERNAL",
  "UNAVAILABLE", "DATA_LOSS"}

IVIResultStatus == {
  "SUCCESS", "INVALID_ARGUMENT", "NOT_FOUND", "PERMISSION_DENIED", "UNIMPLEMENTED",
  "UNAUTHENTICATED", "UNAVAILABLE", "RESOURCE_EXHAUSTED", "ABORTED", "BAD_REQUEST",
  "CONFLICT", "SERVER_ERROR", "NOT_AUTHORIZED", "FORBIDDEN", "TIMEOUT",
  "UNPROCESSABLE_ENTITY", "UNKNOWN_ERROR"}

Answers == UNION {[1..n -> Elements] : n \in 0..2}

Wires == [ok : BOOLEAN, grpc : GrpcCodes, http : HttpCodes \cup {NoHttpCode},
          answer : Answers]

Results == [status : IVIResultStatus, payload : Answers]

TypeOK ==
  /\ wire \in Wires
  /\ asyncResult \in {<<>>} \cup {<<r>> : r \in Results}
  /\ syncResult \in {<<>>} \cup {<<r>> : r \in Results}
  /\ elementResult \in {<<>>} \cup {<<r>> : r \in Results}

-----------------------------------------------------------------------------
(* The translations.                                                       *)

TranslateHttpError(http) ==
  CASE http = 400 -> "BAD_REQUEST"
    [] http = 401 -> "NOT_AUTHORIZED"
    [] http = 403 -> "FORBIDDEN"
    [] http = 404 -> "NOT_FOUND"
    [] http = 409 -> "CONFLICT"
    [] http = 408 -> "TIMEOUT"
    [] http = 422 -> "UNPROCESSABLE_ENTITY"
    [] http = NoHttpCode -> "SUCCESS"
    [] OTHER -> "UNKNOWN_ERROR"

\* Mutant: the answer of TranslateHttpError is given as it is
HttpFallbackAsIs(http) == TranslateHttpError(http)

\* The default of TranslateGrpcError: no HTTP error is no success either
HttpFallback(http) ==
  IF TranslateHttpError(http) = "SUCCESS" THEN "UNKNOWN_ERROR" ELSE TranslateHttpError(http)

SameName == {"INVALID_ARGUMENT", "NOT_FOUND", "PERMISSION_DENIED", "UNIMPLEMENTED",
             "UNAUTHENTICATED", "UNAVAILABLE", "RESOURCE_EXHAUSTED", "ABORTED"}

TranslateGrpcError(http, grpc) ==
  CASE grpc \in SameName -> grpc
    [] grpc \in {"DEADLINE_EXCEEDED", "FAILED_PRECONDITION", "OUT_OF_RANGE"} -> "BAD_REQUEST"
    [] grpc = "ALREADY_EXISTS" -> "CONFLICT"
    [] grpc \in {"DATA_LOSS", "INTERNAL", "UNKNOWN"} -> "SERVER_ERROR"
    [] OTHER -> HttpFallback(http)

-----------------------------------------------------------------------------
(* The two ways to make a call, and GetItemType on top of either.          *)

Failure(status) == [status |-> status, payload |-> <<>>]
Success(answer) == [status |-> "SUCCESS", payload |-> answer]

CheckOkUnaryAsync(ok, grpc) == ok /\ grpc = "OK"

CallUnaryAsync(w) ==
  IF CheckOkUnaryAsync(w.ok, w.grpc) THEN Success(w.answer)
                                     ELSE Failure(TranslateGrpcError(w.http, w.grpc))

\* External: a blocking call has no event.  Where status OK comes without a
\* readable answer, gRPC itself gives the call a status that fails.
BlockingStatus(w) == IF w.grpc = "OK" /\ ~w.ok THEN "UNIMPLEMENTED" ELSE w.grpc

\* Mutant: the blocking call gives the grpc-status as it is
CallUnaryRaw(w) ==
  IF BlockingStatus(w) = "OK" THEN Success(w.answer) ELSE Failure(BlockingStatus(w))

CallUnary(w) ==
  IF BlockingStatus(w) = "OK" THEN Success(w.answer)
  ELSE Failure(TranslateGrpcError(w.http, BlockingStatus(w)))

\* Mutant: the first element of a list that may have none
ParseItemTypeListUnchecked(result) ==
  [result EXCEPT !.payload = IF @ = <<>> THEN @ ELSE <<Head(@)>>]

ParseItemTypeListToElement(result) ==
  IF result.status # "SUCCESS" THEN Failure(result.status)
  ELSE IF Len(result.payload) >= 1 THEN Success(<<Head(result.payload)>>)
  ELSE Failure("NOT_FOUND")

-----------------------------------------------------------------------------
(* One request, answered in both managers in either order.                 *)

Init ==
  /\ wire \in Wires
  /\ asyncResult = <<>>
  /\ syncResult = <<>>
  /\ elementResult = <<>>

AsyncCallback ==
  /\ asyncResult = <<>>
  /\ asyncResult' = <<CallUnaryAsync(wire)>>
  /\ elementResult' = <<ParseItemTypeListToElement(CallUnaryAsync(wire))>>
  /\ UNCHANGED <<wire, syncResult>>

SyncReturn ==
  /\ syncResult = <<>>
  /\ syncResult' = <<CallUnary(wire)>>
  /\ UNCHANGED <<wire, asyncResult, elementResult>>

Answered ==
  /\ asyncResult # <<>> /\ syncResult # <<>>
  /\ UNCHANGED vars

Next == AsyncCallback \/ SyncReturn \/ Answered

Spec == Init /\ [][Next]_vars

-----------------------------------------------------------------------------
(* Properties.                                                             *)

Given(result) == {result[i] : i \in DOMAIN result}

\* A call that did not succeed is never reported as SUCCESS by either manager,
\* whatever the status or HTTP code under it: an event with ok = false may come
\* with a status that says OK, and a CANCELLED call with no HTTP code at all.
FailureIsReported ==
  \A r \in Given(asyncResult) \cup Given(syncResult) :
    r.status = "SUCCESS" <=> wire.ok /\ wire.grpc = "OK"

\* A payload is only given with SUCCESS (ivi-client.h: Payload is only valid
\* if Success()), and an element with SUCCESS only if the list had one.
PayloadIsValid ==
  /\ \A r \in Given(asyncResult) \cup Given(syncResult) : r.payload # <<>> => r.status = "SUCCESS"
  /\ \A r \in Given(elementResult) : r.status = "SUCCESS" <=> Len(r.payload) = 1

\* "If grpc-status was provided, it must be used" (TranslateGrpcError): the HTTP
\* code has no part in the result of a call whose grpc-status says it failed.
GrpcStatusPrevails ==
  wire.grpc # "OK" =>
    \A r \in Given(asyncResult) \cup Given(syncResult), http \in HttpCodes \cup {NoHttpCode} :
      r.status = TranslateGrpcError(http, wire.grpc)
=============================================================================
