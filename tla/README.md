# Verification of the IVI C++ SDK

TLA+ models of `ivi-sdk-cpp`, the TLC runs that check them on small instances,
and theorems about them checked by TLAPS. Paths below are relative to
`ivi-sdk-cpp/` of the repository unless they begin with `src/ivi-sdk-…`.

## 1. The system

The SDK wraps the gRPC API of the IVI engine. An application makes *requests*
(unary calls, answered by a callback) and receives *status updates* on four
server streams (items, item types, orders, players), each of which must be
confirmed by a unary call. One object, `IVIClientManagerAsync`, owns the
clients and two completion queues and does all its work in `Poll()`, called by
the application's thread. When a call fails, `Poll` tears the queue down and
builds a new one. That tear-down is the hard part of the code: gRPC aborts the
program if its calls are finished twice or in the wrong order, leaks if a queue
is not drained, and runs beside the thread all the time.

| Component | State | Operations | Hard behaviour | What makes it correct |
|---|---|---|---|---|
| Stream client, `IVIStreamClientT` (`src/ivi-client.cpp:335-583`) | four flags, the message buffer, four tags in gRPC | construction and `Subscribe`, `startCallback`, `initMetadataCallback`, `finishCallback`, `ProcessNext`, `Finish`, `IsFinished` | tags come back in an order gRPC chooses; `Finish` means `Finish` or `TryCancel` depending on the flags, and the application may call it too | one `Finish` per call; only what was read is confirmed; finished means the call is over |
| Async manager, stream side (`src/ivi-client-mgr.cpp:68-292`) | `streamQueue`, locals of `Poll<false>` | `PollStream`, recovery, `ReinitializeStream`, destructor | healthy streams are torn down with the failed one; rounds are limited; updates keep coming meanwhile | recovery ends, leaves no call open, drops no update, and every stream is reopened |
| Async manager, unary side (same) | `unaryQueue`, locals of `Poll<true>` | `PollUnary`, recovery, `ReinitializeUnary`, destructor | callbacks make requests while the queue is being torn down; queues are replaced under the clients | one callback per request, each tag freed once, no call lost |
| The two together (`src/ivi-client-mgr.cpp:68-136`) | – | `Poll`, destructor | updates are confirmed on the other side's queue, which may be down; the unary loop waits for the streams | either side keeps its promises whatever the other does; an update is given before the engine hears of it |
| Unary calls, `IVIClientT` (`src/ivi-client.cpp:30-326`) | one heap state per call | `CallUnary`, `CallUnaryAsync`, status translation | an event with `ok = false`, an answer that cannot be read, statuses that map to nothing | a failure is never `SUCCESS`, in a callback or from a blocking call |
| Service clients (`src/ivi-client.cpp:585-1634`) | none | 18 requests: make the message, bind the response parser | several in flight; answers that do not name their item; lists of one | a result is about its own request |
| Model codecs (`src/ivi-model.cpp`, `include/ivi/ivi-model.h`) | none | `FromProto`, `ToProto`, JSON, confirmations | aggregates filled by position; empty, absent and `{}` | every field in its place; what is read is what was written |
| Enumerations (`include/ivi/ivi-enum.h`) | none | `ECast` | an `int` narrowed to `char` | the confirmation echoes the update |
| Sync manager, configuration, connection, logging, example | – | – | – | see section 7 |

Interactions: `Poll` runs the clients' callbacks out of the queues; stream
clients submit reads to the stream queue and confirmations to the unary queue;
application callbacks run inside `Poll` and make further requests; `Poll`'s
recovery destroys and rebuilds the clients in place.

The hazards this code is exposed to are listed with their lines in
`PROJECT.json`; the properties below are aimed at them.

## 2. Modules

| Module | Models | Correspondence |
|---|---|---|
| `StreamClient` | the stream clients and the streaming calls under them | each `StreamState` bit is the set of clients that have it set; `tag[c][t]` says where a tag is; each callback is an action; `Finish(cs)` is `Finish` on each of `cs`, and `Cancelling` says for which it means `TryCancel`; `Break`, `Complete`, `Push` are gRPC and the engine |
| `StreamPoll` (extends it) | `Poll<false>`, the stream recovery, the destructor, the application's own `Finish` | `phase` is the place of the one thread between two calls whose order matters; an event taken by `processQueue` is one step, so gRPC interleaves with every event |
| `UnaryCalls` | the abstract promise of requests: one callback each | written for the application's view only |
| `UnaryPoll` | `CallUnaryAsync`, `Poll<true>`, the unary recovery, the destructor | queues are numbered, so that a tag left on an old queue is visible; `freed` and `calledBack` count; the streams are an environment that finishes and is rebuilt at any time |
| `StreamFeed` | the abstract promise of streams: received, given, then acknowledged | written for the views of the application and of the engine |
| `ManagerPoll` (extends `StreamPoll`, instantiates `UnaryPoll`) | `Poll()` whole, the destructor whole | `at` is the place of the thread between `PollUnary`, `PollStream` and the two reinitialisations; an update that is given makes a unary request in the same step; `acked` is what the engine knows |
| `CallResult` | from the end of a call to an `IVIResult` | the translations are operators; one answer is given through both managers; `BlockingStatus` is gRPC's part of a blocking call |
| `Enums`, `StateEcho` | `ECast`; a state from update to confirmation | `ECast` is the wrap to a signed `char` |
| `JsonStruct` | the two JSON conversions | texts and objects are abstract; `Denotes` and `Printed` relate them |
| `ServiceClients` | the requests | one action per request, an engine that executes and answers in any order |
| `ModelCodecs` | the structs, `FromProto`, `ToProto`, `sendConfirm` | a struct is the header's list of fields and the source's list of initialisers, matched by position (`Aggregate`) |
| `MC…` | constants for TLC | |
| `…Proofs` | theorems | extend the module they are about |

`ManagerPoll` does not restate the two halves: its actions are theirs, with the
place of the thread as a further guard, so each theorem about a half is a
theorem about the manager once the manager is shown to implement that half
(`StreamSide`, `UnarySide`). The next reads: `StreamClient`, `StreamPoll`,
`UnaryPoll`, then `ManagerPoll`.

## 3. Runs

| Run | Question | Result |
|---|---|---|
| `stream_safety` | Can a recovery, the application or the destructor finish a call twice, finish late, leave a call open, drop an update, confirm what was not read, or claim to be graceful wrongly? | no; 502,729 states |
| `stream_live` | Does a recovery end, a stream come back, a received update arrive? | yes, if the engine does not repeat confirmed updates; 245,677 states |
| `unary` | Is each tag freed once, no call lost, `UnaryCalls` implemented? Do answers arrive, and do recoveries end once the streams are finished? | yes; 62,108 states |
| `manager_safety` | Do both halves keep their promises in one thread, and does an update reach the application before its confirmation reaches the engine? | yes; 861,471 states |
| `manager_live` | What keeps a broken stream closed? | only a unary recovery that waits for streams, and it ends where they are finished when it starts; 89,768 states |
| `manager_stall` | Does `Poll` always return? | **no**: a unary recovery beside a healthy stream waits for ever |
| `manager_late` | Is nothing enqueued on the unary queue after `Shutdown`? | **no**: confirmations are |
| `call_result` | Is a failure ever a success, or a payload given without one, in either manager? | no; 9,520 states |
| `call_result_cancelled` | Does a gRPC status that was provided decide the result? | **no**: for `CANCELLED` the HTTP code does |
| `state_echo_new` | Are newly defined states echoed? | **no**: from 128 on |
| `service_clients` | Does a result belong to its request, with the JSON last written? | yes; 725,054 states |
| `model_codecs` | Does every field arrive in its place, and come back as it was sent? | yes; 3,991 states |

The **no** rows contradict a comment, header or test of the repository; the
findings in `PROJECT.json` quote it.

What the two manager findings mean together: `PollUnary` shuts its queue down
when one answer cannot be read, and then waits until `IsStreamFinished()`. No
stream event is taken there, so with a subscribed stream only an earlier end of
that stream lets it go on (`RecoveryAwaitsStreams`), and `Poll` does not return
(`PollReturns`). Where the streams were finished, by the application or by a
failure, `Poll` goes on to `PollStream` with the unary queue still down; an
update that is still in the stream queue then confirms over it
(`NoLateConfirmation`). In the models a late confirmation completes like any
other and harms neither half (`StreamSide`, `UnarySide`) nor the update itself
(`UpdatesKept`): the engine sends again what it has no confirmation of. What
gRPC makes of work that is enqueued after `Shutdown`, and above all after the
queue has drained, is its own affair, and nothing is claimed of it (section 5).

The two managers do not agree on every end of a call: for an answer that
cannot be read under status `OK` the blocking call has the status that gRPC
itself gives it, while the callback gets `UNKNOWN_ERROR` or what the HTTP code
says. `FailureIsReported` says what they have in common: neither is `SUCCESS`.

### Bounds, and why they are enough

- Streams: two subscribed clients and, for safety, one without a callback.
  Recovery treats each client by its own flags; what clients share is the queue
  and the loop, so one failing and one healthy client show every interaction,
  and the third shows the branch for a client that never subscribed.
  `errorLoopMax` is 3, where the half-way `FinishStream` comes before the last
  round (2 in the liveness and manager runs, the least the header allows). The
  number of failures, recoveries and polls is not bounded. The updates of
  `stream_live` are: `processQueue` stays in its loop for as long as updates
  arrive, so against an engine that never stops sending no recovery would end,
  and the code promises none.
- `UserFinishes` names the clients the application may finish by itself: all of
  them in `stream_safety`, none in `stream_live`, the subscribed one in the
  manager runs, so that the reopening of an unsubscribed stream is in
  `manager_live`.
- Unary: four requests allow a failed call, one pending beside it, and
  callbacks making requests in every phase. A request is made once, which
  bounds the number of recoveries and of queues. One of the four is
  answered or not, as the server likes (`Answered`).
- Manager: one subscribed client and one that is not, one request and one or
  two confirmations. The two halves are checked with more in their own runs,
  and the refinements proved for any number; what is new here, the order of the
  two sides, needs one of each, and a second confirmation shows an update
  repeated by an engine that has none. `ConfirmationsLeft` keeps the engine from
  pushing an update no confirmation is left for, which bounds the updates and
  never the failures. With one subscribed stream a recovery meets no
  update in a buffer of a healthy stream; that no recovery drops one is checked
  with two in `stream_safety` (`RecoveryKeepsUpdates`) and proved of the manager
  for any number (`FeedRefinement`).
- `CallResult`: all gRPC codes and a code for each branch of the HTTP switch;
  lists of up to two.
- `StateEcho`: 0 to 300, the known states, and new ones within and past a
  `char`'s range. What fits a `char` is left to the theorems, which need no
  bound.
- `ServiceClients`: two requests in flight, so that a read can follow or race a
  write, over two items, two types of which one is unknown, a player, two
  orders, and two spellings of one object beside `{}`, no text and malformed
  text. Lists hold up to `MaxList` entries: none, which asks for everything or
  changes nothing, one, or two, among them twice the same thing with two texts.
  A new order comes without purchased items or with one (`MaxPurchased`), whose
  JSON may be malformed. The proofs say that a longer list shows nothing else.
  The requests are interchangeable, so their symmetry is used. The run ends when
  the requests are used up or `IVI_CHECK` has exited: deadlock is not checked
  there.
- `ModelCodecs`: of each message, with every field unset but one
  (`MCMessages`). The codecs copy values without looking at them, except for
  presence and JSON, so two fields that change places, or one that is forgotten,
  show in the message that sets one of them. The values are 0, 1 and
  `INT32_MAX`, the number for "no score", which an engine may send as well as any
  other: the flag tells them apart. The proofs are about every message
  (`Messages` is a parameter). A struct has come back at the end: deadlock is
  not checked.

### Fairness

The thread's steps are weakly fair: `Poll()` "must regularly be called"
(`include/ivi/ivi-client-mgr.h:24`) and `AsyncNext` has a deadline. gRPC gives
back the tags of a streaming call that is over (`Drains`); nothing is assumed of
a stream that is alive, of the server or of the connection. The SDK gives
unary calls no deadline, so only a server or a connection ends one: in `unary`
the calls in `Answered` are ended and the others may never be, and then a
recovery waits for one of its own queue (`RecoveryEnds`) but no other answer is
held up (`AnswerDelivered`). The manager runs assume that every call ends. The application is never obliged to make
a request, to unsubscribe or to destroy the manager. `UnaryPoll`'s `RecoveryEnds` and
`ManagerPoll`'s `EndsWhenFinished` have as a condition that the streams are
finished, since without it recovery does not end (`manager_stall`).

## 4. Proofs

`StreamPollProofs` proves, for any set of clients and updates and any
`errorLoopMax`, type correctness and every safety property of `stream_safety`.
The properties are not inductive by themselves: that a drained queue means that
all clients are finished depends on `Finish` having been called on each of them
before `Shutdown`, and on a client that waits for `finishCallback` still having
its tag out. `IInv` says these: finished clients have dead calls
(`FinishedAreDead`), the flag `finishCalled` follows the tag (`FinishTags`,
`FinishAwaited`), `Shutdown` comes after a `FinishStream`
(`ShutdownIsAfterFinish`), the second one has finished everybody by half of the
rounds (`CancelledByHalf`), and `SHUTDOWN` was said by a queue that stays
drained (`ShutdownMeansDrained`, `EndsOnShutdown`). One lemma per action shows
it preserved. `NoOrphan` and `RecoveryKeepsUpdates` carry the condition
`errorLoopMax >= 2` that `ivi-config.h` asks for; for 0 and 1 they are false.
The second (theorem `NothingDropped`) needs one fact more: with the half of the
rounds behind it the loop has a round left, in which what came meanwhile is
taken.

`UnaryPollProofs` proves type correctness, the safety properties and the
refinement `Spec => OneCallbackPerRequest`: each step of `UnaryPoll` is a step
of `UnaryCalls` or a stutter, given that a callback is called exactly when its
tag is freed outside the destructor (`CalledWhenFreed`).

`ManagerPollProofs` proves that the manager implements `StreamPoll`
(`StreamHalf`), `UnaryPoll` (`UnaryHalf`) and, from `errorLoopMax` 2 on,
`StreamFeed` (`FeedRefinement`). The refinement mappings are the identity on
each half's variables, with `streamsFinished` for the value of
`IsStreamFinished`; the work is to show that what one half does is something
that the other's environment may do: a confirmation is a request made outside
the unary callbacks, which needs `PollStream` to run only with the unary side
idle or drained; a stream rebuilt after both sides failed finds the unary side
idle (`ReinitIsIdle`). The theorems of the halves then hold of the manager by
instantiation (`StreamGuarantees`, `UnaryGuarantees`). For `StreamFeed`, an
update leaves a buffer only when it is given, since a recovery that rebuilds the
buffers finds none in them (`NothingDropped`), and the engine has a confirmation
only of what was given (`ConfirmsGiven`).

`CallResultProofs` proves the properties of `call_result` for any HTTP codes
and any answers: each result is a function of what came over the wire
(`Translated`), and no translation ends in `SUCCESS` (`TranslationFails`).
`OnlyCancelledAsksHttp` says how far the finding of `call_result_cancelled`
goes: of the gRPC statuses that tell of a failure `CANCELLED` is the only one
for which the HTTP code changes the result.

`StateEchoProofs` says how far the states of updates may go, each theorem with
its bound as a hypothesis: what is shown and confirmed fits a `char` whatever is
sent (`TypeCorrect`), confirmations echo if every state sent fits a `char`
(`EchoIsFaithful`; past it, `state_echo_new` shows one that does not), and a
state in -128..255 is never taken for a known one (`KnownIsFaithful`; 256 is
taken for 0).

`ServiceClientsProofs` proves the three invariants of `service_clients` for any
number of requests in flight, any things and texts, and lists of any length. None
is inductive: that a result names its own request depends on what was asked
having become the message that was sent (`AskedIsSent`), on the answer
having been made of that message (`AnswerIsConsistent`), and on a result coming
only from an answer (`ResultIsAnswered`); that JSON reads back as it was last
written depends on the engine's object of each thing being that of the text the
application wrote last (`StoredIsWritten`), which every write must keep, a list
that names a thing twice too: there the last entry is stored, and `LastOfIsThere`
shows that every thing named has one. `CodecsInvert` is the lemma about
`ToProto` and `FromProto` it all rests on, `ParsedEntries` the one about the
response parsers.

`ModelCodecsProofs` proves the four invariants of `model_codecs` for every
message, with any number of fields set, and for any JSON the application writes
into a struct. `AggregateByName` reduces an aggregate filled by position to the
same struct filled by name, given that each value is that of the field declared
at its place; one lemma per struct (`ItemByName`, `OrderByName`, …) checks that
of the list in `ivi-model.cpp` against the list in `ivi-model.h`, and would fail
if two of its up to 20 initialisers changed places. `IInv` says that a struct
keeps its shape through the parsers (`AllReceived`) and through edits
(`MetadataEdited`, `OrderEdited`), and that what is sent was made of the struct
or the update there is now (`SentIsMade`); one lemma per convertible struct
(`ItemBack`, `OrderBack`, …, collected in `AllBack`) shows that it reads back.

The proofs rest on the named assumptions of the modules (`ClientAssumption`,
`LoopAssumption`, `UnaryAssumption`, `ManagerAssumption`, `ResultAssumption`,
`JsonAssumption`, `ThingsAssumption`, `CodecAssumption`,
`MessagesAssumption`), on the hypotheses the theorems state, and on nothing
else. The last four are about data: printing and parsing JSON are inverse up to
spelling, the kinds of ids are disjoint, states fit a `char`, and the fields of
a message are of their types.

Every safety property that a passing run checks, invariant, action property or
refinement, is thus a theorem. Only model-checked are the liveness properties
`RecoveryEnds`, `AutoRecovery`, `UpdateDelivered`, `AnswerDelivered`,
`ReopenedUnlessDraining` and `EndsWhenFinished`, since fairness and `ENABLED`
are out of the prover's reach, and the disagreements of the runs that expect a
violation, which are counterexamples.

## 5. What the models leave out

- gRPC is modelled from how the SDK uses it: a call that is over gives back all
  its tags, reads with `ok = false`; a live call's start, metadata and reads
  succeed. gRPC's own aborts are not modelled; the properties state that what
  provokes them is not done. What gRPC does with work enqueued after `Shutdown`
  is not either: the models let it complete. A blocking call whose answer cannot
  be read ends with a gRPC status that fails (`BlockingStatus`).
- Time: a poll that times out is a poll that finds nothing ready. A second and
  a minute are the same.
- `Poll` requires `autoconfirmStreamUpdates`; the mode of separate threads,
  which the header calls untested, is not modelled. `UnaryPoll` lets requests be
  made between `PollUnary` and `ReinitializeUnary`, so its theorems cover an
  application that calls the two by itself.
- Callbacks of unary requests make requests; those of streams do not, and
  neither calls `Poll` or destroys the manager. `Poll` is not called again after
  it returned false, when the manager "should be discarded".
- `ServiceClients` keeps of a request the things it names and their JSON, with
  that of a new order's purchased items; paging arguments and payment data are
  not kept. `IVI_CHECK` ends the program,
  as in the default build.
- `ModelCodecs` takes text, numbers, lists and flags for values that are copied
  whole, and states that fit a `char` (`StateEcho` has the others).

## 6. Plan

Done: the stream side, the unary side, their composition with three
refinements, results, states, service clients and codecs, each with theorems
of its safety properties. Left, in order:

1. Callbacks of streams that make requests, and callbacks that call `Poll` or
   destroy the manager, in `ManagerPoll`.
2. The reader and writer threads of the mode without autoconfirm, as a
   specification of the same actions with two more threads.
3. Paging and payment data in `ServiceClients`.

## 7. Not modelled

The sync manager beyond `CallUnary` (in `CallResult`): it holds clients and no
state of its own. Configuration and connection construction (values and gRPC
channel options; failing checks exit before the manager exists); logging; the
example program (a demonstration that counts its own callbacks);
`ivi-executor.h` (type aliases); `ivi-enum.cpp` (compile-time assertions); the
generated protobuf code, which is not in the repository; the unit tests, which
were read for what they assert.
