# Verification of the STT Gateway toolkit

`com.ibm.streamsx.sttgateway` brings telephone speech to text inside IBM Streams.
`IBMVoiceGatewaySource` is a websocket server that takes the speech of calls
from a voice gateway, `WatsonSTT` sends speech to the Watson speech-to-text
service and submits what the service recognises, and `IAMAccessTokenGenerator`
keeps `WatsonSTT` supplied with access tokens. Samples put them together: a router
gives every call to a speech processor, and a simulator plays calls to the source.
This directory holds TLA+ models of the three operators, of the decoder and the
output tuples of `WatsonSTT`, of the router behind the source, and of the simulator
before it; TLC configurations that check small instances; and proofs checked by
TLAPS that hold for every instance.

Contents: [the system](#the-system) ·
[modules](#modules) · [runs](#runs) · [bounds](#bounds) · [fairness](#fairness) ·
[proofs](#proofs) · [findings](#findings) · [limits of the models](#limits-of-the-models) ·
[plan](#plan)

Paths below are relative to `src/com.ibm.streamsx.sttgateway/`, those of samples to `src/`. Short names:
*Impl* is `impl/include/WatsonSTTImpl.hpp`, *Receiver* is
`impl/include/WatsonSTTImplReceiver.hpp`, *VGW* is
`com.ibm.streamsx.sttgateway.watson/IBMVoiceGatewaySource/IBMVoiceGatewaySource_cpp.cgt`,
*IAM* is `com.ibm.streamsx.sttgateway.watson/IAMAccessTokenGenerator.spl`, *Router* is
`samples/VgwDataRouter/com.ibm.streamsx.sttgateway.sample/VgwDataRouter.spl`,
*Simulator* is `samples/VoiceDataSimulator/IBMVoiceGatewayDataSimulator.cpp`.


## The system

```
 voice gateway, or VoiceDataSimulator                      IAM service
   |  websocket per leg                                       |  HTTP post
   v                                                          v
 IBMVoiceGatewaySource --> VgwDataRouter ----> WatsonSTT <-- IAMAccessTokenGenerator
   speech, EOCS tuples  queue  (a speech         |  ^  port 1: access tokens
   ^                   processor per call)       v  | websocket
   | HTTP: limit, statistics                   STT service
```

### Components

| component | code | state it keeps | operations |
|---|---|---|---|
| WatsonSTT sender | Impl | `mediaEndReached`, `oTupleWastebasket`, counters of conversations and attempts | `process_0` (audio), `processPunct_0` (window and final marker), `process_1` (token), `connect`, `sendDataToSTT`, `sendActionStop` |
| WatsonSTT receiver | Receiver | `oTupleUsedForSubmission`, the websocket client, counters of conversations transcribed and failed | `ws_init` with reconnection, `on_open`, `on_fail`, `on_message`, `on_close`, `prepareToShutdown` |
| shared by both | both | atomics `wsState`, `transcriptionFinalized`, `nextConversationQueued`, `recentOTuple`; `wsClient` and `wsHandle` without protection | |
| IBMVoiceGatewaySource | VGW | maps of connections, sessions, call numbers, throttled calls and telephone numbers; active and peak counts; the limit | `on_open`, `on_message`, `on_close` with the purge, `on_http_message`, `prepareToShutdown` |
| IAMAccessTokenGenerator | IAM | api key read last, refresh token, attempt counters | one thread: `onProcess` |
| response decoder | `impl/include/Decoder*.hpp` | the attributes of the message decoded last, as far as it was decoded | `doWork` with one step per kind of attribute |
| results in output tuples | Receiver, `WatsonSTT_cpp.cgt` | attributes of the tuples, the held result, start times of its words | result, speaker, error and end branches of `on_message` and `on_close`, `SpeakerProcessor` |
| voice call data router | Router | count of every processor, processor of every session, completed channels, last choice | `onTuple BSD`, `getSpeechProcessorIdForNewCallProcessing` |
| other router samples | `samples/VgwDataRouterToWatson*`, `samples/VoiceGatewayToStreams*` | allotment of speech engines to channels | SPL operators |
| VoiceDataSimulator | Simulator | status and last message of two connections, the rest of the file | `main`, handlers of the connections, destructor |
| glue, functions, tests | `WatsonSTT_cpp.cgt`, `Utils.spl`, `CppUtilFunctions.h`, `tests` | none | |

`PROJECT.json` lists them with their status.

### Interactions and what is hard about them

*Sender and receiver of WatsonSTT* share atomics and no lock. The sender polls
`transcriptionFinalized` and `wsState`; the receiver reads
`nextConversationQueued` and `recentOTuple`. Output tuples are allocated by the
sender, written and submitted by the receiver, and deleted by the sender, which
must know by flags alone that the receiver holds none. A connection may fail,
be rejected, drop or time out at any of these steps; the receiver may die of an
exception and start again; a job may be cancelled anywhere.
Correct means: no thread reaches a deleted tuple; what is recognised goes to
the tuple of its own conversation; each conversation ends once, with its end
tuple and marker, before the next one begins; no audio is given to a connection
that is being closed; no wait lasts for ever.

*The handlers of IBMVoiceGatewaySource* run on one thread, so each is atomic, but
legs open, speak, fall silent, close, and are purged in any order, session ids
come back, and the limit changes while calls are ignored because of it.
Five maps and two counters must agree throughout: an unsigned count that is
lowered once too often closes the operator to every later call.
`prepareToShutdown` alone runs beside the handlers.

*Decoder and tuples* are used over and over: the decoder keeps its attributes from
message to message and may stop in the middle of one, and one tuple carries
interim results, a result, an error and the end of a conversation in turn. A
final result waits in its tuple for speaker labels, which come in another
message, or with the result, or never, and are matched to words by their times.
Correct means: a tuple shows one message; its speakers are those of its words;
every label is accounted for; every final result goes out once.

*VgwDataRouter* learns of calls only from tuples, through a queue: what it thinks
alive may be over. Places taken at the first speech of a call are given
back at its end-of-call signals, of which there may be two, one or none.
Correct means: a count is the number of calls behind it, no call is refused
where the source admits no more than there are places, and places come back.

*VoiceDataSimulator* sleeps and looks, on one thread, at what the handlers of two
connections write on two others. Correct means: audio only after both sessions
have begun, each byte to one channel, and an end.

*IAMAccessTokenGenerator* lives with a service that fails, refuses and forgets
to tell how long a token lives, a `submit` that may block, and an administrator
who changes the api key. It must renew in time, never spend a refresh token of
another key or one that was refused, go on after failures, and end when told.


## Modules

| module | models | by |
|---|---|---|
| `OTupleHandover` | what sender and receiver promise each other about output tuples | abstract: allocate and offer, withdraw, take and let go, delete all |
| `WatsonSTT` | both threads of the operator; the service, the network and the runtime around them | one program counter per thread; one step per access that the other thread can observe |
| `WatsonSTTProofs` | theorems about `WatsonSTT`: tuples and the handover; connections, conversations, their ends and their order | |
| `Decoder` | all of `Decoder*.hpp` | pure operators, from attributes and message to attributes; below them what a well-formed message says, as a reference |
| `DecoderProofs` | lemmas about `Decoder`: what it makes of a message | |
| `UtteranceResults` | what the receiver writes to tuples and submits | one action per callback, which threads one record through the helpers of the code |
| `MCUtteranceResults` | messages and parameter settings that are checked | |
| `UtteranceResultsProofs` | theorems about `UtteranceResults` | builds on `DecoderProofs` |
| `CallAdmission` | what the source promises about its limit of concurrent calls | abstract: admit, refuse, speak, leave, set the limit |
| `IBMVoiceGatewaySource` | all websocket and HTTP handlers that change state, purge, shutdown | one action per handler and case |
| `MCIBMVoiceGatewaySource` | symmetry of handles and session ids | |
| `IBMVoiceGatewaySourceProofs` | theorems about `IBMVoiceGatewaySource` | |
| `VgwDataRouter` | the `VoiceCallDataRouter` of the sample | one action per branch of `onTuple BSD` |
| `VgwDataRouterProofs` | theorems about `VgwDataRouter` | |
| `RoutedCalls` | source and router with the queue between them | composes the two modules: a handler of the source queues its tuples, a step of the router takes one |
| `MCRoutedCalls` | symmetry and view of the composition | |
| `RoutedCallsProofs` | theorems about `RoutedCalls` | builds on those of source and router |
| `VoiceDataSimulator` | the program, its connections, the server as it sees it | a program counter for `main`, one action per handler |
| `VoiceDataSimulatorProofs` | theorems about `VoiceDataSimulator` | |
| `IAMAccessTokenGenerator` | the `onProcess` thread with its pauses, the clock, the key, the service | one program counter; a `Tick` counts pauses and validity down |
| `MCIAMAccessTokenGenerator` | the sets of parameters that are checked | |
| `IAMAccessTokenGeneratorProofs` | theorems about `IAMAccessTokenGenerator` | |

`map` in `PROJECT.json` gives the lines of every definition.

A definition introduced by "Slip:" is a plausible mistake in the code of the
definition that follows it. None is used by a specification; replacing
its neighbour by it must violate a property. `mutants` in `PROJECT.json` pairs
each property with its slip.

### WatsonSTT

Both threads are loops with a program counter, `spc` and `rpc`.

* `spc` "ready" is the sender outside `process_0` and `processPunct_0`;
  "waitEnd" and "final" are the two polling loops for the end of a
  transcription, of which one iteration loads the state (`sStopped`) and another
  step tests it; "forget" and "recycle" empty the wastebasket; "connect" and
  "attempt" are `connect()`, whose request follows a delay after the state was
  read; "publish" and "sendData" make the new tuple known and then send.
* `rpc` "loop" and "setup" are `ws_init`, "run" is inside the library, every other
  value is inside a handler, between two effects that the sender can see.
* `phase` and `requests` are the connection and the service. A *request* is the
  audio between two stop messages, with the set of conversations whose audio it
  holds: the model does not assume that it holds one, that is what
  `ResultsMeetTheirConversation` checks. The service answers requests in order.
* An output tuple is a pair of conversation and fragment number. What its
  attributes hold is left out; `out` is what was submitted last.
* `nFaults` counts what goes wrong outside: refused or dropped connections, error
  messages, undecodable messages, exceptions, empty tokens.

### Decoder and UtteranceResults

`WatsonSTT` leaves out what tuples hold; these modules leave out when the threads
get at them. Callbacks are one step, since only the receiver touches results
and `WatsonSTT` shows that the tuple it writes to is not deleted meanwhile.

* A message is a record of members; a member may be `Absent` or `IllTyped`, which
  stands for every wrong type and every array of a wrong size. `Readable` is what a
  loop has read when it meets an ill-typed entry.
* The lists the decoder always extends together are one list of records. Keywords
  are read in the order of the parameter, `keywordsToBeSpotted`; a keyword's matches and a word's alternatives are single values.
* `source`, `labels` and `due` of a tuple are history: the message, the labels
  and the debt that its attributes stand for. `owed` counts final results that were
  written to a tuple and not submitted.
* `AsRequested` is the one assumption about the service: it sends results one by
  one and apart from labels unless complete results were asked for, and complete
  results are final. The code logs an error where it is not so.

### VgwDataRouter and RoutedCalls

The map of completed channels is the set of its keys. The search of the next
processor visits `Checked(0)`, `Checked(1)`, ... and takes the first that has room.
`RoutedCalls` extends `IBMVoiceGatewaySource` and instantiates the router under
the same variable names; the tuples of one handler are queued in any order.

### VoiceDataSimulator

`link` is a connection as the library knows it, `m_status` what the handlers noted,
which `main` reads. `wire` and `answers` hold what is on its way; `received` is what
the server got. Sleeps have no length: `main` may look early or late.

### IBMVoiceGatewaySource

Maps are functions on their keys. `operator[]` of `std::map` inserts a zero for
a key it does not find; `ReadBy` models this, since two reads of the purge hit
keys that were erased. `CloseKnown` is the whole of `on_close`, in two parts as
in the code: the leg and perhaps its call (`LegEnds`, `CallEnds`), then, once per
interval, all stale sessions and all stale connections. The signals it submits
are a set, `out`.

### IAMAccessTokenGenerator

A refresh token is identified by the key it was granted for. `elapsed` is the
time since the running `httpPost` or `submit` began, `wait` what remains of a
`block()`, `tokenLeft` what remains of the validity of the token handed out
last, counted from the service's answer as the code does, which knows no other time. `refused` remembers whether the service said no to the last request. The
configuration is a variable chosen initially, so one run covers several.


## Runs

### Passing

| run | question | properties |
|---|---|---|
| `WatsonSTT_speakers` | Speaker labels split a result into two submissions and hold a tuple back in between. Do the threads hand tuples over safely? | `TypeOK`, `NoDanglingTuple`, `QuietAfterFinalized`, `ResultsMeetTheirConversation`, `MessagesFindListener`, `ClientStableWhileSending`, refinement `HandoverSpec`, `EndTupleThenWindowMarker`, `OutputInOrder` |
| `WatsonSTT_conversations` | Can the end of one conversation and the beginning of the next cross? | `FinalizedOnlyBetweenConversations`, `OneRequestAtATime`, `CloseLosesNoAudio`, `MovesOnAfterMarker` |
| `WatsonSTT_liveness` | Does any wait hang, with a fault and a cancelled job? | `SenderReturns`, `StopEndsTranscription`, `ShutdownEndsReceiver` |
| `Results_messages` | Does a submitted tuple show its own message, its own speakers, and nothing else, whatever came before? | `TuplesShowTheirMessage`, `SpeakersFollowWords`, `LabelsAccountedFor`, `FinalResultsOnce`, `NothingLeftOver` |
| `VGW_calls` | Do legs, lists, numbers and signals agree, without purging, under changing limits and a shutdown? | `ListsCountLegs`, `TuplesCarryCallNumber`, `ThrottledCallsAreSilent`, `EveryLegIsSignalled` |
| `VGW_purge` | What still holds when live calls are purged under their legs? | `ActiveCountsCalls`, `LiveCallsHaveOwnNumbers`, `PhonesBelongToLegs`, refinement `AdmissionSpec` |
| `Routed_calls` | Do source and router agree on the calls, with a queue between them? | `CountsAreCalls`, `NoCallRefused`, `PlacesGivenBack` |
| `Simulator_call` | Does the simulated call keep its order, with connections that are late, fail or break? | `AudioAfterBothStarted`, `AudioSharedOut`, `SimulatorEnds` |
| `IAM_tokens` | Is the right request made at the right time, under faults, refusals and key changes; does a token come, does the thread end? | `RequestsUseKeyRead`, `RefusedTokenIsDropped`, `RenewedInTime`, `ShutdownEndsThread`, `TokenComes` |

Every property is stated in words above its definition. What they show together:

* *The handover is safe.* The promises in the comments on `oTupleWastebasket`
  and `recentOTuple` hold in every interleaving, with faults and reconnections.
* *Conversations do not mix.* The state read early and tested late (Impl 453 to
  458) does no harm; a late listening message, a drop between two markers and a
  connection closed just as the next conversation is queued do none either. What
  leaves the operator leaves in the order of the conversations.
* *A tuple shows one message.* Neither an exception in the middle of decoding nor
  the reuse of tuples carries anything over; labels that are late, repeat a time or
  fit no word are accounted for.
* *A final result goes out once*, unless an exception in a callback drops it: one that
  is held back when the connection closes goes out with the error tuple.
* *Places of speech processors are neither lost nor given twice* behind the queue,
  save for the case the sample's own comment describes.
* *The simulator keeps its order and ends*, unless a connection opens after it
  has given it up.
* *The gateway's count of active calls is exact*, also with purges, and a session
  id is never ignored because of a call that is over. Each call is admitted or
  refused once, by the calls that are admitted when it begins.
* *Tokens are renewed `guardTime` before their end*, or as soon as `submit`
  returns, whenever the service tells a validity no shorter than `guardTime`. The end
  is the one on the code's own clock, see the limits below.

`CHECK_DEADLOCK FALSE` is set except for `UtteranceResults`, whose messages have no
end: elsewhere the environment has a finite supply of
items, packets, faults, grants or ticks, after which the operators rest, and a
cancelled job ends. The liveness runs show that the code does not stop elsewhere.

### Violations

Each shows that the code does not do what a comment or the documentation says;
see [findings](#findings).

| run | property violated |
|---|---|
| `WatsonSTT_lost_marker` | `WindowMarkerInAnyCase` |
| `VGW_throttled_signal` | `ThrottledCallsAreSilent` |
| `Results_keywords` | `KeywordsOfAllResults` |

`ThrottledCallsAreSilent` passes in `VGW_calls`, without purging, and fails with it:
the purge breaks it. The same holds of `TuplesCarryCallNumber` and
`EveryLegIsSignalled`, for which there is no run of their own.


## Bounds

| bound | meaning | values, and why they are enough |
|---|---|---|
| `MaxInputs` | items (samples, empty blobs, unreadable files, markers) on port 0 | 3, 4 and 2. Two conversations need two items, a third and fourth let one conversation follow a failed one, and let markers come twice in a row. |
| `MaxFaults` (WatsonSTT) | faults of network, service, tokens | 1 and 2: a fault, and another one while the first is being dealt with. |
| parameters of WatsonSTT | | Speaker labels with interim results are the setting in which callbacks hold tuples longest; complete results without speaker labels the one in which each result is submitted at once. The theorems cover the others. |
| `Connection`, `Session` | legs and calls | 3 legs of 2 calls: a call of two legs beside another call, and a call that comes again under its id. |
| `MaxPackets`, `MaxEmpty` | speech packets of a leg, empty ones of all | 2 and 1: the first packet and later ones take different paths. |
| `MaxTime` | ticks | 0 without purging; 2 with an interval of 1: a purge of sessions at the first tick, late packets, and a purge of sessions and connections at the second. |
| `InitialMaxConcurrentCalls`, `Limits` | | 1, then 0 or 2: calls above, at and below the limit, the limit lowered and raised. With purging 1, then 2. |
| `MaxFaults`, `MaxGrants`, `MaxKeyChanges` (IAM) | | 3, 2, 1: three failures make the pause reach its cap; a grant and its refresh; a key that changes or vanishes. The theorems cover keys that change back. |
| `CallTime` | longest `httpPost` or `submit` | 2: as long as the shorter validity. |
| sets of parameters (IAM) | | guard times of zero, below, equal to and above a validity, the test value, a configured token, and two parameters that are rejected. |
| `Message` | what the service may send | 55 messages: ten lists of results (none, final with one and two words, without words, interim, two results, two of which the second is broken, two of which the first has no words, two keywords of which the second is broken, no object) with five lists of labels, and five others. Each follows each, so every pair of a stale and a new attribute occurs. |
| `TupleId` | | 2: one held, one recent. |
| `Configs` (results) | | the three modes with and without speakers. |
| `Connection`, `Session`, `Limits` (routed) | | 4 legs of 3 calls, a limit of 2 and then 1: two calls at their limit and one beyond it or after it. |
| processors, places | | 2 with 1 each: the search wraps round and a place is missed when it is not given back. |
| `MaxQueue` | tuples in the queue | 2: the end of a call and the beginning of the next in the queue. Real queues are longer: the theorems about `RoutedCalls` hold for any length. |
| `FileSize`, `audioBlockSize`, `MaxFaults` (simulator) | | 5, 2, 1: two full blocks and a short one, so that one channel gets two; one broken connection. |

Bounds occur in guards of the environment's actions (`Arrives`, `Fault`,
`OnSpeech`, `OnEmptySpeech`, `Tick`, `PostFails`, `RequestRefused`, `Loop`,
`ChangeApiKey`, `OnBreak`), never in those of the code's own steps, with two exceptions:
the source blocks while the queue is full, as the real one does at its own length, and
`Loop` of the token generator rests after `MaxGrants` grants, unless the job is
cancelled, where the code would ask again.

Symmetry is used in safety runs only, of values that the code compares for
nothing but equality (handles, session ids). `RoutedView` identifies states that
differ in telephone numbers, roles, metrics and past tuples only, on which neither
operator's later steps nor the invariants depend.


## Fairness

`WatsonSTT`: weak fairness of each thread, for they are scheduled and never
blocked by each other; of the first listening message, of the handshake's end
and of the close that follows an error message, which the service owes; of
`PrepareToShutdown`, which the runtime calls. Strong fairness of
`OnListeningAgain` and `OnCloseTimeout`: between two results the receiver is in
a handler and no message can arrive, so that these are enabled again and again
but not for ever; the service returns finitely many results for a request, and
an idle session times out after half a minute. A usable token keeps arriving
(the subject of `TokenComes`).

The timeout is disabled while the sender is in `connect()`: it polls twice a
second and leaves with the first listening state it sees, long before a session
times out. Without this assumption a scheduler could let every session time
out just before each poll.

Nothing is fair about arrival of items, faults or a shutdown.

`IAMAccessTokenGenerator`: weak fairness of the thread and of the clock. Faults
are bounded, that is the sense of "once the service recovers" in `TokenComes`.

`VoiceDataSimulator`: weak fairness of `main` and of the handlers of each connection:
threads are scheduled, and the library ends an attempt to open or to close by its
timeouts; of the server, which reads what was sent. A connection need not break.


## Proofs

All theorems are of the full specification without fairness, for all values of
the constants that meet the named assumptions of the module: parameters are
Booleans or numbers, bounds are natural numbers, the null tuple is no tuple,
sessions are finite in number, empty values differ from others, sizes of a deployment
are natural numbers, messages are JSON of the documented shape, right or wrong, and the
service names the speakers of its labels. So the bounds above do not limit what is
proved. Of the 40 properties of the passing runs, 34 are theorems.

Most properties are not inductive. Each paragraph names the invariant that is, and
says why the property needs it. These invariants are also true in TLC's
instances, which is how they were found before they were proved.

**WatsonSTT.** `TypeCorrect` proves `TypeOK`. `IInvCorrect` proves the inductive
invariant `IInv`, from which `TuplesSafe` (`NoDanglingTuple`), `FinalizedSafe`
(`FinalizedOnlyBetweenConversations`), `QuietSafe` (`QuietAfterFinalized`) and
`RequestsSafe` (`OneRequestAtATime`) follow, and with which `HandoverCorrect`
proves the refinement `HandoverSpec` step by step. The properties are not
inductive, because the permission to delete is earned long before the deletion:

* `SenderWaits`: while the state is start, connecting or open, the sender is in
  `connect()`, or it has left because of a shutdown. So no stop and no
  deletion is under way while the receiver connects.
* `StoppedMeansStopped`: in state closed, failed or crashed the receiver is in no
  handler, and a stopped state the sender has loaded *stays* stopped until
  the sender itself asks for a connection. This is why the stale read is safe.
* `Pointers`, `Link`, `Requests`: where a handler can hold a tuple, when the
  connection can be up, and that the one open request is gone when its end is
  being reported.
* `SenderRests`: from the stop message to the flag, the sender is at rest
  or waiting; so the flag is never set for a conversation that is still fed.
* `MayDelete`: at the end of the wait the transcription is finalized *or* the
  receiver has stopped; one step later, both mean that no tuple is held and none
  can be taken.

The second part of the module goes on from `IInv`, in invariants that build on each
other.

* `Connection` gives `ListenerFound` (`MessagesFindListener`), `ClientStable`
  (`ClientStableWhileSending`) and `CloseSafe` (`CloseLosesNoAudio`). `States` ties
  the state to the phase of the connection: the sender asks for a connection
  (`spc` "attempt") only when none is up or coming up, since a drop always shows in
  the state first. `Client` carries client and handle from the open state to a
  sender that has left `connect()`; with `SenderWaits` of `IInv` it follows that
  the receiver is not in `setup` meanwhile. `Closing` says where the sender can be while the
  receiver closes: the end of media was reached, and it has not got past `connect()`.
* `Conversation` gives `ResultsMeet` (`ResultsMeetTheirConversation`).
  `OneConversation`: from the finalized transcription until the recycled tuples are
  gone no request is left, so no conversation meets a request of another one.
  `TupleForAudio`: whatever request holds audio is of one conversation only,
  and the recent tuple is of that one; it cannot be forgotten while the connection is up.
* `Ended` gives the action properties `EndTupleMarked` (`EndTupleThenWindowMarker`) and
  `MovesOnMarked` (`MovesOnAfterMarker`): whoever ends a conversation has a
  tuple to end it with, an end tuple is on the port only while its window marker
  is under way, and the flag is set only after a marker was counted.
* `InOrder` gives the action property `OutputOrdered` (`OutputInOrder`). Whatever is
  submitted was read from a tuple that the receiver held (`OutputFromHand`), and such
  a tuple has not been deleted (`NoDanglingTuple`). All tuples that have not been deleted
  are of the conversation in hand: while the sender waits in `waitEnd` that is still the
  previous one, and before it makes the first tuple of the next one all others are
  gone. Between the two, in "forget" and "recycle", nothing is held (`MayDelete`). A
  sender that gives up its wait for a shutdown leaves the order open.

**IBMVoiceGatewaySource.** `InvCorrect` proves `Inv`, from which
`ActiveCountExact` (`ActiveCountsCalls`), `ThrottlingEnds` (`ThrottledCallsLive`)
and `NumbersUnique` (`LiveCallsHaveOwnNumbers`) follow. The strengthening is
`CountIsEnough`: the count is never *below* the number of live calls that are not
throttled, which also holds after the maps were cleared under the feet of late
handlers, and is what keeps the unsigned subtraction from wrapping. The lemmas
`NewCallCounts` and `LeavingCounts` do the arithmetic of cardinalities,
`CloseKeepsTheRest` says what a close and its purge leave alone.

`AdmissionCorrect` proves that the source refines `CallAdmission`, with and without
purging: `live` is the set of live calls, `refused` that of the throttled ones (the others
are admitted), `heard` the calls whose speech was submitted. By `Inv`, the count that
the code compares with the limit is the number of admitted calls, and a session that is
not live is not throttled, so a first packet is the abstract decision
(`SpeechAdmission`). A leg that ends and the purge behind it are together one departure,
of any number of calls (`CloseAdmission`); a new limit moves no call. The promise
ends with `prepareToShutdown`, which clears the maps but not the throttled calls
(`ClearedAdmission`).

`PhonesNotLeaked` (`PhonesBelongToLegs`) holds with and without purging, by `Handles`: a
connection that is open without a session has stored no number yet. The other five
properties are about a source that does not purge. `ListsCounted` (`ListsCountLegs`) and
`CallsCounted` (`CallsAccountedFor`) state that in the property, `NumbersOnTuples`
(`TuplesCarryCallNumber`), `ThrottledCallsSilent` (`ThrottledCallsAreSilent`) and
`LegsSignalled` (`EveryLegIsSignalled`) as a hypothesis, `vgwStaleSessionPurgeInterval = 0`:
with an interval they are false, as the [violations](#violations) show, because the
purge removes a call under legs that are still open. `Lists` is the invariant:
a leg has a channel from its first speech on, and the list of every call is as long
as the set of its legs with a channel. So a leg that leaves finds
its call and its number, and the list is empty exactly when the last one has left.
`NothingIsStale` reduces `on_close` to the leg and its call in that case.

**IAMAccessTokenGenerator.** `KeysCorrect` (`RequestsUseKeyRead`),
`RefusalsRespected` (`RefusedTokenIsDropped`) and `RenewalInTime`
(`RenewedInTime`) follow from `IInv`. `Tokens` says whose token is held and that a
refusal leaves none; `Submitting`, `Sleeping` and `Awake` carry the validity
that is left through the three places where time passes: while `submit` runs
(`tokenLeft >= expiresIn - elapsed`), while the thread sleeps
(`tokenLeft >= wait + guardTime`), and from waking up to the next round.

**UtteranceResults.** `IInvCorrect` proves `IInv` for any set of messages of that shape and any tuples.
`SpeakersCorrect` (`SpeakersFollowWords`), `LabelsCorrect` (`LabelsAccountedFor`),
`ResultsSubmittedOnce` (`FinalResultsOnce`), `TuplesCarryNothingOld`
(`NothingLeftOver`) and `ResultsAsDecoded` follow. A callback is a composition of
helpers on a record, so `IInv` is stated of such a record, and each helper has a
lemma that says what it keeps. The strengthening: between callbacks no tuple is
marked (`Clean`), and the held one is a final result without speakers whose start
times are the ones kept aside, and whose attributes are those of its message
(`HeldOK`), which is why labels that come later fit its words.

`LabelsOfWords` proves the alignment itself for all labels and words: `LabelOf` exists
by the well-foundedness of the natural numbers. `LabelsCorrect` carries it through the
callbacks. It needs that no label names the speaker that the code writes where it
finds none (`"-1"`): `SpeakersAreNamed` assumes it of the service, of the labels that the
decoder takes from a message, since that is the form in which they reach the
alignment; TLC evaluates it for all messages of `Results_messages`.

`MessagesShown` proves `TuplesShowTheirMessage` in two halves. `ResultsAsDecoded` is about
the order of events: a submitted result is what `Decode` makes, from empty attributes, of
a single message, although the code decodes into attributes that are still full of
earlier messages, in part after an exception. `DecodedShows` is about the decoder: if
`Decode` of one message does not throw, its attributes are what the message says, however
many results, alternatives and words it has. The reference (`ExpectedText`,
`ExpectedWords`, ...) joins the members of all results; the decoder appends to its
lists result by result. `DecoderProofs` follows both recursive functions index by index:
`Prefix` says what the attributes are after `i` results, `FirstDecoded` to
`ResultDecoded` what one result adds, `PrefixGrows` is the step. Induction is over a set
of indices, from a least one outside it (`Induction`). It is assumed of the
service that a message has the shape that the decoder tests member by member
(`MessagesAreMessages`), where any member may be absent or of a wrong type, and
`AsRequested`.

**VgwDataRouter.** `PlacesCounted` (`CountsAreCalls`) and `KeysEndWithCall` (`NoKeysLeft`) hold for
any stream of tuples; the lemmas count the sessions of a processor before and
after one is added or removed. `PlaceFound` is about the search for the next
processor: while there are fewer calls than places it finds one with a free
place, wherever it starts. If all were full, there would be an injection from
places to calls (`AllFull`); and among those with a free place there is one that
the search, which goes round once, meets first (`SearchIsComplete` and the
well-ordering of distances).

**RoutedCalls.** Every step of the composition is a step of the source that leaves the
router alone or the other way round. So `SourceAlone` gives the composition all theorems of
the source, `PlacesOfCallsCounted` (`CountsAreCalls`) those of the router.
`PlacesComeBack` (`PlacesGivenBack`) and `CallsNotRefused` (`NoCallRefused`) are about
both and the queue, for a queue of any length, and restrict neither the number of calls
nor of processors.

* `QueueOK`: of a session that the source does not count, the last that stands
  in the queue, or that the router did, is a signal of its end (`Over`). Each
  handler is reduced to what it queues: nothing, speech of a live call that is not
  throttled, or the end of a channel (`SourceTuples`); and the router's step takes one
  off and does what it says (`TupleHandled`). With an empty queue, `Over` is `PlacesGivenBack`.
* `QueueFits`: `Held(i)` is the set of sessions that have a place after the first `i`
  tuples of the queue, if none is refused. It has at most as many members as there are
  places, at *every* point of the queue, and at its end only calls that the source
  counts. The source's count alone is not enough: the router runs behind, and
  sees the end of one call only after the source has admitted the next. `PlaceFound` then finds
  the place.

**VoiceDataSimulator.** `AudioAfterSessions` (`AudioAfterBothStarted`) follows from
`Sessions`: an answer on its way, or the memory of one in `m_recent`, means that the
server has read a start; `Turns` says what can have been sent at each place in
`main`. `FileShared` (`AudioSharedOut`) follows from `Shares`, where the blocks on both
connections reach up to the place in the file and, without a fault, cover it; and
from `LinksWhileSending`: without a fault both connections stay up from the check to the
close, so that no block is sent into nothing.

**Proved only.** `ThrottledCallsLive` and `CallsAccountedFor` have theorems but no run of
their own; the first follows from `AdmissionSpec`, by which only live calls are refused.

**Model-checked only.** Every safety and action property of the passing runs is a theorem.
Liveness under fairness is out of the provers' reach: `SenderReturns`,
`StopEndsTranscription`, `ShutdownEndsReceiver`, `SimulatorEnds`, `ShutdownEndsThread` and
`TokenComes` stay with TLC.


## Findings

Shown by a run:

1. A conversation whose connection ends in any state but listening and error
   gets no window marker (Receiver 1105), although the documentation promises
   one in any case. This takes an exception in a callback, or an error message after
   which the sender asks for a new connection before the old one has closed.
   `WatsonSTT_lost_marker`
2. The purge signals the legs of a throttled call, because it first removes the
   session from the map it then asks (VGW 1961, 2025). `VGW_throttled_signal`
3. A keyword that is spotted in several results of one message keeps the matches of
   the first only (`impl/include/DecoderKeywordResults.hpp` 75), although results are
   said to be concatenated (`impl/include/DecoderResults.hpp` 48). `Results_keywords`

Seen on the way, without a run of their own. In `WatsonSTT`:

4. `sendErrorTuple` does not count a failed conversation if a result was held
   back for its speaker labels (Receiver 1156; the comment at 208 says it counts).
5. `connect()` asks for a new connection in state error, although the comment
   beside it says the state must not be error (Impl 620 to 623). `on_close` of the
   old connection then finds state start, submits neither end tuple nor window
   marker, one of the ways into finding 1, and overwrites the request, which
   `connect()` repeats (`SenderReturns`).
6. A connection that drops in the middle of a conversation puts a window marker
   there (Receiver 1085); the conversation goes on over the next connection.
7. Keyword matches as maps have the key `set_end_time` (Receiver 1036), the
   documentation says `end_time` (`WatsonSTT.xml` 343).
8. Labels that come when no result is held are dropped (Receiver 891), and a result
   that is held is dropped with a connection that crashes (Receiver 383). The end
   tuple carries confidence -1, not the default (Receiver 1191). An utterance whose first
   result has no words starts at 0 (`impl/include/DecoderAlternatives.hpp` 148; the
   comment at 147 says the very first word).

In `IBMVoiceGatewaySource` and the token generator:

9. The purge of a stale session reads its number after erasing it (VGW 1938):
   its signals carry call number zero, and the key stays in the map for ever.
10. When a leg ends, the start time that is removed from the list is the last
    one, not that of the leg (VGW 1803; compare the comment in
    `IBMVoiceGatewaySource_h.cgt` 153).
11. A leg that outlives the purge of its session ends without its signal
    (VGW 1770).
12. The peak of active and throttled calls is too low if a call is throttled after
    the limit was lowered below the number of active calls (VGW 1493).
13. An empty `iamTokenURL` aborts the operator, where the documentation says that
    the thread ends (IAM 106, 216).

In the samples:

14. With one signal needed, the first end-of-call signal releases the call; speech
    of the other channel that follows makes it a new call, perhaps on another processor,
    and the second signal is not ignored then (Router 335, 517 to 523, 596).
15. With two signals needed, a call of which one channel never spoke keeps its place;
    the comment at Router 330 knows this. With purging in the source the same
    happens to a call whose speech goes on after the purge, and the signal of
    a purged leg without a channel leaves a key in the map of completed channels.
16. The simulator hangs in a destructor if a connection opens after `main` gave it up
    (Simulator 243 to 258), and never ends with a block size of 0 (398, 576). A file of
    one block is sent to one channel only.


## Limits of the models

* What error texts and statistics contain is left out; so are byte counters, audio
  formats and log messages. `WatsonSTT` takes the outcomes of the decoder as choices of
  the service; `UtteranceResults` takes the steps of the sender as choices. The two
  are not composed: the first shows which tuple a callback holds, the second
  what it writes to it.
* A member of a wrong type makes the decoder throw. Where the code asks a value for its
  size or text without testing its type (a timestamp that is no array), the library
  would assert; such messages are not among those that are checked, except as
  entries of a wrong size, which throw.
* The router's blobs, the `WebSocketSink` behind it and the replay of recorded calls
  (`CallRecordingReplay`, its second input) are left out. Replayed calls send both
  signals, so that they only add calls of the most regular kind.
* Strings that the simulator's handlers write while `main` reads them are read in one
  step. Its block size is positive.
* Counters are natural numbers. None of them gets near 2^31 in practice; that
  unsigned ones do not go below zero is checked and, where it matters, proved.
* Memory is sequentially consistent, as the default ordering of `std::atomic`
  provides. `wsClient` and `wsHandle` are no atomics; `ClientStableWhileSending`
  shows that the sender never uses them while the receiver replaces them. The
  use in `prepareToShutdown`, on a third thread, is a race that is taken as one
  step.
* Messages that the service sends after the operator has asked for the close of
  the connection are not modelled; in state closing `on_message` would throw, and
  the conversation has been completed by then.
* The purge compares whole seconds of the wall clock; the model has ticks. Two
  equal signals of one handler are one element of `out`.
* `prepareToShutdown` of the gateway iterates over a map that handlers may change
  meanwhile. The model takes the iteration as one step; the time until the
  maps are cleared, in which handlers run, is modelled.
* TLS validation and the read-only HTTP page of the gateway do not change state.
* The code counts a token's validity from the answer of `httpPost` and in whole
  seconds, cutting fractions off (IAM 472, 492), and so does the model: a tick is
  such a second. The service issued the token up to the length of `httpPost` earlier.
  `RenewedInTime` therefore holds on the code's clock; on the service's clock up to
  one second and the time the answer took, which `guardTime` has to exceed.
* The token generator's JSON and headers are abstracted to the kind of the
  answer, `initDelay` to zero. If a validity equals the guard time, the thread
  asks again at once and without a pause: the code's behaviour, which no
  document contradicts.
* The other components with status `not_modelled` are left out for the reasons given
  in `PROJECT.json`.


## Plan

Done: both threads of `WatsonSTT` with the handover they refine, its decoder and the
contents of its tuples, the gateway source, the router behind it and their
composition, the simulator, the token generator, and the theorems above.

Next, in this order:

1. **Speech processors.** `samples/VgwDataRouterToWatsonSTT` gives every channel of a call a
   speech engine and takes it back at the channel's end-of-call signal: another
   allotment, to be composed with `VgwDataRouter`, whose capacity is half the number
   of engines. Finding 14 would show there as a channel whose engine changes.
2. **Tokens in use.** `IAMAccessTokenGenerator` composed with `process_1` and
   `ws_init`: a connection is made with the token that arrived last, and with one
   that is valid if `guardTime` exceeds the time between read and use.
3. **More proofs.** A statement of `SenderReturns` and of `TokenComes` as safety: a
   measure that every step of a thread decreases. The refinement of an abstract
   allotment of places to calls by `RoutedCalls`, from `QueueFits`.
