----------------------------- MODULE WatsonSTT -----------------------------
(***************************************************************************)
(* The WatsonSTT operator: the thread that feeds audio into the Watson     *)
(* speech-to-text service (WatsonSTTImpl.hpp, "sender") and the thread     *)
(* that runs the websocket client and submits the results                  *)
(* (WatsonSTTImplReceiver.hpp, "receiver").  The two share a handful of    *)
(* atomics and no lock, so every access of one thread that the other one   *)
(* can observe is a step of its own; what stays inside one thread is       *)
(* folded into the neighbouring step.                                      *)
(*                                                                         *)
(* The websocket library and the STT service are the environment: a        *)
(* connection goes through phases, the service answers the recognition     *)
(* requests it was sent in their order, and it may drop, reject or answer  *)
(* nonsense at most MaxFaults times.                                       *)
(***************************************************************************)
EXTENDS Naturals, Sequences

CONSTANTS
  identifySpeakers,                   \* parameter: speaker labels wanted
  isTranscriptionCompletedRequested,  \* an output attribute asks for the end tuple
  completeResults,                    \* sttOutputResultMode = complete
  nonFinalUtterancesNeeded,           \* parameter: forward interim results
  MaxInputs,                          \* bound: items that arrive on port 0
  MaxFaults,                          \* bound: faults of network, service, tokens
  MayShutDown,                        \* bound: whether the job is cancelled at all
  NoTuple                             \* the null pointer

ASSUME ParametersAreBoolean ==
  /\ identifySpeakers \in BOOLEAN
  /\ isTranscriptionCompletedRequested \in BOOLEAN
  /\ completeResults \in BOOLEAN
  /\ nonFinalUtterancesNeeded \in BOOLEAN

ASSUME BoundsAreWellFormed ==
  MaxInputs \in Nat /\ MaxFaults \in Nat /\ MayShutDown \in BOOLEAN

(* An output tuple is named by its conversation and its place in it.       *)
OTuple == Nat \X Nat

ASSUME NoTupleIsNoTuple == NoTuple \notin OTuple

conv(t) == t[1]

VARIABLES
  \* shared by the two threads
  wsState,                 \* std::atomic<WsState>
  transcriptionFinalized,  \* receiver sets it, sender resets it
  nextConversationQueued,  \* sender sets it, receiver reads it
  recentOTuple,            \* the tuple that results are written to
  wsClient,                \* TRUE: the websocket client object exists
  wsHandle,                \* TRUE: the handle names the connection of wsClient
  accessToken,             \* TRUE: a non-empty token arrived on port 1
  nAttemptsCurrent,        \* nWebsocketConnectionAttemptsCurrent
  \* sender thread
  spc,                     \* where the sender is in process_0 / processPunct_0
  item,                    \* what the tuple in hand holds
  sStopped,                \* receiverHasStopped() of the last state it loaded
  mediaEndReached,
  oTupleWastebasket,       \* the tuples that have not been deleted
  nConversations,          \* nFullAudioConversationsReceived
  nFragments,              \* numberOfAudioBlobFragmentsReceivedInCurrentConversation
  nAttempts,               \* nWebsocketConnectionAttempts
  nAttemptsFailed,         \* nWebsocketConnectionAttemptsFailed
  \* receiver thread
  rpc,                     \* where the receiver is in ws_init and its callbacks
  rTuple,                  \* myRecentOTuple, the pointer a callback has loaded
  rFinal,                  \* finalUtteranceOrModeComplete of the message in hand
  rSpeakers,               \* the message in hand also carries speaker labels
  oTupleUsedForSubmission,
  nTranscribed,            \* nFullAudioConversationsTranscribed
  nFailed,                 \* nFullAudioConversationsFailed
  out,                     \* what was submitted last on the output port
  marks,                   \* window markers submitted since the conversation began
  \* connection, service and runtime
  phase,                   \* the connection of wsClient, as the service sees it
  requests,                \* recognition requests the service has not answered
  shutdown,                \* "no", then "requested", then "prepared"
  nInputs, nFaults

handoverVars   == <<transcriptionFinalized, nextConversationQueued, recentOTuple>>
clientVars     == <<wsClient, wsHandle>>
attemptVars    == <<nAttemptsCurrent, nAttempts, nAttemptsFailed>>
inputVars      == <<item, sStopped, accessToken>>
mediaVars      == <<mediaEndReached, nConversations, nFragments>>
callbackVars   == <<rTuple, rFinal, rSpeakers>>
transcriptVars == <<nTranscribed, nFailed>>
outVars        == <<out, marks>>
serviceVars    == <<phase, requests>>

vars == <<wsState, handoverVars, clientVars, attemptVars, inputVars, mediaVars,
          oTupleWastebasket, spc, rpc, callbackVars, oTupleUsedForSubmission,
          transcriptVars, outVars, serviceVars, shutdown, nInputs, nFaults>>

-----------------------------------------------------------------------------
(* States and messages.                                                    *)

WsState == {"idle", "start", "connecting", "open", "listening", "closing",
            "error", "closed", "failed", "crashed"}

receiverHasStopped(ws) == ws \in {"closed", "failed", "crashed"}

(* Slip: an open connection counts as settled.                             *)
TransientBeforeOpen(ws) == ws \in {"start", "connecting", "closing"}

receiverHasTransientState(ws) == ws \in {"start", "connecting", "open", "closing"}

(* What a tuple on port 0 holds: samples, an empty blob or file, or the    *)
(* name of a file that cannot be read.                                     *)
Item == {"audio", "empty", "unreadable"}

NoItem == "none"

Phase == {"none", "connecting", "opened", "ready", "errored", "closing", "gone"}

SenderPc == {"ready", "waitEnd", "newConversation", "forget", "recycle", "token",
             "connect", "attempt", "publish", "sendData", "endMedia", "checkStop",
             "sendStop", "final"}

ReceiverPc == {"loop", "setup", "run", "close", "complete", "completed", "mark",
               "finalize", "sendError", "errorTuple", "setError", "utterance",
               "speakers", "closeError", "closeErrorTuple", "closeLoad",
               "closeCompleted", "closeMark", "closeForget", "setClosed", "ran", "done"}

OutKind == {"none", "utterance", "error", "completed", "window", "final"}

Output(kind, t) == [kind |-> kind, conv |-> IF t = NoTuple THEN 0 ELSE conv(t)]

(* A recognition request: all audio between two stop messages.             *)
Request == [convs : SUBSET Nat, stopped : BOOLEAN]

-----------------------------------------------------------------------------
Init ==
  /\ wsState = "idle"
  /\ transcriptionFinalized = TRUE
  /\ nextConversationQueued = FALSE
  /\ recentOTuple = NoTuple
  /\ wsClient = FALSE
  /\ wsHandle = FALSE
  /\ accessToken = FALSE
  /\ nAttemptsCurrent = 0
  /\ spc = "ready"
  /\ item = NoItem
  /\ sStopped = FALSE
  /\ mediaEndReached = TRUE
  /\ oTupleWastebasket = {}
  /\ nConversations = 0
  /\ nFragments = 0
  /\ nAttempts = 0
  /\ nAttemptsFailed = 0
  /\ rpc = "loop"
  /\ rTuple = NoTuple
  /\ rFinal = FALSE
  /\ rSpeakers = FALSE
  /\ oTupleUsedForSubmission = NoTuple
  /\ nTranscribed = 0
  /\ nFailed = 0
  /\ out = Output("none", NoTuple)
  /\ marks = 0
  /\ phase = "none"
  /\ requests = <<>>
  /\ shutdown = "no"
  /\ nInputs = 0
  /\ nFaults = 0

shutdownRequested == shutdown # "no"

-----------------------------------------------------------------------------
(* Sender thread.  process_0 and processPunct_0 hold portMutex throughout, *)
(* so there is one program counter for both.                               *)

Goto(from, to) == spc = from /\ spc' = to

(* What no step of the sender changes.                                     *)
ReceiverKept ==
  UNCHANGED <<rpc, callbackVars, oTupleUsedForSubmission, transcriptVars, clientVars,
              phase, shutdown, nFaults>>

(* What most steps of the sender leave alone as well.                      *)
SharedKept == UNCHANGED <<wsState, handoverVars, attemptVars>>
LocalKept  == UNCHANGED <<inputVars, mediaVars, oTupleWastebasket>>
RestKept   == UNCHANGED <<outVars, requests, nInputs>>

(* An item arrives only while the operator is not shut down.               *)
Arrives ==
  /\ ~shutdownRequested
  /\ nInputs < MaxInputs
  /\ nInputs' = nInputs + 1

(* process_0, entry: the first tuple after a media end announces the next  *)
(* conversation and then waits for the end of the previous one.            *)
ReceiveTuple ==
  /\ Arrives
  /\ \E i \in Item : item' = i
  /\ \/ /\ mediaEndReached
        /\ Goto("ready", "waitEnd")
        /\ nextConversationQueued' = TRUE
        /\ nConversations' = nConversations + 1
        /\ sStopped' = receiverHasStopped(wsState)
     \/ /\ ~mediaEndReached
        /\ Goto("ready", "token")
        /\ UNCHANGED <<nextConversationQueued, nConversations, sStopped>>
  /\ UNCHANGED <<wsState, transcriptionFinalized, recentOTuple, attemptVars, accessToken,
                 mediaEndReached, nFragments, oTupleWastebasket, outVars, requests>>
  /\ ReceiverKept

(* Slip: a lost connection does not end the wait.                          *)
EndAwaitedOnlyFromReceiver == transcriptionFinalized

(* Slip: a state that is no transient one ends the wait.                   *)
EndAwaitedOrSettled == transcriptionFinalized \/ ~receiverHasTransientState(wsState)

(* The polling loop shared by process_0 and the final marker: leave when   *)
(* the transcription is finalized or the state loaded before was a stopped *)
(* one, otherwise block and load the state again.                          *)
EndAwaited == transcriptionFinalized \/ sStopped

AwaitFinalization ==
  /\ \/ /\ EndAwaited
        /\ Goto("waitEnd", "newConversation")
        /\ sStopped' = FALSE
     \/ /\ ~EndAwaited
        /\ Goto("waitEnd", IF shutdownRequested THEN "ready" ELSE "waitEnd")
        /\ sStopped' = receiverHasStopped(wsState)
  /\ UNCHANGED <<item, accessToken, mediaVars, oTupleWastebasket>>
  /\ SharedKept /\ RestKept /\ ReceiverKept

BeginConversation ==
  /\ Goto("newConversation", "forget")
  /\ transcriptionFinalized' = FALSE
  /\ mediaEndReached' = FALSE
  /\ nFragments' = 0
  /\ marks' = 0
  /\ UNCHANGED <<wsState, nextConversationQueued, recentOTuple, attemptVars, inputVars,
                 nConversations, oTupleWastebasket, out, requests, nInputs>>
  /\ ReceiverKept

(* Slip: the sender leaves it to the receiver to forget the tuple.         *)
ForgetNothing ==
  /\ Goto("forget", "recycle")
  /\ UNCHANGED recentOTuple
  /\ UNCHANGED <<wsState, transcriptionFinalized, nextConversationQueued, attemptVars>>
  /\ LocalKept /\ RestKept /\ ReceiverKept

ForgetRecentTuple ==
  /\ Goto("forget", "recycle")
  /\ recentOTuple' = NoTuple
  /\ UNCHANGED <<wsState, transcriptionFinalized, nextConversationQueued, attemptVars>>
  /\ LocalKept /\ RestKept /\ ReceiverKept

(* delete every tuple of the wastebasket                                   *)
RecycleTuples ==
  /\ Goto("recycle", "token")
  /\ oTupleWastebasket' = {}
  /\ UNCHANGED <<inputVars, mediaVars>>
  /\ SharedKept /\ RestKept /\ ReceiverKept

AwaitAccessToken ==
  /\ \/ accessToken /\ Goto("token", "connect")
     \/ ~accessToken /\ shutdownRequested /\ Goto("token", "ready")
  /\ SharedKept /\ LocalKept /\ RestKept /\ ReceiverKept

(* connect(): poll until listening.  A state that is neither listening nor *)
(* transient leads to a connection request, after a delay in which the     *)
(* receiver goes on: the request is a step of its own.                     *)
Connect ==
  /\ \/ /\ wsState = "listening"
        /\ Goto("connect", IF shutdownRequested THEN "ready" ELSE "publish")
     \/ /\ receiverHasTransientState(wsState)
        /\ shutdownRequested
        /\ Goto("connect", "ready")
     \/ /\ wsState # "listening"
        /\ ~receiverHasTransientState(wsState)
        /\ Goto("connect", "attempt")
  /\ SharedKept /\ LocalKept /\ RestKept /\ ReceiverKept

(* Slip: every repetition counts, and the first attempt counts down.       *)
RequestConnectionUnderflow ==
  /\ Goto("attempt", IF shutdownRequested THEN "ready" ELSE "connect")
  /\ nAttempts' = nAttempts + 1
  /\ nAttemptsFailed' = nAttemptsFailed + nAttemptsCurrent - 1
  /\ nAttemptsCurrent' = nAttemptsCurrent + 1
  /\ wsState' = "start"
  /\ UNCHANGED handoverVars
  /\ LocalKept /\ RestKept /\ ReceiverKept

(* Slip: connect returns as soon as it has asked for a connection.         *)
RequestWithoutWaiting ==
  /\ Goto("attempt", IF shutdownRequested THEN "ready" ELSE "publish")
  /\ nAttempts' = nAttempts + 1
  /\ nAttemptsFailed' = nAttemptsFailed + (IF nAttemptsCurrent > 0 THEN 1 ELSE 0)
  /\ nAttemptsCurrent' = nAttemptsCurrent + 1
  /\ wsState' = "start"
  /\ UNCHANGED handoverVars
  /\ LocalKept /\ RestKept /\ ReceiverKept

RequestConnection ==
  /\ Goto("attempt", IF shutdownRequested THEN "ready" ELSE "connect")
  /\ nAttempts' = nAttempts + 1
  /\ nAttemptsFailed' = nAttemptsFailed + (IF nAttemptsCurrent > 0 THEN 1 ELSE 0)
  /\ nAttemptsCurrent' = nAttemptsCurrent + 1
  /\ wsState' = "start"
  /\ UNCHANGED handoverVars
  /\ LocalKept /\ RestKept /\ ReceiverKept

(* process_0 after connect(): the new tuple goes to the wastebasket and    *)
(* becomes the one that results are written to.  Only samples of a         *)
(* positive size are sent; an empty or unreadable item ends the media.     *)
NewOTuple == <<nConversations, nFragments + 1>>

PublishTuple ==
  /\ Goto("publish", IF item = "audio" THEN "sendData" ELSE "endMedia")
  /\ oTupleWastebasket' = oTupleWastebasket \union {NewOTuple}
  /\ recentOTuple' = NewOTuple
  /\ item' = NoItem
  /\ nFragments' = IF item = "unreadable" THEN nFragments ELSE nFragments + 1
  /\ UNCHANGED <<wsState, transcriptionFinalized, nextConversationQueued, attemptVars,
                 sStopped, accessToken, mediaEndReached, nConversations>>
  /\ RestKept /\ ReceiverKept

(* What the service makes of a message: audio extends the request that is  *)
(* still open or opens one, a stop ends it.  A connection that is not up   *)
(* loses the message.                                                      *)
ConnectionUp == phase \in {"opened", "ready", "errored"}

HasOpenRequest == requests # <<>> /\ ~requests[Len(requests)].stopped

ServiceGets(convs, stop) ==
  requests' =
    IF ~ConnectionUp THEN requests
    ELSE IF HasOpenRequest
    THEN [requests EXCEPT ![Len(requests)] =
            [convs |-> @.convs \union convs, stopped |-> stop]]
    ELSE Append(requests, [convs |-> convs, stopped |-> stop])

SendData ==
  /\ Goto("sendData", "ready")
  /\ ServiceGets({nConversations}, FALSE)
  /\ UNCHANGED <<outVars, nInputs>>
  /\ SharedKept /\ LocalKept /\ ReceiverKept

(* End of the media, then sendActionStop(): the state is loaded and only   *)
(* in state listening the stop message is sent.                            *)
EndMedia ==
  /\ Goto("endMedia", "checkStop")
  /\ mediaEndReached' = TRUE
  /\ nextConversationQueued' = FALSE
  /\ UNCHANGED <<wsState, transcriptionFinalized, recentOTuple, attemptVars, inputVars,
                 nConversations, nFragments, oTupleWastebasket>>
  /\ RestKept /\ ReceiverKept

CheckStop ==
  /\ Goto("checkStop", IF wsState = "listening" THEN "sendStop" ELSE "ready")
  /\ SharedKept /\ LocalKept /\ RestKept /\ ReceiverKept

SendStop ==
  /\ Goto("sendStop", "ready")
  /\ ServiceGets({}, TRUE)
  /\ UNCHANGED <<outVars, nInputs>>
  /\ SharedKept /\ LocalKept /\ ReceiverKept

(* Slip: a marker after the end of the media ends it again.                *)
MarkerAlwaysEndsMedia ==
  /\ Arrives
  /\ Goto("ready", "endMedia")
  /\ UNCHANGED <<outVars, requests>>
  /\ SharedKept /\ LocalKept /\ ReceiverKept

(* processPunct_0: a window marker ends the conversation unless its end    *)
(* was seen before; a final marker waits for the end of the transcription. *)
ReceiveWindowMarker ==
  /\ Arrives
  /\ Goto("ready", IF mediaEndReached THEN "ready" ELSE "endMedia")
  /\ UNCHANGED <<outVars, requests>>
  /\ SharedKept /\ LocalKept /\ ReceiverKept

ReceiveFinalMarker ==
  /\ Arrives
  /\ Goto("ready", "final")
  /\ sStopped' = receiverHasStopped(wsState)
  /\ UNCHANGED <<item, accessToken, mediaVars, oTupleWastebasket, outVars, requests>>
  /\ SharedKept /\ ReceiverKept

ForwardFinalMarker ==
  /\ \/ /\ EndAwaited \/ shutdownRequested
        /\ Goto("final", "ready")
        /\ sStopped' = FALSE
        /\ out' = Output("final", NoTuple)
     \/ /\ ~(EndAwaited \/ shutdownRequested)
        /\ Goto("final", "final")
        /\ sStopped' = receiverHasStopped(wsState)
        /\ UNCHANGED out
  /\ UNCHANGED <<item, accessToken, mediaVars, oTupleWastebasket, marks, requests,
                 nInputs>>
  /\ SharedKept /\ ReceiverKept

(* process_1, on the thread of port 1: an empty token is stored as well.   *)
ReceiveToken ==
  /\ ~shutdownRequested
  /\ \/ accessToken' = TRUE /\ UNCHANGED nFaults
     \/ accessToken' = FALSE /\ nFaults < MaxFaults /\ nFaults' = nFaults + 1
  /\ UNCHANGED <<wsState, handoverVars, clientVars, attemptVars, item, sStopped,
                 mediaVars, oTupleWastebasket, spc, rpc, callbackVars,
                 oTupleUsedForSubmission, transcriptVars, outVars, serviceVars,
                 shutdown, nInputs>>

SenderStep ==
  \/ AwaitFinalization \/ BeginConversation \/ ForgetRecentTuple \/ RecycleTuples
  \/ AwaitAccessToken \/ Connect \/ RequestConnection \/ PublishTuple \/ SendData
  \/ EndMedia \/ CheckStop \/ SendStop \/ ForwardFinalMarker

Arrival == ReceiveTuple \/ ReceiveWindowMarker \/ ReceiveFinalMarker \/ ReceiveToken

-----------------------------------------------------------------------------
(* Receiver thread.  ws_init waits for state start, builds a client and    *)
(* stays in run(), where the library calls the handlers one at a time.     *)

RGoto(from, to) == rpc = from /\ rpc' = to

(* What no step of the receiver changes.                                   *)
SenderKept ==
  UNCHANGED <<nextConversationQueued, nAttempts, nAttemptsFailed, inputVars, mediaVars,
              oTupleWastebasket, spc, shutdown, nInputs>>

(* What most steps of the receiver leave alone as well.                    *)
FlagsKept    == UNCHANGED <<transcriptionFinalized, clientVars, nAttemptsCurrent>>
CallbackKept == UNCHANGED <<callbackVars, oTupleUsedForSubmission>>
CountsKept   == UNCHANGED transcriptVars
LinkKept     == UNCHANGED <<serviceVars, nFaults>>

Fault == nFaults < MaxFaults /\ nFaults' = nFaults + 1

(* An exception leaves run() and is caught in ws_init.                     *)
Crash ==
  /\ rpc' = "ran"
  /\ wsState' = "crashed"
  /\ phase' = "gone"
  /\ requests' = <<>>

TakeConnectionRequest ==
  /\ RGoto("loop", "setup")
  /\ ~shutdownRequested
  /\ wsState = "start"
  /\ wsState' = "connecting"
  /\ oTupleUsedForSubmission' = NoTuple
  /\ UNCHANGED <<recentOTuple, callbackVars, outVars>>
  /\ FlagsKept /\ CountsKept /\ LinkKept /\ SenderKept

(* Slip: only a receiver in a final state ends.                            *)
EndThreadWhenStopped ==
  /\ RGoto("loop", "done")
  /\ shutdownRequested
  /\ receiverHasStopped(wsState)
  /\ UNCHANGED <<wsState, recentOTuple, outVars>>
  /\ FlagsKept /\ CallbackKept /\ CountsKept /\ LinkKept /\ SenderKept

EndThread ==
  /\ RGoto("loop", "done")
  /\ shutdownRequested
  /\ UNCHANGED <<wsState, recentOTuple, outVars>>
  /\ FlagsKept /\ CallbackKept /\ CountsKept /\ LinkKept /\ SenderKept

(* Delete the old client, make a new one and start to connect; any call    *)
(* may throw.                                                              *)
MakeClient ==
  /\ rpc = "setup"
  /\ wsHandle' = FALSE
  /\ \/ /\ rpc' = "run"
        /\ wsClient' = TRUE
        /\ phase' = "connecting"
        /\ requests' = <<>>
        /\ UNCHANGED <<wsState, nFaults>>
     \/ Fault /\ Crash /\ wsClient' \in BOOLEAN
  /\ UNCHANGED <<transcriptionFinalized, recentOTuple, nAttemptsCurrent, outVars>>
  /\ CallbackKept /\ CountsKept /\ SenderKept

(* on_open: state open, then the start message and the handle; sending may *)
(* throw.                                                                  *)
OnOpen ==
  /\ rpc = "run"
  /\ phase = "connecting"
  /\ \/ /\ wsState' = "open"
        /\ wsHandle' = TRUE
        /\ phase' = "opened"
        /\ UNCHANGED <<rpc, requests, nFaults>>
     \/ Fault /\ Crash /\ UNCHANGED wsHandle
  /\ UNCHANGED <<transcriptionFinalized, recentOTuple, wsClient, nAttemptsCurrent, outVars>>
  /\ CallbackKept /\ CountsKept /\ SenderKept

OnFail ==
  /\ RGoto("run", "ran")
  /\ phase = "connecting"
  /\ Fault
  /\ recentOTuple' = NoTuple
  /\ wsState' = "failed"
  /\ phase' = "gone"
  /\ UNCHANGED <<requests, outVars>>
  /\ FlagsKept /\ CallbackKept /\ CountsKept /\ SenderKept

(* After run(), or after the exception was caught.                         *)
AfterRun ==
  /\ RGoto("ran", "loop")
  /\ recentOTuple' = NoTuple
  /\ UNCHANGED <<wsState, outVars>>
  /\ FlagsKept /\ CallbackKept /\ CountsKept /\ LinkKept /\ SenderKept

(* on_message, entry.  The handler throws on a message it cannot decode,   *)
(* on one with an unexpected mix of results, and on any message in a state *)
(* other than open and listening.                                          *)
MessageArrives == rpc = "run" /\ ConnectionUp

EntryStateOk == wsState \in {"open", "listening"}

OnMessageThrows ==
  /\ MessageArrives
  /\ Fault
  /\ Crash
  /\ UNCHANGED <<recentOTuple, outVars>>
  /\ FlagsKept /\ CallbackKept /\ CountsKept /\ SenderKept

(* The listening message that answers the start message.                   *)
OnFirstListening ==
  /\ MessageArrives
  /\ phase = "opened"
  /\ wsState = "open"
  /\ nAttemptsCurrent' = 0
  /\ wsState' = "listening"
  /\ phase' = "ready"
  /\ UNCHANGED <<transcriptionFinalized, recentOTuple, clientVars, rpc, requests,
                 nFaults, outVars>>
  /\ CallbackKept /\ CountsKept /\ SenderKept

(* The listening message that answers a stop: the transcription is done.   *)
(* The connection is kept only if the sender has announced another         *)
(* conversation.                                                           *)
StopAwaitsAnswer == requests # <<>> /\ Head(requests).stopped

(* Slip: the state stays listening until the connection is closed.         *)
CloseWhileListening ==
  /\ MessageArrives
  /\ phase = "ready"
  /\ wsState = "listening"
  /\ StopAwaitsAnswer
  /\ requests' = Tail(requests)
  /\ \/ nextConversationQueued /\ rpc' = "complete" /\ UNCHANGED wsState
     \/ ~nextConversationQueued /\ rpc' = "close" /\ UNCHANGED wsState
  /\ UNCHANGED <<recentOTuple, phase, nFaults, outVars>>
  /\ FlagsKept /\ CallbackKept /\ CountsKept /\ SenderKept

OnListeningAgain ==
  /\ MessageArrives
  /\ phase = "ready"
  /\ wsState = "listening"
  /\ StopAwaitsAnswer
  /\ requests' = Tail(requests)
  /\ \/ nextConversationQueued /\ rpc' = "complete" /\ UNCHANGED wsState
     \/ ~nextConversationQueued /\ rpc' = "close" /\ wsState' = "closing"
  /\ UNCHANGED <<recentOTuple, phase, nFaults, outVars>>
  /\ FlagsKept /\ CallbackKept /\ CountsKept /\ SenderKept

(* wsClient->close throws unless the connection is still open.             *)
CloseConnection ==
  /\ rpc = "close"
  /\ \/ /\ ConnectionUp
        /\ rpc' = "complete"
        /\ phase' = "closing"
        /\ requests' = <<>>
        /\ UNCHANGED <<wsState, nFaults>>
     \/ Fault /\ Crash
     \/ ~ConnectionUp /\ Crash /\ UNCHANGED nFaults
  /\ UNCHANGED <<recentOTuple, outVars>>
  /\ FlagsKept /\ CallbackKept /\ CountsKept /\ SenderKept

(* End of the conversation: a tuple still queued for speaker labels, the   *)
(* end tuple on request, the window marker, and only then the flag.        *)
CompleteTranscription ==
  /\ RGoto("complete", "completed")
  /\ nTranscribed' = nTranscribed + 1
  /\ \/ /\ oTupleUsedForSubmission # NoTuple
        /\ out' = Output("utterance", oTupleUsedForSubmission)
        /\ oTupleUsedForSubmission' = NoTuple
     \/ /\ oTupleUsedForSubmission = NoTuple
        /\ UNCHANGED <<out, oTupleUsedForSubmission>>
  /\ rTuple' = IF isTranscriptionCompletedRequested THEN recentOTuple ELSE NoTuple
  /\ UNCHANGED <<wsState, recentOTuple, rFinal, rSpeakers, nFailed, marks>>
  /\ FlagsKept /\ LinkKept /\ SenderKept

(* Slip: the flag is set with the end tuple, before the window marker.     *)
FinalizeBeforeMarker ==
  /\ RGoto("completed", "mark")
  /\ out' = IF rTuple = NoTuple THEN out ELSE Output("completed", rTuple)
  /\ rTuple' = NoTuple
  /\ transcriptionFinalized' = TRUE
  /\ UNCHANGED <<wsState, recentOTuple, rFinal, rSpeakers, oTupleUsedForSubmission,
                 marks>>
  /\ UNCHANGED <<clientVars, nAttemptsCurrent>>
  /\ CountsKept /\ LinkKept /\ SenderKept

SubmitCompleted ==
  /\ RGoto("completed", "mark")
  /\ out' = IF rTuple = NoTuple THEN out ELSE Output("completed", rTuple)
  /\ rTuple' = NoTuple
  /\ UNCHANGED <<wsState, recentOTuple, rFinal, rSpeakers, oTupleUsedForSubmission,
                 marks>>
  /\ FlagsKept /\ CountsKept /\ LinkKept /\ SenderKept

(* Slip: the last tuple stays for whoever loads it next.                   *)
MarkWithoutForgetting ==
  /\ RGoto("mark", "finalize")
  /\ UNCHANGED recentOTuple
  /\ out' = Output("window", NoTuple)
  /\ marks' = marks + 1
  /\ UNCHANGED wsState
  /\ FlagsKept /\ CallbackKept /\ CountsKept /\ LinkKept /\ SenderKept

(* Slip: the flag is set only if another conversation waits for it.        *)
MarkWithoutFinalizing ==
  /\ RGoto("mark", IF nextConversationQueued THEN "finalize" ELSE "run")
  /\ recentOTuple' = NoTuple
  /\ out' = Output("window", NoTuple)
  /\ marks' = marks + 1
  /\ UNCHANGED wsState
  /\ FlagsKept /\ CallbackKept /\ CountsKept /\ LinkKept /\ SenderKept

SubmitWindowMarker ==
  /\ RGoto("mark", "finalize")
  /\ recentOTuple' = NoTuple
  /\ out' = Output("window", NoTuple)
  /\ marks' = marks + 1
  /\ UNCHANGED wsState
  /\ FlagsKept /\ CallbackKept /\ CountsKept /\ LinkKept /\ SenderKept

FinalizeTranscription ==
  /\ RGoto("finalize", "run")
  /\ transcriptionFinalized' = TRUE
  /\ UNCHANGED <<wsState, recentOTuple, clientVars, nAttemptsCurrent, outVars>>
  /\ CallbackKept /\ CountsKept /\ LinkKept /\ SenderKept

(* An error message of the service: the error tuple, then state error.     *)
OnError ==
  /\ RGoto("run", "sendError")
  /\ phase \in {"opened", "ready"}
  /\ EntryStateOk
  /\ Fault
  /\ phase' = "errored"
  /\ UNCHANGED <<wsState, recentOTuple, requests, rTuple, rFinal, rSpeakers,
                 oTupleUsedForSubmission, outVars>>
  /\ FlagsKept /\ CountsKept /\ SenderKept

(* sendErrorTuple, called from two handlers: the error goes out with the   *)
(* tuple queued for speaker labels if there is one, else with the recent   *)
(* tuple, else not at all.                                                 *)
SendErrorTuple(entry, alone, return) ==
  /\ rpc = entry
  /\ \/ /\ oTupleUsedForSubmission # NoTuple
        /\ out' = Output("error", oTupleUsedForSubmission)
        /\ oTupleUsedForSubmission' = NoTuple
        /\ rpc' = return
        /\ UNCHANGED rTuple
     \/ /\ oTupleUsedForSubmission = NoTuple
        /\ rTuple' = recentOTuple
        /\ rpc' = IF recentOTuple = NoTuple THEN return ELSE alone
        /\ UNCHANGED <<out, oTupleUsedForSubmission>>
  /\ UNCHANGED <<wsState, recentOTuple, rFinal, rSpeakers, marks>>
  /\ FlagsKept /\ CountsKept /\ LinkKept /\ SenderKept

SubmitErrorTuple(alone, return) ==
  /\ RGoto(alone, return)
  /\ nFailed' = nFailed + 1
  /\ out' = Output("error", rTuple)
  /\ rTuple' = NoTuple
  /\ UNCHANGED <<wsState, recentOTuple, rFinal, rSpeakers, oTupleUsedForSubmission,
                 nTranscribed, marks>>
  /\ FlagsKept /\ LinkKept /\ SenderKept

ErrorTupleOnMessage ==
  \/ SendErrorTuple("sendError", "errorTuple", "setError")
  \/ SubmitErrorTuple("errorTuple", "setError")

ErrorTupleOnClose ==
  \/ SendErrorTuple("closeError", "closeErrorTuple", "closeLoad")
  \/ SubmitErrorTuple("closeErrorTuple", "closeLoad")

SetError ==
  /\ RGoto("setError", "run")
  /\ wsState' = "error"
  /\ UNCHANGED <<recentOTuple, outVars>>
  /\ FlagsKept /\ CallbackKept /\ CountsKept /\ LinkKept /\ SenderKept

(* An utterance for the audio of the first request: a tuple still queued   *)
(* goes out first, and without a recent tuple the handler throws.          *)
ServiceTranscribes ==
  /\ phase = "ready"
  /\ requests # <<>>
  /\ Head(requests).convs # {}

OnUtterance ==
  /\ MessageArrives
  /\ EntryStateOk
  /\ ServiceTranscribes
  /\ \/ /\ oTupleUsedForSubmission # NoTuple
        /\ out' = Output("utterance", oTupleUsedForSubmission)
        /\ oTupleUsedForSubmission' = NoTuple
     \/ /\ oTupleUsedForSubmission = NoTuple
        /\ UNCHANGED <<out, oTupleUsedForSubmission>>
  /\ \/ /\ recentOTuple # NoTuple
        /\ rTuple' = recentOTuple
        /\ \E final, speakers \in BOOLEAN :
             /\ rFinal' = (final \/ completeResults)
             /\ rSpeakers' = speakers
        /\ rpc' = "utterance"
        /\ UNCHANGED <<wsState, serviceVars>>
     \/ /\ recentOTuple = NoTuple
        /\ Crash
        /\ UNCHANGED <<rTuple, rFinal, rSpeakers>>
  /\ UNCHANGED <<recentOTuple, nFaults, marks>>
  /\ FlagsKept /\ CountsKept /\ SenderKept

(* A final utterance waits for its speaker labels if they are identified,  *)
(* else it is submitted; an interim one is submitted if it is wanted.      *)
SubmitUtterance ==
  /\ RGoto("utterance", IF rSpeakers THEN "speakers" ELSE "run")
  /\ oTupleUsedForSubmission' =
       IF rFinal /\ identifySpeakers THEN rTuple ELSE oTupleUsedForSubmission
  /\ out' = IF (rFinal /\ ~identifySpeakers) \/ (~rFinal /\ nonFinalUtterancesNeeded)
            THEN Output("utterance", rTuple) ELSE out
  /\ rTuple' = NoTuple
  /\ rFinal' = FALSE
  /\ rSpeakers' = FALSE
  /\ UNCHANGED <<wsState, recentOTuple, marks>>
  /\ FlagsKept /\ CountsKept /\ LinkKept /\ SenderKept

OnSpeakerLabels ==
  /\ MessageArrives
  /\ EntryStateOk
  /\ ServiceTranscribes
  /\ rpc' = "speakers"
  /\ UNCHANGED <<wsState, recentOTuple, outVars>>
  /\ FlagsKept /\ CallbackKept /\ CountsKept /\ LinkKept /\ SenderKept

SubmitWithSpeakers ==
  /\ RGoto("speakers", "run")
  /\ \/ /\ identifySpeakers
        /\ oTupleUsedForSubmission # NoTuple
        /\ out' = Output("utterance", oTupleUsedForSubmission)
        /\ oTupleUsedForSubmission' = NoTuple
     \/ /\ ~identifySpeakers \/ oTupleUsedForSubmission = NoTuple
        /\ UNCHANGED <<out, oTupleUsedForSubmission>>
  /\ UNCHANGED <<wsState, recentOTuple, callbackVars, marks>>
  /\ FlagsKept /\ CountsKept /\ LinkKept /\ SenderKept

(* on_close: what is still to be submitted depends on the state it finds.  *)
OnClose ==
  /\ rpc = "run"
  /\ phase' = "gone"
  /\ requests' = <<>>
  /\ rpc' = CASE wsState = "listening" -> "closeError"
              [] wsState = "error"     -> "closeLoad"
              [] OTHER                 -> "closeForget"
  /\ UNCHANGED <<wsState, recentOTuple, rTuple, rFinal, rSpeakers,
                 oTupleUsedForSubmission, outVars>>
  /\ FlagsKept /\ CountsKept /\ SenderKept

(* Either side has asked for it: the handshake, or the service after an    *)
(* error message.                                                          *)
OnCloseRequested ==
  /\ phase \in {"closing", "errored"}
  /\ OnClose
  /\ UNCHANGED nFaults

OnCloseDropped ==
  /\ phase \in {"opened", "ready"}
  /\ Fault
  /\ OnClose

(* The session timeout of the service, about half a minute without audio.  *)
(* connect() polls twice a second, so it sees a fresh listening state long *)
(* before that session can time out.                                       *)
OnCloseTimeout ==
  /\ phase = "ready"
  /\ ~StopAwaitsAnswer
  /\ spc # "connect"
  /\ OnClose
  /\ UNCHANGED nFaults

(* Slip: a lost connection gets its window marker, not its end tuple.      *)
LoadForCloseMarkOnly ==
  /\ rpc = "closeLoad"
  /\ rTuple' = recentOTuple
  /\ rpc' = IF recentOTuple = NoTuple THEN "closeForget"
            ELSE "closeMark"
  /\ UNCHANGED <<wsState, recentOTuple, rFinal, rSpeakers,
                 oTupleUsedForSubmission, outVars>>
  /\ FlagsKept /\ CountsKept /\ LinkKept /\ SenderKept

LoadForClose ==
  /\ rpc = "closeLoad"
  /\ rTuple' = recentOTuple
  /\ rpc' = IF recentOTuple = NoTuple THEN "closeForget"
            ELSE IF isTranscriptionCompletedRequested THEN "closeCompleted"
            ELSE "closeMark"
  /\ UNCHANGED <<wsState, recentOTuple, rFinal, rSpeakers,
                 oTupleUsedForSubmission, outVars>>
  /\ FlagsKept /\ CountsKept /\ LinkKept /\ SenderKept

CompletedOnClose ==
  /\ RGoto("closeCompleted", "closeMark")
  /\ out' = Output("completed", rTuple)
  /\ UNCHANGED <<wsState, recentOTuple, marks>>
  /\ FlagsKept /\ CallbackKept /\ CountsKept /\ LinkKept /\ SenderKept

(* Slip: the window marker of a lost connection ends the conversation.     *)
FinalizeOnClose ==
  /\ RGoto("closeMark", "closeForget")
  /\ out' = Output("window", NoTuple)
  /\ marks' = marks + 1
  /\ rTuple' = NoTuple
  /\ transcriptionFinalized' = TRUE
  /\ UNCHANGED <<wsState, recentOTuple, rFinal, rSpeakers, oTupleUsedForSubmission>>
  /\ UNCHANGED <<clientVars, nAttemptsCurrent>>
  /\ CountsKept /\ LinkKept /\ SenderKept

WindowMarkerOnClose ==
  /\ RGoto("closeMark", "closeForget")
  /\ out' = Output("window", NoTuple)
  /\ marks' = marks + 1
  /\ rTuple' = NoTuple
  /\ UNCHANGED <<wsState, recentOTuple, rFinal, rSpeakers, oTupleUsedForSubmission>>
  /\ FlagsKept /\ CountsKept /\ LinkKept /\ SenderKept

ForgetOnClose ==
  /\ RGoto("closeForget", "setClosed")
  /\ recentOTuple' = NoTuple
  /\ UNCHANGED <<wsState, outVars>>
  /\ FlagsKept /\ CallbackKept /\ CountsKept /\ LinkKept /\ SenderKept

SetClosed ==
  /\ RGoto("setClosed", "ran")
  /\ wsState' = "closed"
  /\ UNCHANGED <<recentOTuple, outVars>>
  /\ FlagsKept /\ CallbackKept /\ CountsKept /\ LinkKept /\ SenderKept

(* What the receiver does by itself, and what the library calls it for.    *)
ReceiverStep ==
  \/ TakeConnectionRequest \/ EndThread \/ MakeClient \/ AfterRun \/ CloseConnection
  \/ CompleteTranscription \/ SubmitCompleted \/ SubmitWindowMarker
  \/ FinalizeTranscription \/ ErrorTupleOnMessage \/ ErrorTupleOnClose \/ SetError
  \/ SubmitUtterance \/ SubmitWithSpeakers \/ LoadForClose \/ CompletedOnClose
  \/ WindowMarkerOnClose \/ ForgetOnClose \/ SetClosed

Callback ==
  \/ OnOpen \/ OnFail \/ OnMessageThrows \/ OnFirstListening \/ OnListeningAgain
  \/ OnError \/ OnUtterance \/ OnSpeakerLabels
  \/ OnCloseRequested \/ OnCloseDropped \/ OnCloseTimeout

-----------------------------------------------------------------------------
(* Shutdown: the runtime raises the flag and calls prepareToShutdown on a  *)
(* thread of its own, which closes the connection if there is a handle.    *)

RequestShutdown ==
  /\ MayShutDown
  /\ shutdown = "no"
  /\ shutdown' = "requested"
  /\ UNCHANGED <<wsState, handoverVars, clientVars, attemptVars, inputVars, mediaVars,
                 oTupleWastebasket, spc, rpc, callbackVars, oTupleUsedForSubmission,
                 transcriptVars, outVars, serviceVars, nInputs, nFaults>>

PrepareToShutdown ==
  /\ shutdown = "requested"
  /\ shutdown' = "prepared"
  /\ \/ /\ wsClient /\ wsHandle /\ ConnectionUp
        /\ phase' = "closing"
        /\ requests' = <<>>
     \/ /\ ~(wsClient /\ wsHandle /\ ConnectionUp)
        /\ UNCHANGED serviceVars
  /\ UNCHANGED <<wsState, handoverVars, clientVars, attemptVars, inputVars, mediaVars,
                 oTupleWastebasket, spc, rpc, callbackVars, oTupleUsedForSubmission,
                 transcriptVars, outVars, nInputs, nFaults>>

-----------------------------------------------------------------------------
Next ==
  \/ Arrival \/ SenderStep \/ ReceiverStep \/ Callback
  \/ RequestShutdown \/ PrepareToShutdown

Spec == Init /\ [][Next]_vars


-----------------------------------------------------------------------------
(* Types.                                                                  *)
TypeOK ==
  /\ wsState \in WsState
  /\ transcriptionFinalized \in BOOLEAN
  /\ nextConversationQueued \in BOOLEAN
  /\ recentOTuple \in OTuple \union {NoTuple}
  /\ wsClient \in BOOLEAN
  /\ wsHandle \in BOOLEAN
  /\ accessToken \in BOOLEAN
  /\ nAttemptsCurrent \in Nat
  /\ spc \in SenderPc
  /\ item \in Item \union {NoItem}
  /\ sStopped \in BOOLEAN
  /\ mediaEndReached \in BOOLEAN
  /\ oTupleWastebasket \in SUBSET OTuple
  /\ nConversations \in Nat
  /\ nFragments \in Nat
  /\ nAttempts \in Nat
  /\ nAttemptsFailed \in Nat
  /\ rpc \in ReceiverPc
  /\ rTuple \in OTuple \union {NoTuple}
  /\ rFinal \in BOOLEAN
  /\ rSpeakers \in BOOLEAN
  /\ oTupleUsedForSubmission \in OTuple \union {NoTuple}
  /\ nTranscribed \in Nat
  /\ nFailed \in Nat
  /\ out \in [kind : OutKind, conv : Nat]
  /\ marks \in Nat
  /\ phase \in Phase
  /\ requests \in Seq(Request)
  /\ shutdown \in {"no", "requested", "prepared"}
  /\ nInputs \in Nat
  /\ nFaults \in Nat

-----------------------------------------------------------------------------
(* The tuples a callback can still write to or submit.  After an exception *)
(* oTupleUsedForSubmission keeps its value, but the next connection resets *)
(* it before any callback runs.                                            *)
InCallbacks == rpc \notin {"loop", "setup", "ran", "done"}

HeldTuples ==
  IF InCallbacks THEN {rTuple, oTupleUsedForSubmission} \ {NoTuple} ELSE {}

(* No pointer that the receiver holds, or could still load, refers to a    *)
(* tuple the sender has deleted: the promise made for oTupleWastebasket    *)
(* ("a o tuple is never used concurrently from sender and receiver         *)
(* thread") and for recentOTuple ("the previous value remains valid until  *)
(* transcriptionFinalized is flagged").                                    *)
NoDanglingTuple ==
  /\ HeldTuples \subseteq oTupleWastebasket
  /\ recentOTuple # NoTuple => recentOTuple \in oTupleWastebasket

(* A finalized transcription means that the sender is between two          *)
(* conversations: a stale or early listening message never ends a          *)
(* conversation that is still being fed.                                   *)
BetweenConversations == {"ready", "waitEnd", "newConversation", "final"}

FinalizedOnlyBetweenConversations ==
  transcriptionFinalized => mediaEndReached /\ spc \in BetweenConversations

(* Once the transcription is finalized nothing more is submitted for it:   *)
(* no callback holds a tuple and none can load one.                        *)
QuietAfterFinalized ==
  transcriptionFinalized => HeldTuples = {} /\ recentOTuple = NoTuple

(* Whatever the service can transcribe now is audio of one conversation,   *)
(* and the tuple a result would be written to belongs to it.  In           *)
(* particular on_message never throws for want of a recent tuple.          *)
ResultsMeetTheirConversation ==
  rpc = "run" /\ ServiceTranscribes =>
    /\ recentOTuple # NoTuple
    /\ Head(requests).convs = {conv(recentOTuple)}

(* The service is never handed a second request while the first one is     *)
(* unanswered, so its next listening message ends the right conversation.  *)
OneRequestAtATime == Len(requests) <= 1

(* The sender uses client and handle only while both belong to a           *)
(* connection that was open, never while the receiver replaces them        *)
(* ("should not use them during connecting state").                        *)
ClientStableWhileSending ==
  spc \in {"sendData", "sendStop"} => wsClient /\ wsHandle /\ rpc # "setup"

(* When the receiver has decided to close the connection, and until the    *)
(* connection is gone, the sender has nothing under way on it: the race    *)
(* that nextConversationQueued and state closing are there to avoid.       *)
CloseLosesNoAudio ==
  rpc = "close" \/ (phase = "closing" /\ ~shutdownRequested) =>
    /\ requests = <<>>
    /\ spc \notin {"publish", "sendData", "checkStop", "sendStop"}

(* A healthy connection never delivers a message in a state that           *)
(* on_message rejects.                                                     *)
MessagesFindListener ==
  rpc = "run" /\ phase \in {"opened", "ready"} => EntryStateOk

(* With the end tuple requested, every window marker the receiver submits  *)
(* comes directly after an end tuple, and nothing comes between the two,   *)
(* save the final marker of a job that is being cancelled.                 *)
EndTupleThenWindowMarker ==
  [][ ~shutdownRequested =>
        /\ marks' > marks /\ isTranscriptionCompletedRequested => out.kind = "completed"
        /\ out.kind = "completed" /\ out' # out => out'.kind = "window" ]_vars

(* Tuples leave in the order of the conversations: whatever is submitted,  *)
(* a result, an error or an end, is of the conversation that the sender    *)
(* feeds or, while it waits with the first item of the next one, of the    *)
(* one before.                                                             *)
ConversationInHand ==
  IF spc \in {"waitEnd", "newConversation"} THEN nConversations - 1 ELSE nConversations

OutputInOrder ==
  [][ ~shutdownRequested /\ out' # out /\ out'.conv > 0 =>
        out'.conv = ConversationInHand ]_vars

(* The sender moves to the next conversation only when the previous one    *)
(* got its window marker or the connection was lost.                       *)
MovesOnAfterMarker ==
  [][ spc = "waitEnd" /\ spc' = "newConversation" /\ nConversations > 1 =>
        marks > 0 \/ receiverHasStopped(wsState) ]_vars

-----------------------------------------------------------------------------
(* Fairness.  Both threads run.  The service answers a start and, since it *)
(* returns finitely many results per request, a stop; it closes after an   *)
(* error message and completes close handshakes; an idle session times     *)
(* out.  An access token keeps arriving.                                   *)
Fairness ==
  /\ WF_vars(SenderStep)
  /\ WF_vars(ReceiverStep)
  /\ WF_vars(OnOpen)
  /\ WF_vars(OnFirstListening)
  /\ SF_vars(OnListeningAgain)
  /\ WF_vars(OnCloseRequested)
  /\ SF_vars(OnCloseTimeout)
  /\ WF_vars(ReceiveToken /\ accessToken')
  /\ WF_vars(PrepareToShutdown)

FairSpec == Spec /\ Fairness

(* The sender always gets back to its input: neither the wait for the end  *)
(* of a transcription nor connect() hangs, whatever the service does.      *)
SenderReturns == spc # "ready" ~> spc = "ready"

(* A stop the service has received leads to the end of the transcription   *)
(* unless something failed or the job is cancelled.  The timeout that      *)
(* closes idle sessions does not get in between.                           *)
StopEndsTranscription ==
  phase = "ready" /\ StopAwaitsAnswer
    ~> transcriptionFinalized \/ nFaults > 0 \/ shutdownRequested

(* After a shutdown request the receiver thread ends.                      *)
ShutdownEndsReceiver == shutdownRequested ~> rpc = "done"

-----------------------------------------------------------------------------
(* Refinement: wastebasket, recent tuple and the pointers of the callbacks *)
(* follow the handover protocol of OTupleHandover.                         *)
Handover == INSTANCE OTupleHandover
  WITH Tuple <- OTuple, None <- NoTuple,
       live <- oTupleWastebasket, offered <- recentOTuple, held <- HeldTuples

(* The sender deletes the tuples of a conversation only when the receiver  *)
(* holds none and can take none.                                           *)
HandoverSpec == Handover!Spec

-----------------------------------------------------------------------------
(* What the documentation says and the code does not do.                   *)

(* "The operator sends in any case a window punctuation marker at the end  *)
(* of an conversation" (WatsonSTT.xml): no conversation starts before the  *)
(* previous one has its marker.                                            *)
WindowMarkerInAnyCase ==
  spc = "newConversation" /\ nConversations > 1 => marks > 0
=============================================================================
