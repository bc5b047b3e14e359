-------------------------- MODULE WatsonSTTProofs --------------------------
(***************************************************************************)
(* Why the sender never deletes a tuple under the receiver's hands, and    *)
(* what a conversation can rely on, for any number of inputs and faults,   *)
(* every parameter setting, and with the job cancelled at any time.        *)
(***************************************************************************)
EXTENDS WatsonSTT, TLAPS

(* The state is one the receiver passes through while it connects; the     *)
(* sender asked for it and waits in connect(), or has left for shutdown.   *)
ConnectingStates == {"start", "connecting", "open"}

SenderWaits ==
  /\ wsState \in ConnectingStates => spc = "connect" \/ (spc = "ready" /\ shutdownRequested)
  /\ rpc = "setup" => wsState = "connecting"
  /\ shutdown \in {"no", "requested", "prepared"}

(* A stopped receiver runs no callback; the sender's snapshot of a stopped *)
(* state stays true, since only the sender leaves such a state.            *)
StoppedMeansStopped ==
  /\ receiverHasStopped(wsState) => rpc \in {"ran", "loop", "done"}
  /\ spc \in {"waitEnd", "final"} /\ sStopped => receiverHasStopped(wsState)

(* Where a callback can have a tuple in its hands.                         *)
HandPcs == {"completed", "errorTuple", "utterance", "closeErrorTuple",
            "closeCompleted", "closeMark"}

(* Between the answer to a stop and the finalization flag.                 *)
EndingPcs == {"close", "complete", "completed", "mark", "finalize"}

Pointers ==
  /\ rTuple # NoTuple => rpc \in HandPcs
  /\ rpc \in {"setup", "completed", "mark", "finalize"} => oTupleUsedForSubmission = NoTuple
  /\ rpc = "finalize" => recentOTuple = NoTuple

(* Handlers that run after the library has reported the connection lost.   *)
ClosePcs == {"closeError", "closeErrorTuple", "closeLoad", "closeCompleted",
             "closeMark", "closeForget", "setClosed"}

(* The connection is up only while the library may call the handlers, and  *)
(* it is being set up only in state connecting.                            *)
Link ==
  /\ ConnectionUp => InCallbacks /\ rpc \notin ClosePcs
  /\ phase = "connecting" => rpc = "run" /\ wsState = "connecting"

(* At most one request, on a connection that is up, and none while the end *)
(* of one is reported.                                                     *)
Requests ==
  /\ OneRequestAtATime
  /\ requests # <<>> => ConnectionUp
  /\ rpc \in EndingPcs => requests = <<>>

Ending == rpc \in EndingPcs \/ StopAwaitsAnswer

(* From the stop message to the flag the sender stays between two          *)
(* conversations.                                                          *)
SenderRests ==
  /\ Ending => mediaEndReached /\ ~transcriptionFinalized
               /\ spc \in {"ready", "waitEnd", "final"}
  /\ spc \in {"checkStop", "sendStop"} => mediaEndReached

(* The permission to delete: at the end of the wait it is one of two       *)
(* facts, afterwards it is what both of them imply.                        *)
MayDelete ==
  /\ spc = "newConversation" => transcriptionFinalized \/ receiverHasStopped(wsState)
  /\ spc \in {"forget", "recycle"} =>
       /\ HeldTuples = {}
       /\ InCallbacks => recentOTuple = NoTuple
  /\ spc = "recycle" => recentOTuple = NoTuple

IInv ==
  /\ SenderWaits
  /\ StoppedMeansStopped
  /\ Pointers
  /\ Link
  /\ Requests
  /\ SenderRests
  /\ MayDelete
  /\ FinalizedOnlyBetweenConversations
  /\ QuietAfterFinalized
  /\ NoDanglingTuple

-----------------------------------------------------------------------------
(* The variable groups and the frame conditions are expanded everywhere.   *)
USE DEF handoverVars, clientVars, attemptVars, inputVars, mediaVars, callbackVars,
        transcriptVars, outVars, serviceVars, ReceiverKept, SharedKept, LocalKept,
        RestKept, SenderKept, FlagsKept, CallbackKept, CountsKept, LinkKept,
        Goto, RGoto

(* What the operators that build values return.                            *)
LEMMA OutputType ==
  ASSUME NEW kind \in OutKind, NEW t \in OTuple \union {NoTuple}
  PROVE  Output(kind, t) \in [kind : OutKind, conv : Nat]
BY DEF Output, conv, OTuple

LEMMA StoppedIsBoolean == \A ws : receiverHasStopped(ws) \in BOOLEAN
BY DEF receiverHasStopped

LEMMA ServiceGetsType ==
  ASSUME requests \in Seq(Request), NEW convs \in SUBSET Nat, NEW stop \in BOOLEAN,
         ServiceGets(convs, stop)
  PROVE  requests' \in Seq(Request)
<1>1. [convs |-> convs, stopped |-> stop] \in Request
  BY DEF Request
<1>2. CASE HasOpenRequest
  <2>1. Len(requests) \in 1 .. Len(requests)
    BY <1>2 DEF HasOpenRequest
  <2>2. requests[Len(requests)] \in Request
    BY <2>1
  <2>3. [convs |-> requests[Len(requests)].convs \union convs, stopped |-> stop]
          \in Request
    BY <2>2 DEF Request
  <2>. QED
    BY <1>2, <2>1, <2>3 DEF ServiceGets
<1>3. CASE ~HasOpenRequest
  BY <1>1, <1>3 DEF ServiceGets
<1>. QED
  BY <1>2, <1>3

(* The variables of type bool and std::atomic<bool>.                       *)
FlagsTyped ==
  /\ transcriptionFinalized \in BOOLEAN
  /\ nextConversationQueued \in BOOLEAN
  /\ wsClient \in BOOLEAN
  /\ wsHandle \in BOOLEAN
  /\ accessToken \in BOOLEAN
  /\ sStopped \in BOOLEAN
  /\ mediaEndReached \in BOOLEAN
  /\ rFinal \in BOOLEAN
  /\ rSpeakers \in BOOLEAN

(* Every variable keeps its type.                                          *)
THEOREM TypeCorrect == Spec => []TypeOK
<1> USE NoTupleIsNoTuple DEF WsState, Item, NoItem, Phase, SenderPc, ReceiverPc
<1>1. Init => TypeOK
  <2>1. Output("none", NoTuple) \in [kind : OutKind, conv : Nat]
    BY OutputType DEF OutKind
  <2>2. Init => FlagsTyped
    BY DEF Init, FlagsTyped
  <2>3. Init => requests \in Seq(Request)
    BY DEF Init
  <2>. QED
    BY <2>1, <2>2, <2>3 DEF Init, TypeOK, FlagsTyped, Phase
<1>2. TypeOK /\ [Next]_vars => TypeOK'
  <2> SUFFICES ASSUME TypeOK, [Next]_vars PROVE TypeOK'
    OBVIOUS
  <2> USE StoppedIsBoolean, ParametersAreBoolean DEF TypeOK, FlagsTyped
  <2>a. \A kind \in {"none", "utterance", "error", "completed", "window", "final"},
           t \in OTuple \union {NoTuple} : Output(kind, t) \in [kind : OutKind, conv : Nat]
    BY OutputType DEF OutKind
  <2>b. <<>> \in Seq(Request)
    OBVIOUS
  <2>1. CASE ReceiveTuple
    <3>1. FlagsTyped'
      BY <2>1 DEF ReceiveTuple, Arrives
    <3>2. item' \in Item \union {NoItem}
      BY <2>1 DEF ReceiveTuple
    <3>3. nInputs' \in Nat /\ nConversations' \in Nat /\ spc' \in SenderPc
      BY <2>1 DEF ReceiveTuple, Arrives
    <3>. QED
      BY <2>1, <3>1, <3>2, <3>3 DEF ReceiveTuple
  <2>2. CASE AwaitFinalization
    <3>1. FlagsTyped'
      BY <2>2 DEF AwaitFinalization, EndAwaited
    <3>. QED
      BY <2>2, <2>a, <2>b, <3>1 DEF AwaitFinalization, EndAwaited
  <2>3. CASE BeginConversation
    <3>1. FlagsTyped'
      BY <2>3 DEF BeginConversation
    <3>. QED
      BY <2>3, <2>a, <2>b, <3>1 DEF BeginConversation
  <2>4. CASE ForgetRecentTuple
    BY <2>4, <2>a DEF ForgetRecentTuple
  <2>5. CASE RecycleTuples
    BY <2>5, <2>a DEF RecycleTuples
  <2>6. CASE AwaitAccessToken
    BY <2>6, <2>a DEF AwaitAccessToken
  <2>7. CASE Connect
    BY <2>7, <2>a DEF Connect
  <2>8. CASE RequestConnection
    BY <2>8, <2>a DEF RequestConnection
  <2>9. CASE PublishTuple
    <3>1. FlagsTyped'
      BY <2>9 DEF PublishTuple, NewOTuple
    <3>. QED
      BY <2>9, <2>a, <2>b, <3>1, SMTT(20) DEF PublishTuple, NewOTuple, OTuple
  <2>10. CASE SendData
    <3>1. requests' \in Seq(Request)
      BY <2>10, ServiceGetsType DEF SendData
    <3>. QED
      BY <2>10, <3>1 DEF SendData
  <2>11. CASE EndMedia
    <3>1. FlagsTyped'
      BY <2>11 DEF EndMedia
    <3>. QED
      BY <2>11, <2>a, <2>b, <3>1 DEF EndMedia
  <2>12. CASE CheckStop
    BY <2>12, <2>a DEF CheckStop
  <2>13. CASE SendStop
    <3>1. requests' \in Seq(Request)
      BY <2>13, ServiceGetsType DEF SendStop
    <3>. QED
      BY <2>13, <3>1 DEF SendStop
  <2>14. CASE ReceiveWindowMarker
    BY <2>14, <2>a DEF ReceiveWindowMarker, Arrives
  <2>15. CASE ReceiveFinalMarker
    BY <2>15, <2>a DEF ReceiveFinalMarker, Arrives
  <2>16. CASE ForwardFinalMarker
    <3>1. FlagsTyped'
      BY <2>16 DEF ForwardFinalMarker, EndAwaited
    <3>. QED
      BY <2>16, <2>a, <2>b, <3>1 DEF ForwardFinalMarker, EndAwaited
  <2>17. CASE ReceiveToken
    <3>1. FlagsTyped'
      BY <2>17 DEF ReceiveToken
    <3>2. nFaults' \in Nat
      BY <2>17 DEF ReceiveToken
    <3>. QED
      BY <2>17, <3>1, <3>2 DEF ReceiveToken
  <2>18. CASE TakeConnectionRequest
    BY <2>18, <2>a DEF TakeConnectionRequest
  <2>19. CASE EndThread
    BY <2>19, <2>a DEF EndThread
  <2>20. CASE MakeClient
    <3>1. FlagsTyped'
      BY <2>20 DEF MakeClient, Fault, Crash
    <3>2. requests' \in Seq(Request)
      BY <2>20, <2>b DEF MakeClient, Fault, Crash
    <3>3. wsState' \in WsState
      BY <2>20 DEF MakeClient, Fault, Crash
    <3>4. phase' \in Phase
      BY <2>20 DEF MakeClient, Fault, Crash, Phase
    <3>5. rpc' \in ReceiverPc
      BY <2>20 DEF MakeClient, Fault, Crash
    <3>6. nFaults' \in Nat
      BY <2>20 DEF MakeClient, Fault, Crash
    <3>. QED
      BY <2>20, <3>1, <3>2, <3>3, <3>4, <3>5, <3>6 DEF MakeClient, Fault, Crash
  <2>21. CASE AfterRun
    BY <2>21, <2>a DEF AfterRun
  <2>22. CASE CloseConnection
    <3>1. FlagsTyped'
      BY <2>22 DEF CloseConnection, Fault, Crash
    <3>2. requests' \in Seq(Request)
      BY <2>22, <2>b DEF CloseConnection, Fault, Crash
    <3>3. wsState' \in WsState
      BY <2>22 DEF CloseConnection, Fault, Crash
    <3>4. phase' \in Phase
      BY <2>22 DEF CloseConnection, Fault, Crash, Phase
    <3>5. rpc' \in ReceiverPc
      BY <2>22 DEF CloseConnection, Fault, Crash
    <3>6. nFaults' \in Nat
      BY <2>22 DEF CloseConnection, Fault, Crash
    <3>. QED
      BY <2>22, <3>1, <3>2, <3>3, <3>4, <3>5, <3>6 DEF CloseConnection, Fault, Crash
  <2>23. CASE CompleteTranscription
    BY <2>23, <2>a DEF CompleteTranscription
  <2>24. CASE SubmitCompleted
    BY <2>24, <2>a DEF SubmitCompleted
  <2>25. CASE SubmitWindowMarker
    BY <2>25, <2>a DEF SubmitWindowMarker
  <2>26. CASE FinalizeTranscription
    BY <2>26, <2>a DEF FinalizeTranscription
  <2>27. CASE ErrorTupleOnMessage
    <3>1. CASE SendErrorTuple("sendError", "errorTuple", "setError")
      <4>1. out' \in [kind : OutKind, conv : Nat] /\ rpc' \in ReceiverPc
        BY <3>1, <2>a DEF SendErrorTuple
      <4>2. rTuple' \in OTuple \union {NoTuple} /\ oTupleUsedForSubmission' \in OTuple \union {NoTuple}
        BY <3>1 DEF SendErrorTuple
      <4>. QED
        BY <3>1, <4>1, <4>2 DEF SendErrorTuple
    <3>2. CASE SubmitErrorTuple("errorTuple", "setError")
      BY <3>2, <2>a DEF SubmitErrorTuple
    <3>. QED
      BY <2>27, <3>1, <3>2 DEF ErrorTupleOnMessage
  <2>28. CASE ErrorTupleOnClose
    <3>1. CASE SendErrorTuple("closeError", "closeErrorTuple", "closeLoad")
      <4>1. out' \in [kind : OutKind, conv : Nat] /\ rpc' \in ReceiverPc
        BY <3>1, <2>a DEF SendErrorTuple
      <4>2. rTuple' \in OTuple \union {NoTuple} /\ oTupleUsedForSubmission' \in OTuple \union {NoTuple}
        BY <3>1 DEF SendErrorTuple
      <4>. QED
        BY <3>1, <4>1, <4>2 DEF SendErrorTuple
    <3>2. CASE SubmitErrorTuple("closeErrorTuple", "closeLoad")
      BY <3>2, <2>a DEF SubmitErrorTuple
    <3>. QED
      BY <2>28, <3>1, <3>2 DEF ErrorTupleOnClose
  <2>29. CASE SetError
    BY <2>29, <2>a DEF SetError
  <2>30. CASE SubmitUtterance
    <3>1. FlagsTyped'
      BY <2>30 DEF SubmitUtterance
    <3>. QED
      BY <2>30, <2>a, <2>b, <3>1 DEF SubmitUtterance
  <2>31. CASE SubmitWithSpeakers
    BY <2>31, <2>a DEF SubmitWithSpeakers
  <2>32. CASE LoadForClose
    BY <2>32, <2>a DEF LoadForClose
  <2>33. CASE CompletedOnClose
    BY <2>33, <2>a DEF CompletedOnClose
  <2>34. CASE WindowMarkerOnClose
    BY <2>34, <2>a DEF WindowMarkerOnClose
  <2>35. CASE ForgetOnClose
    BY <2>35, <2>a DEF ForgetOnClose
  <2>36. CASE SetClosed
    BY <2>36, <2>a DEF SetClosed
  <2>37. CASE OnOpen
    <3>1. FlagsTyped'
      <4>1. wsHandle' \in BOOLEAN
        BY <2>37 DEF OnOpen
      <4>2. UNCHANGED <<transcriptionFinalized, nextConversationQueued, wsClient,
                        accessToken, sStopped, mediaEndReached, rFinal, rSpeakers>>
        BY <2>37 DEF OnOpen
      <4>. QED
        BY <4>1, <4>2
    <3>2. requests' \in Seq(Request)
      BY <2>37, <2>b DEF OnOpen, Fault, Crash
    <3>3. wsState' \in WsState
      BY <2>37 DEF OnOpen, Fault, Crash
    <3>4. phase' \in Phase
      BY <2>37 DEF OnOpen, Fault, Crash, Phase
    <3>5. rpc' \in ReceiverPc
      BY <2>37 DEF OnOpen, Fault, Crash
    <3>6. nFaults' \in Nat
      BY <2>37 DEF OnOpen, Fault, Crash
    <3>. QED
      BY <2>37, <3>1, <3>2, <3>3, <3>4, <3>5, <3>6 DEF OnOpen, Fault, Crash
  <2>38. CASE OnFail
    BY <2>38, <2>a DEF OnFail, Fault
  <2>39. CASE OnMessageThrows
    BY <2>39, <2>a DEF OnMessageThrows, Fault, Crash
  <2>40. CASE OnFirstListening
    BY <2>40, <2>a DEF OnFirstListening
  <2>41. CASE OnListeningAgain
    BY <2>41, <2>a DEF OnListeningAgain, StopAwaitsAnswer
  <2>42. CASE OnError
    BY <2>42, <2>a DEF OnError, Fault
  <2>43. CASE OnUtterance
    <3>1. FlagsTyped'
      BY <2>43 DEF OnUtterance, Crash
    <3>2. requests' \in Seq(Request)
      BY <2>43, <2>b DEF OnUtterance, Crash
    <3>3. wsState' \in WsState
      BY <2>43 DEF OnUtterance, Crash
    <3>4. phase' \in Phase
      BY <2>43 DEF OnUtterance, Crash, Phase
    <3>5. rpc' \in ReceiverPc
      BY <2>43 DEF OnUtterance, Crash
    <3>6. out' \in [kind : OutKind, conv : Nat]
      BY <2>43, <2>a DEF OnUtterance, Crash
    <3>7. rTuple' \in OTuple \union {NoTuple}
      BY <2>43 DEF OnUtterance, Crash
    <3>8. oTupleUsedForSubmission' \in OTuple \union {NoTuple}
      BY <2>43 DEF OnUtterance, Crash
    <3>. QED
      BY <2>43, <3>1, <3>2, <3>3, <3>4, <3>5, <3>6, <3>7, <3>8 DEF OnUtterance, Crash
  <2>44. CASE OnSpeakerLabels
    BY <2>44, <2>a DEF OnSpeakerLabels
  <2>45. CASE OnCloseRequested
    BY <2>45, <2>a DEF OnCloseRequested, OnClose
  <2>46. CASE OnCloseDropped
    <3>1. FlagsTyped'
      BY <2>46 DEF OnCloseDropped, OnClose, Fault
    <3>2. requests' \in Seq(Request)
      BY <2>46, <2>b DEF OnCloseDropped, OnClose, Fault
    <3>3. phase' \in Phase
      BY <2>46 DEF OnCloseDropped, OnClose, Fault, Phase
    <3>4. rpc' \in ReceiverPc
      BY <2>46 DEF OnCloseDropped, OnClose, Fault
    <3>5. nFaults' \in Nat
      BY <2>46 DEF OnCloseDropped, OnClose, Fault
    <3>. QED
      BY <2>46, <3>1, <3>2, <3>3, <3>4, <3>5 DEF OnCloseDropped, OnClose, Fault
  <2>47. CASE OnCloseTimeout
    BY <2>47, <2>a DEF OnCloseTimeout, OnClose
  <2>48. CASE RequestShutdown
    BY <2>48, <2>a DEF RequestShutdown
  <2>49. CASE PrepareToShutdown
    <3>1. FlagsTyped'
      BY <2>49 DEF PrepareToShutdown
    <3>2. requests' \in Seq(Request)
      BY <2>49, <2>b DEF PrepareToShutdown
    <3>3. phase' \in Phase
      BY <2>49 DEF PrepareToShutdown, Phase
    <3>4. shutdown' \in {"no", "requested", "prepared"}
      BY <2>49 DEF PrepareToShutdown
    <3>. QED
      BY <2>49, <3>1, <3>2, <3>3, <3>4 DEF PrepareToShutdown
  <2>50. CASE UNCHANGED vars
    BY <2>50 DEF vars
  <2>. QED
    BY <2>1, <2>2, <2>3, <2>4, <2>5, <2>6, <2>7, <2>8, <2>9, <2>10, <2>11, <2>12, <2>13,
        <2>14, <2>15, <2>16, <2>17, <2>18, <2>19, <2>20, <2>21, <2>22, <2>23, <2>24, <2>25,
        <2>26, <2>27, <2>28, <2>29, <2>30, <2>31, <2>32, <2>33, <2>34, <2>35, <2>36, <2>37,
        <2>38, <2>39, <2>40, <2>41, <2>42, <2>43, <2>44, <2>45, <2>46, <2>47, <2>48, <2>49,
        <2>50 DEF Next, Arrival, SenderStep, ReceiverStep, Callback
<1>3. QED
  BY <1>1, <1>2, PTL DEF Spec

(* The strengthening is inductive.                                         *)
THEOREM IInvCorrect == Spec => []IInv
<1> USE NoTupleIsNoTuple
    DEF IInv, SenderWaits, StoppedMeansStopped, Pointers, Link, Requests, SenderRests,
        MayDelete, FinalizedOnlyBetweenConversations, QuietAfterFinalized,
        NoDanglingTuple, ConnectingStates, HandPcs, EndingPcs, ClosePcs, Ending,
        InCallbacks, HeldTuples, ConnectionUp, OneRequestAtATime, StopAwaitsAnswer,
        BetweenConversations, receiverHasStopped, shutdownRequested
<1>1. Init => IInv
  BY DEF Init
<1>2. TypeOK /\ IInv /\ [Next]_vars => IInv'
  <2> SUFFICES ASSUME TypeOK, IInv, [Next]_vars PROVE IInv'
    OBVIOUS
  <2>a. requests \in Seq(Request)
    BY DEF TypeOK
  <2>1. CASE ReceiveTuple
    <3>1. UNCHANGED <<wsState, transcriptionFinalized, recentOTuple, mediaEndReached, rpc,
                      rTuple, oTupleWastebasket, oTupleUsedForSubmission, serviceVars,
                      shutdown>>
      BY <2>1 DEF ReceiveTuple
    <3>2. ~shutdownRequested /\ spc = "ready"
      BY <2>1 DEF ReceiveTuple, Arrives
    <3>3. CASE /\ mediaEndReached /\ spc' = "waitEnd"
               /\ sStopped' => receiverHasStopped(wsState)
      BY <3>1, <3>2, <3>3
    <3>4. CASE ~mediaEndReached /\ spc' = "token"
      BY <3>1, <3>2, <3>4
    <3>. QED
      BY <2>1, <3>3, <3>4 DEF ReceiveTuple
  <2>2. CASE AwaitFinalization
    <3>1. CASE EndAwaited
      BY <2>2, <3>1, <2>a DEF AwaitFinalization, EndAwaited
    <3>2. CASE ~EndAwaited
      <4>1. UNCHANGED <<wsState, handoverVars, mediaEndReached, rpc, rTuple,
                        oTupleWastebasket, oTupleUsedForSubmission, serviceVars, shutdown>>
        BY <2>2 DEF AwaitFinalization
      <4>2. spc = "waitEnd" /\ (sStopped' => receiverHasStopped(wsState))
        BY <2>2, <3>2 DEF AwaitFinalization
      <4>3. CASE spc' = "ready"
        BY <4>1, <4>2, <4>3
      <4>4. CASE spc' = "waitEnd"
        BY <4>1, <4>2, <4>4
      <4>. QED
        BY <2>2, <3>2, <4>3, <4>4 DEF AwaitFinalization
    <3>. QED
      BY <3>1, <3>2
  <2>3. CASE BeginConversation
    BY <2>3, <2>a DEF BeginConversation
  <2>4. CASE ForgetRecentTuple
    BY <2>4, <2>a DEF ForgetRecentTuple
  <2>5. CASE RecycleTuples
    BY <2>5, <2>a DEF RecycleTuples
  <2>6. CASE AwaitAccessToken
    BY <2>6, <2>a DEF AwaitAccessToken
  <2>7. CASE Connect
    <3>1. CASE wsState = "listening"
      BY <2>7, <3>1, <2>a DEF Connect, receiverHasTransientState
    <3>2. CASE wsState # "listening"
      BY <2>7, <3>2, <2>a DEF Connect, receiverHasTransientState
    <3>. QED
      BY <3>1, <3>2
  <2>8. CASE RequestConnection
    BY <2>8, <2>a DEF RequestConnection
  <2>9. CASE PublishTuple
    BY <2>9, <2>a DEF PublishTuple, NewOTuple
  <2>10. CASE SendData
    BY <2>10, <2>a DEF SendData, ServiceGets, HasOpenRequest
  <2>11. CASE EndMedia
    BY <2>11, <2>a DEF EndMedia
  <2>12. CASE CheckStop
    BY <2>12, <2>a DEF CheckStop
  <2>13. CASE SendStop
    BY <2>13, <2>a DEF SendStop, ServiceGets, HasOpenRequest
  <2>14. CASE ReceiveWindowMarker
    BY <2>14, <2>a DEF ReceiveWindowMarker, Arrives
  <2>15. CASE ReceiveFinalMarker
    BY <2>15, <2>a DEF ReceiveFinalMarker, Arrives
  <2>16. CASE ForwardFinalMarker
    <3>1. UNCHANGED <<wsState, handoverVars, mediaEndReached, rpc, rTuple,
                      oTupleWastebasket, oTupleUsedForSubmission, serviceVars, shutdown>>
      BY <2>16 DEF ForwardFinalMarker
    <3>2. spc = "final"
      BY <2>16 DEF ForwardFinalMarker
    <3>3. CASE spc' = "ready"
      BY <3>1, <3>2, <3>3
    <3>4. CASE spc' = "final" /\ (sStopped' => receiverHasStopped(wsState))
      BY <3>1, <3>2, <3>4
    <3>. QED
      BY <2>16, <3>3, <3>4 DEF ForwardFinalMarker
  <2>17. CASE ReceiveToken
    <3>1. UNCHANGED <<wsState, handoverVars, sStopped, mediaEndReached, spc, rpc, rTuple,
                      oTupleWastebasket, oTupleUsedForSubmission, serviceVars, shutdown>>
      BY <2>17 DEF ReceiveToken
    <3>. QED
      BY <3>1
  <2>18. CASE TakeConnectionRequest
    BY <2>18, <2>a DEF TakeConnectionRequest
  <2>19. CASE EndThread
    BY <2>19, <2>a DEF EndThread
  <2>20. CASE MakeClient
    BY <2>20, <2>a DEF MakeClient, Fault, Crash
  <2>21. CASE AfterRun
    BY <2>21, <2>a DEF AfterRun
  <2>22. CASE CloseConnection
    BY <2>22, <2>a DEF CloseConnection, Fault, Crash
  <2>23. CASE CompleteTranscription
    BY <2>23, <2>a DEF CompleteTranscription
  <2>24. CASE SubmitCompleted
    BY <2>24, <2>a DEF SubmitCompleted
  <2>25. CASE SubmitWindowMarker
    BY <2>25, <2>a DEF SubmitWindowMarker
  <2>26. CASE FinalizeTranscription
    BY <2>26, <2>a DEF FinalizeTranscription
  <2>27. CASE ErrorTupleOnMessage
    <3>1. CASE SendErrorTuple("sendError", "errorTuple", "setError")
      BY <3>1, <2>a DEF SendErrorTuple
    <3>2. CASE SubmitErrorTuple("errorTuple", "setError")
      <4>1. UNCHANGED <<wsState, handoverVars, sStopped, mediaEndReached, spc, shutdown,
                        oTupleWastebasket, oTupleUsedForSubmission, serviceVars>>
        BY <3>2 DEF SubmitErrorTuple
      <4>2. rpc = "errorTuple" /\ rpc' = "setError" /\ rTuple' = NoTuple
        BY <3>2 DEF SubmitErrorTuple
      <4>. QED
        BY <4>1, <4>2
    <3>. QED
      BY <2>27, <3>1, <3>2 DEF ErrorTupleOnMessage
  <2>28. CASE ErrorTupleOnClose
    BY <2>28, <2>a DEF ErrorTupleOnClose, SendErrorTuple, SubmitErrorTuple
  <2>29. CASE SetError
    BY <2>29, <2>a DEF SetError
  <2>30. CASE SubmitUtterance
    BY <2>30, <2>a DEF SubmitUtterance
  <2>31. CASE SubmitWithSpeakers
    BY <2>31, <2>a DEF SubmitWithSpeakers
  <2>32. CASE LoadForClose
    BY <2>32, <2>a DEF LoadForClose
  <2>33. CASE CompletedOnClose
    BY <2>33, <2>a DEF CompletedOnClose
  <2>34. CASE WindowMarkerOnClose
    BY <2>34, <2>a DEF WindowMarkerOnClose
  <2>35. CASE ForgetOnClose
    BY <2>35, <2>a DEF ForgetOnClose
  <2>36. CASE SetClosed
    BY <2>36, <2>a DEF SetClosed
  <2>37. CASE OnOpen
    BY <2>37, <2>a DEF OnOpen, Fault, Crash
  <2>38. CASE OnFail
    BY <2>38, <2>a DEF OnFail, Fault
  <2>39. CASE OnMessageThrows
    BY <2>39, <2>a DEF OnMessageThrows, Fault, Crash, MessageArrives
  <2>40. CASE OnFirstListening
    BY <2>40, <2>a DEF OnFirstListening, MessageArrives
  <2>41. CASE OnListeningAgain
    BY <2>41, <2>a DEF OnListeningAgain, MessageArrives
  <2>42. CASE OnError
    BY <2>42, <2>a DEF OnError, Fault, MessageArrives
  <2>43. CASE OnUtterance
    BY <2>43, <2>a DEF OnUtterance, Crash, MessageArrives
  <2>44. CASE OnSpeakerLabels
    BY <2>44, <2>a DEF OnSpeakerLabels, MessageArrives
  <2>45. CASE OnCloseRequested
    BY <2>45, <2>a DEF OnCloseRequested, OnClose
  <2>46. CASE OnCloseDropped
    BY <2>46, <2>a DEF OnCloseDropped, OnClose, Fault
  <2>47. CASE OnCloseTimeout
    BY <2>47, <2>a DEF OnCloseTimeout, OnClose
  <2>48. CASE RequestShutdown
    BY <2>48, <2>a DEF RequestShutdown
  <2>49. CASE PrepareToShutdown
    <3>a. UNCHANGED <<wsState, handoverVars, sStopped, mediaEndReached, spc, rpc,
                      rTuple, oTupleWastebasket, oTupleUsedForSubmission>>
      BY <2>49 DEF PrepareToShutdown
    <3>b. shutdown # "no" /\ shutdown' = "prepared"
      BY <2>49 DEF PrepareToShutdown
    <3>1. CASE UNCHANGED serviceVars
      BY <3>1, <3>a, <3>b
    <3>2. CASE phase' = "closing" /\ requests' = <<>>
      BY <3>2, <3>a, <3>b
    <3>. QED
      BY <2>49, <3>1, <3>2 DEF PrepareToShutdown
  <2>50. CASE UNCHANGED vars
    BY <2>50 DEF vars
  <2> HIDE DEF IInv
  <2>. QED
    BY <2>1, <2>2, <2>3, <2>4, <2>5, <2>6, <2>7, <2>8, <2>9, <2>10, <2>11, <2>12, <2>13,
        <2>14, <2>15, <2>16, <2>17, <2>18, <2>19, <2>20, <2>21, <2>22, <2>23, <2>24, <2>25,
        <2>26, <2>27, <2>28, <2>29, <2>30, <2>31, <2>32, <2>33, <2>34, <2>35, <2>36, <2>37,
        <2>38, <2>39, <2>40, <2>41, <2>42, <2>43, <2>44, <2>45, <2>46, <2>47, <2>48, <2>49,
        <2>50 DEF Next, Arrival, SenderStep, ReceiverStep, Callback
<1> HIDE DEF IInv
<1>3. QED
  BY <1>1, <1>2, TypeCorrect, PTL DEF Spec

(* No thread reaches a tuple the sender has deleted.                       *)
THEOREM TuplesSafe == Spec => []NoDanglingTuple
<1>1. IInv => NoDanglingTuple
  BY DEF IInv
<1>. QED
  BY <1>1, IInvCorrect, PTL

(* The flag is up only between two conversations.                          *)
THEOREM FinalizedSafe == Spec => []FinalizedOnlyBetweenConversations
<1>1. IInv => FinalizedOnlyBetweenConversations
  BY DEF IInv
<1>. QED
  BY <1>1, IInvCorrect, PTL

(* Nothing is submitted for a conversation whose flag is up.               *)
THEOREM QuietSafe == Spec => []QuietAfterFinalized
<1>1. IInv => QuietAfterFinalized
  BY DEF IInv
<1>. QED
  BY <1>1, IInvCorrect, PTL

(* The service has never two unanswered requests.                          *)
THEOREM RequestsSafe == Spec => []OneRequestAtATime
<1>1. IInv => OneRequestAtATime
  BY DEF IInv, Requests
<1>. QED
  BY <1>1, IInvCorrect, PTL

(* The two threads keep to the handover protocol.                          *)
THEOREM HandoverCorrect == Spec => HandoverSpec
<1> USE DEF HeldTuples, InCallbacks
<1>1. Init => Handover!Init
  BY DEF Init, Handover!Init
<1>2. TypeOK /\ IInv /\ IInv' /\ [Next]_vars => [Handover!Next]_(Handover!vars)
  <2> SUFFICES ASSUME TypeOK, IInv, IInv', [Next]_vars
               PROVE  [Handover!Next]_(Handover!vars)
    OBVIOUS
  <2> DEFINE Stays == UNCHANGED <<oTupleWastebasket, recentOTuple, HeldTuples>>
  <2> USE DEF Handover!Next, Handover!vars
  <2>a. Stays => [Handover!Next]_(Handover!vars)
    OBVIOUS
  <2>b. recentOTuple \in OTuple \union {NoTuple}
    BY DEF TypeOK
  <2>c. Pointers /\ Pointers' /\ MayDelete
    BY DEF IInv
  <2> HIDE DEF HeldTuples
  <2>1. CASE ReceiveTuple
    BY <2>1, <2>a DEF ReceiveTuple, Arrives, HeldTuples
  <2>2. CASE AwaitFinalization
    BY <2>2, <2>a DEF AwaitFinalization, EndAwaited, HeldTuples
  <2>3. CASE BeginConversation
    BY <2>3, <2>a DEF BeginConversation, HeldTuples
  <2>4. CASE ForgetRecentTuple
    <3>1. Handover!Withdraw
      BY <2>4 DEF ForgetRecentTuple, Handover!Withdraw, HeldTuples
    <3>. QED
      BY <3>1
  <2>5. CASE RecycleTuples
    <3>1. Handover!Recycle
      BY <2>5, <2>c DEF RecycleTuples, Handover!Recycle, HeldTuples, MayDelete
    <3>. QED
      BY <3>1
  <2>6. CASE AwaitAccessToken
    BY <2>6, <2>a DEF AwaitAccessToken, HeldTuples
  <2>7. CASE Connect
    BY <2>7, <2>a DEF Connect, HeldTuples
  <2>8. CASE RequestConnection
    BY <2>8, <2>a DEF RequestConnection, HeldTuples
  <2>9. CASE PublishTuple
    <3>1. Handover!Offer
      BY <2>9 DEF PublishTuple, NewOTuple, Handover!Offer, HeldTuples, OTuple, TypeOK
    <3>. QED
      BY <3>1
  <2>10. CASE SendData
    BY <2>10, <2>a DEF SendData, HeldTuples
  <2>11. CASE EndMedia
    BY <2>11, <2>a DEF EndMedia, HeldTuples
  <2>12. CASE CheckStop
    BY <2>12, <2>a DEF CheckStop, HeldTuples
  <2>13. CASE SendStop
    BY <2>13, <2>a DEF SendStop, HeldTuples
  <2>14. CASE ReceiveWindowMarker
    BY <2>14, <2>a DEF ReceiveWindowMarker, Arrives, HeldTuples
  <2>15. CASE ReceiveFinalMarker
    BY <2>15, <2>a DEF ReceiveFinalMarker, Arrives, HeldTuples
  <2>16. CASE ForwardFinalMarker
    BY <2>16, <2>a DEF ForwardFinalMarker, EndAwaited, HeldTuples
  <2>17. CASE ReceiveToken
    BY <2>17, <2>a DEF ReceiveToken, HeldTuples
  <2>18. CASE TakeConnectionRequest
    <3>1. Handover!Exchange
      BY <2>18, <2>c DEF TakeConnectionRequest, Handover!Exchange, HeldTuples, Pointers, HandPcs
    <3>. QED
      BY <3>1
  <2>19. CASE EndThread
    <3>1. Handover!Exchange
      BY <2>19, <2>c DEF EndThread, Handover!Exchange, HeldTuples, Pointers, HandPcs
    <3>. QED
      BY <3>1
  <2>20. CASE MakeClient
    <3>1. Handover!Exchange
      BY <2>20, <2>c DEF MakeClient, Fault, Crash, Handover!Exchange, HeldTuples, Pointers, HandPcs
    <3>. QED
      BY <3>1
  <2>21. CASE AfterRun
    <3>1. Handover!Withdraw
      BY <2>21 DEF AfterRun, Handover!Withdraw, HeldTuples
    <3>. QED
      BY <3>1
  <2>22. CASE CloseConnection
    <3>1. Handover!Exchange
      BY <2>22, <2>c DEF CloseConnection, Fault, Crash, Handover!Exchange, HeldTuples,
          Pointers, HandPcs
    <3>. QED
      BY <3>1
  <2>23. CASE CompleteTranscription
    <3>1. Handover!Exchange
      BY <2>23, <2>c DEF CompleteTranscription, Handover!Exchange, HeldTuples, Pointers, HandPcs
    <3>. QED
      BY <3>1
  <2>24. CASE SubmitCompleted
    <3>1. Handover!Exchange
      BY <2>24, <2>c DEF SubmitCompleted, Handover!Exchange, HeldTuples, Pointers, HandPcs
    <3>. QED
      BY <3>1
  <2>25. CASE SubmitWindowMarker
    <3>1. Handover!Withdraw
      BY <2>25 DEF SubmitWindowMarker, Handover!Withdraw, HeldTuples
    <3>. QED
      BY <3>1
  <2>26. CASE FinalizeTranscription
    <3>1. Handover!Exchange
      BY <2>26, <2>c DEF FinalizeTranscription, Handover!Exchange, HeldTuples, Pointers, HandPcs
    <3>. QED
      BY <3>1
  <2>27. CASE ErrorTupleOnMessage
    <3>1. Handover!Exchange
      BY <2>27, <2>c DEF ErrorTupleOnMessage, SendErrorTuple, SubmitErrorTuple,
          Handover!Exchange, HeldTuples, Pointers, HandPcs
    <3>. QED
      BY <3>1
  <2>28. CASE ErrorTupleOnClose
    <3>1. Handover!Exchange
      BY <2>28, <2>c DEF ErrorTupleOnClose, SendErrorTuple, SubmitErrorTuple,
          Handover!Exchange, HeldTuples, Pointers, HandPcs
    <3>. QED
      BY <3>1
  <2>29. CASE SetError
    <3>1. Handover!Exchange
      BY <2>29, <2>c DEF SetError, Handover!Exchange, HeldTuples, Pointers, HandPcs
    <3>. QED
      BY <3>1
  <2>30. CASE SubmitUtterance
    <3>1. Handover!Exchange
      BY <2>30, <2>c DEF SubmitUtterance, Handover!Exchange, HeldTuples, Pointers, HandPcs
    <3>. QED
      BY <3>1
  <2>31. CASE SubmitWithSpeakers
    <3>1. Handover!Exchange
      BY <2>31, <2>c DEF SubmitWithSpeakers, Handover!Exchange, HeldTuples, Pointers, HandPcs
    <3>. QED
      BY <3>1
  <2>32. CASE LoadForClose
    <3>1. Handover!Exchange
      BY <2>32, <2>c DEF LoadForClose, Handover!Exchange, HeldTuples, Pointers, HandPcs
    <3>. QED
      BY <3>1
  <2>33. CASE CompletedOnClose
    <3>1. Handover!Exchange
      BY <2>33, <2>c DEF CompletedOnClose, Handover!Exchange, HeldTuples, Pointers, HandPcs
    <3>. QED
      BY <3>1
  <2>34. CASE WindowMarkerOnClose
    <3>1. Handover!Exchange
      BY <2>34, <2>c DEF WindowMarkerOnClose, Handover!Exchange, HeldTuples, Pointers, HandPcs
    <3>. QED
      BY <3>1
  <2>35. CASE ForgetOnClose
    <3>1. Handover!Withdraw
      BY <2>35 DEF ForgetOnClose, Handover!Withdraw, HeldTuples
    <3>. QED
      BY <3>1
  <2>36. CASE SetClosed
    <3>1. Handover!Exchange
      BY <2>36, <2>c DEF SetClosed, Handover!Exchange, HeldTuples, Pointers, HandPcs
    <3>. QED
      BY <3>1
  <2>37. CASE OnOpen
    <3>1. Handover!Exchange
      BY <2>37, <2>c DEF OnOpen, Fault, Crash, Handover!Exchange, HeldTuples, Pointers, HandPcs
    <3>. QED
      BY <3>1
  <2>38. CASE OnFail
    <3>1. Handover!Withdraw
      BY <2>38 DEF OnFail, Fault, Handover!Withdraw, HeldTuples
    <3>. QED
      BY <3>1
  <2>39. CASE OnMessageThrows
    <3>1. Handover!Exchange
      BY <2>39, <2>c DEF OnMessageThrows, Fault, Crash, MessageArrives, Handover!Exchange,
          HeldTuples, Pointers, HandPcs
    <3>. QED
      BY <3>1
  <2>40. CASE OnFirstListening
    <3>1. Handover!Exchange
      BY <2>40, <2>c DEF OnFirstListening, MessageArrives, Handover!Exchange, HeldTuples,
          Pointers, HandPcs
    <3>. QED
      BY <3>1
  <2>41. CASE OnListeningAgain
    <3>1. Handover!Exchange
      BY <2>41, <2>c DEF OnListeningAgain, MessageArrives, Handover!Exchange, HeldTuples,
          Pointers, HandPcs
    <3>. QED
      BY <3>1
  <2>42. CASE OnError
    <3>1. Handover!Exchange
      BY <2>42, <2>c DEF OnError, Fault, MessageArrives, Handover!Exchange, HeldTuples,
          Pointers, HandPcs
    <3>. QED
      BY <3>1
  <2>43. CASE OnUtterance
    <3>1. Handover!Exchange
      BY <2>43, <2>c DEF OnUtterance, Crash, MessageArrives, Handover!Exchange, HeldTuples,
          Pointers, HandPcs
    <3>. QED
      BY <3>1
  <2>44. CASE OnSpeakerLabels
    <3>1. Handover!Exchange
      BY <2>44, <2>c DEF OnSpeakerLabels, MessageArrives, Handover!Exchange, HeldTuples,
          Pointers, HandPcs
    <3>. QED
      BY <3>1
  <2>45. CASE OnCloseRequested
    <3>1. Handover!Exchange
      BY <2>45, <2>c DEF OnCloseRequested, OnClose, Handover!Exchange, HeldTuples, Pointers, HandPcs
    <3>. QED
      BY <3>1
  <2>46. CASE OnCloseDropped
    <3>1. Handover!Exchange
      BY <2>46, <2>c DEF OnCloseDropped, OnClose, Fault, Handover!Exchange, HeldTuples,
          Pointers, HandPcs
    <3>. QED
      BY <3>1
  <2>47. CASE OnCloseTimeout
    <3>1. Handover!Exchange
      BY <2>47, <2>c DEF OnCloseTimeout, OnClose, Handover!Exchange, HeldTuples, Pointers, HandPcs
    <3>. QED
      BY <3>1
  <2>48. CASE RequestShutdown
    BY <2>48, <2>a DEF RequestShutdown, HeldTuples
  <2>49. CASE PrepareToShutdown
    BY <2>49, <2>a DEF PrepareToShutdown, HeldTuples
  <2>50. CASE UNCHANGED vars
    BY <2>50, <2>a DEF vars, HeldTuples
  <2> HIDE DEF Handover!Next, Handover!vars
  <2>. QED
    BY <2>1, <2>2, <2>3, <2>4, <2>5, <2>6, <2>7, <2>8, <2>9, <2>10, <2>11, <2>12, <2>13,
        <2>14, <2>15, <2>16, <2>17, <2>18, <2>19, <2>20, <2>21, <2>22, <2>23, <2>24, <2>25,
        <2>26, <2>27, <2>28, <2>29, <2>30, <2>31, <2>32, <2>33, <2>34, <2>35, <2>36, <2>37,
        <2>38, <2>39, <2>40, <2>41, <2>42, <2>43, <2>44, <2>45, <2>46, <2>47, <2>48, <2>49,
        <2>50 DEF Next, Arrival, SenderStep, ReceiverStep, Callback
<1>3. QED
  BY <1>1, <1>2, TypeCorrect, IInvCorrect, PTL DEF Spec, HandoverSpec, Handover!Spec

-----------------------------------------------------------------------------
(* What a conversation can rely on: its audio and its results go over a    *)
(* connection that both threads agree on, its results are written to its   *)
(* own tuples, and it is marked at its end.  The handover above is what    *)
(* the arguments start from.                                               *)

(* The connection, as the two threads see it.                              *)

(* Client and handle belong to the connection that listens, and whoever is *)
(* about to send came from one that did.                                   *)
Client ==
  /\ wsState \in {"open", "listening"} => wsClient /\ wsHandle
  /\ spc \in {"publish", "sendData", "sendStop"} => wsClient /\ wsHandle
  /\ phase = "connecting" => wsClient

ErrorPcs == {"sendError", "errorTuple", "setError"}

(* The state follows the phase of the connection: the sender asks for a    *)
(* new one only when the old one neither is up nor comes up.               *)
States ==
  /\ phase = "opened" => rpc = "run" /\ wsState = "open"
  /\ phase = "ready" => wsState = "listening" \/ (wsState = "closing" /\ rpc = "close")
  /\ spc = "attempt" => ~receiverHasTransientState(wsState) /\ wsState # "listening"
  /\ rpc \in ClosePcs => phase = "gone"
  /\ rpc \in ErrorPcs => phase = "errored" \/ (phase = "closing" /\ shutdownRequested)

(* While the receiver closes the connection the sender waits, first for    *)
(* the end of the conversation and then for the next connection.           *)
Closing ==
  /\ rpc = "close" \/ (phase = "closing" /\ ~shutdownRequested) => wsState = "closing"
  /\ wsState = "closing" /\ ~shutdownRequested =>
       \/ spc \in {"ready", "waitEnd", "final"} /\ mediaEndReached
       \/ spc \in {"newConversation", "forget", "recycle", "token", "connect"}

Connection == Client /\ States /\ Closing

LEMMA ConnectionStep ==
  ASSUME IInv, Connection, [Next]_vars
  PROVE  Connection'
<1> USE DEF Connection, Client, States, Closing, ErrorPcs, ClosePcs, receiverHasTransientState,
            shutdownRequested
<1> DEFINE Seen == <<wsState, wsClient, wsHandle, mediaEndReached, spc, rpc, phase, shutdown>>
<1>a. UNCHANGED Seen => Connection'
  OBVIOUS
<1>b. /\ wsState \in ConnectingStates => spc = "connect" \/ (spc = "ready" /\ shutdownRequested)
      /\ rpc = "setup" => wsState = "connecting"
      /\ phase = "connecting" => rpc = "run" /\ wsState = "connecting"
      /\ ConnectionUp => InCallbacks /\ rpc \notin ClosePcs
      /\ Ending => mediaEndReached /\ spc \in {"ready", "waitEnd", "final"}
      /\ spc \in {"checkStop", "sendStop"} => mediaEndReached
  BY DEF IInv, SenderWaits, Link, SenderRests
<1>1. CASE ReceiveTuple \/ ReceiveWindowMarker \/ ReceiveFinalMarker
  BY <1>1 DEF ReceiveTuple, ReceiveWindowMarker, ReceiveFinalMarker, Arrives
<1>2. CASE AwaitFinalization \/ ForwardFinalMarker
  BY <1>2 DEF AwaitFinalization, ForwardFinalMarker
<1>3. CASE BeginConversation \/ ForgetRecentTuple \/ RecycleTuples \/ AwaitAccessToken
  BY <1>3 DEF BeginConversation, ForgetRecentTuple, RecycleTuples, AwaitAccessToken
<1>4. CASE Connect
  BY <1>4 DEF Connect
<1>5. CASE RequestConnection
  BY <1>5, <1>b DEF RequestConnection, ConnectingStates
<1>6. CASE PublishTuple \/ SendData \/ EndMedia \/ CheckStop \/ SendStop
  BY <1>6, <1>b DEF PublishTuple, SendData, EndMedia, CheckStop, SendStop
<1>7. CASE ReceiveToken
  BY <1>7, <1>a DEF ReceiveToken
<1>8. CASE TakeConnectionRequest \/ EndThread \/ AfterRun
  BY <1>8, <1>b DEF TakeConnectionRequest, EndThread, AfterRun, ConnectingStates, InCallbacks,
                    ConnectionUp
<1>9. CASE MakeClient
  BY <1>9, <1>b DEF MakeClient, Fault, Crash, ConnectingStates
<1>10. CASE CloseConnection
  BY <1>10, <1>b DEF CloseConnection, Fault, Crash, ConnectionUp, Ending, EndingPcs
<1>11. CASE \/ CompleteTranscription \/ SubmitCompleted \/ SubmitWindowMarker
            \/ FinalizeTranscription
  BY <1>11, <1>b DEF CompleteTranscription, SubmitCompleted, SubmitWindowMarker,
     FinalizeTranscription
<1>12. CASE ErrorTupleOnMessage \/ ErrorTupleOnClose
  BY <1>12, <1>b DEF ErrorTupleOnMessage, ErrorTupleOnClose, SendErrorTuple, SubmitErrorTuple,
     ConnectionUp, ClosePcs
<1>13. CASE SetError \/ SetClosed
  BY <1>13, <1>b DEF SetError, SetClosed, ConnectionUp, ClosePcs
<1>14. CASE SubmitUtterance \/ SubmitWithSpeakers
  BY <1>14, <1>b DEF SubmitUtterance, SubmitWithSpeakers
<1>15. CASE LoadForClose \/ CompletedOnClose \/ WindowMarkerOnClose \/ ForgetOnClose
  BY <1>15, <1>b DEF LoadForClose, CompletedOnClose, WindowMarkerOnClose, ForgetOnClose
<1>16. CASE OnOpen
  BY <1>16, <1>b DEF OnOpen, Fault, Crash, ConnectingStates
<1>17. CASE OnFail \/ OnMessageThrows
  BY <1>17, <1>b DEF OnFail, OnMessageThrows, Fault, Crash, ConnectingStates
<1>18. CASE OnFirstListening
  BY <1>18, <1>b DEF OnFirstListening, ConnectingStates
<1>19. CASE OnListeningAgain
  BY <1>19, <1>b DEF OnListeningAgain, Ending
<1>20. CASE OnError
  BY <1>20, <1>b DEF OnError, Fault
<1>21. CASE OnUtterance \/ OnSpeakerLabels
  <2>1. /\ phase = "ready" /\ rpc = "run"
        /\ UNCHANGED <<wsClient, wsHandle, mediaEndReached, spc, shutdown>>
    BY <1>21 DEF OnUtterance, OnSpeakerLabels, ServiceTranscribes, MessageArrives
  <2>2. \/ UNCHANGED <<wsState, phase>> /\ rpc' \in {"utterance", "speakers"}
        \/ wsState' = "crashed" /\ phase' = "gone" /\ rpc' = "ran"
    BY <1>21 DEF OnUtterance, OnSpeakerLabels, Crash
  <2>. QED
    BY <2>1, <2>2
<1>22. CASE OnCloseRequested \/ OnCloseDropped \/ OnCloseTimeout
  BY <1>22, <1>b DEF OnCloseRequested, OnCloseDropped, OnCloseTimeout, OnClose, Fault
<1>23. CASE RequestShutdown
  BY <1>23 DEF RequestShutdown
<1>24. CASE PrepareToShutdown
  BY <1>24, <1>b DEF PrepareToShutdown
<1>25. CASE UNCHANGED vars
  BY <1>25, <1>a DEF vars
<1> HIDE DEF Connection
<1>. QED
  BY <1>1, <1>2, <1>3, <1>4, <1>5, <1>6, <1>7, <1>8, <1>9, <1>10, <1>11, <1>12, <1>13, <1>14,
     <1>15, <1>16, <1>17, <1>18, <1>19, <1>20, <1>21, <1>22, <1>23, <1>24, <1>25
     DEF Next, Arrival, SenderStep, ReceiverStep, Callback

(* The two threads never lose sight of the connection.                     *)
THEOREM ConnectionCorrect == Spec => []Connection
<1>1. Init => Connection
  BY DEF Init, Connection, Client, States, Closing, ErrorPcs, ClosePcs
<1>2. IInv /\ Connection /\ [Next]_vars => Connection'
  BY ConnectionStep
<1>. QED
  BY <1>1, <1>2, IInvCorrect, PTL DEF Spec

(* A message of a healthy connection finds on_message in a state that      *)
(* takes it, however the two threads set the state.                        *)
THEOREM ListenerFound == Spec => []MessagesFindListener
<1>1. Connection => MessagesFindListener
  BY DEF Connection, States, MessagesFindListener, EntryStateOk
<1>. QED
  BY <1>1, ConnectionCorrect, PTL

(* Client and handle stay what they are while the sender sends.            *)
THEOREM ClientStable == Spec => []ClientStableWhileSending
<1>1. IInv /\ Connection => ClientStableWhileSending
  BY DEF IInv, SenderWaits, ConnectingStates, Connection, Client, ClientStableWhileSending
<1>. QED
  BY <1>1, IInvCorrect, ConnectionCorrect, PTL

(* Once the receiver means to close the connection, nothing is sent on it. *)
THEOREM CloseSafe == Spec => []CloseLosesNoAudio
<1>1. IInv /\ Connection => CloseLosesNoAudio
  BY DEF IInv, Requests, EndingPcs, ConnectionUp, SenderRests, Ending, Connection, Closing,
         CloseLosesNoAudio
<1>. QED
  BY <1>1, IInvCorrect, ConnectionCorrect, PTL

-----------------------------------------------------------------------------
(* Audio, results and tuples of one conversation.                          *)

(* The sender is between its first tuple of a conversation and the stop.   *)
FeedPcs == {"recycle", "token", "connect", "attempt", "publish", "sendData", "endMedia",
            "checkStop", "sendStop"}

Feeding == spc \in FeedPcs \/ (spc \in {"ready", "final"} /\ ~shutdownRequested)

(* A conversation begins when no request is left of the one before; until  *)
(* the next one is announced the recent tuple is one of it.                *)
OneConversation ==
  /\ transcriptionFinalized \/ spc \in {"forget", "recycle"} => requests = <<>>
  /\ recentOTuple # NoTuple /\ Feeding => conv(recentOTuple) = nConversations

(* Audio is sent after its tuple was published, and on a connection that   *)
(* is still up the receiver has not forgotten that tuple.                  *)
TupleForAudio ==
  /\ requests # <<>> /\ Head(requests).convs # {} =>
       /\ recentOTuple # NoTuple
       /\ Head(requests).convs = {conv(recentOTuple)}
  /\ /\ ConnectionUp
     /\ \/ spc \in {"sendData", "endMedia", "checkStop", "sendStop"}
        \/ spc \in {"ready", "final"} /\ ~mediaEndReached /\ ~shutdownRequested
     => recentOTuple # NoTuple
  /\ StopAwaitsAnswer => recentOTuple # NoTuple

Conversation == OneConversation /\ TupleForAudio

(* What the service makes of a message, with at most one request open.     *)
LEMMA OneRequest ==
  ASSUME requests \in Seq(Request), OneRequestAtATime, NEW convs, NEW stop,
         ~StopAwaitsAnswer, ServiceGets(convs, stop)
  PROVE  \/ ~ConnectionUp /\ requests' = requests
         \/ /\ ConnectionUp
            /\ requests' # <<>>
            /\ Head(requests').stopped = stop
            /\ \/ requests = <<>> /\ Head(requests').convs = convs
               \/ /\ requests # <<>>
                  /\ Head(requests').convs = Head(requests).convs \union convs
<1>1. CASE ~ConnectionUp
  BY <1>1 DEF ServiceGets
<1>2. CASE ConnectionUp /\ requests = <<>>
  BY <1>2 DEF ServiceGets, HasOpenRequest
<1>3. CASE ConnectionUp /\ requests # <<>>
  <2>a. Len(requests) \in Nat /\ Len(requests) # 0
    BY <1>3
  <2>b. Len(requests) <= 1
    BY DEF OneRequestAtATime
  <2>1. Len(requests) = 1
    BY <2>a, <2>b
  <2>2. HasOpenRequest
    BY <1>3, <2>1 DEF HasOpenRequest, StopAwaitsAnswer
  <2>3. requests' = [requests EXCEPT ![1] =
                       [convs |-> requests[1].convs \union convs, stopped |-> stop]]
    BY <1>3, <2>1, <2>2 DEF ServiceGets
  <2>4. /\ Len(requests') = 1
        /\ requests'[1] = [convs |-> requests[1].convs \union convs, stopped |-> stop]
    BY <2>1, <2>3
  <2>5. requests' # <<>> /\ Head(requests') = requests'[1] /\ Head(requests) = requests[1]
    BY <2>1, <2>4
  <2>. QED
    BY <1>3, <2>4, <2>5
<1>. QED
  BY <1>1, <1>2, <1>3

LEMMA ConversationStep ==
  ASSUME TypeOK, IInv, Connection, Conversation, [Next]_vars
  PROVE  Conversation'
<1> USE NoTupleIsNoTuple
    DEF Conversation, OneConversation, TupleForAudio, Feeding, FeedPcs, shutdownRequested,
        StopAwaitsAnswer, ConnectionUp
<1>a. UNCHANGED <<handoverVars, mediaVars, spc, serviceVars, shutdown>> => Conversation'
  OBVIOUS
<1>b. /\ wsState \in ConnectingStates => spc = "connect" \/ (spc = "ready" /\ shutdownRequested)
      /\ rpc = "setup" => wsState = "connecting"
      /\ phase = "connecting" => rpc = "run" /\ wsState = "connecting"
      /\ ConnectionUp => InCallbacks /\ rpc \notin ClosePcs
  BY DEF IInv, SenderWaits, Link
<1>c. /\ Ending => mediaEndReached /\ ~transcriptionFinalized
                   /\ spc \in {"ready", "waitEnd", "final"}
      /\ spc \in {"checkStop", "sendStop"} => mediaEndReached
      /\ requests # <<>> => ConnectionUp
      /\ rpc \in EndingPcs => requests = <<>>
      /\ OneRequestAtATime
      /\ transcriptionFinalized => mediaEndReached /\ spc \in BetweenConversations
      /\ spc = "newConversation" => transcriptionFinalized \/ receiverHasStopped(wsState)
      /\ receiverHasStopped(wsState) => rpc \in {"ran", "loop", "done"}
  BY DEF IInv, SenderRests, Requests, FinalizedOnlyBetweenConversations, MayDelete,
         StoppedMeansStopped
<1>d. requests \in Seq(Request) /\ nConversations \in Nat /\ nFragments \in Nat
  BY DEF TypeOK
<1>1. CASE ReceiveTuple \/ ReceiveWindowMarker \/ ReceiveFinalMarker
  BY <1>1, <1>c DEF ReceiveTuple, ReceiveWindowMarker, ReceiveFinalMarker, Arrives
<1>2. CASE AwaitFinalization \/ ForwardFinalMarker
  BY <1>2 DEF AwaitFinalization, ForwardFinalMarker
<1>3. CASE BeginConversation
  BY <1>3, <1>b, <1>c DEF BeginConversation, InCallbacks
<1>4. CASE ForgetRecentTuple
  BY <1>4 DEF ForgetRecentTuple
<1>5. CASE RecycleTuples \/ AwaitAccessToken \/ Connect \/ RequestConnection
  BY <1>5 DEF RecycleTuples, AwaitAccessToken, Connect, RequestConnection
<1>6. CASE PublishTuple
  BY <1>6, <1>c, <1>d DEF PublishTuple, NewOTuple, OTuple, conv, Ending
<1>7. CASE SendData
  BY <1>7, <1>c, <1>d, OneRequest DEF SendData, Ending, BetweenConversations
<1>8. CASE SendStop
  <2>1. /\ spc = "sendStop" /\ spc' = "ready" /\ ServiceGets({}, TRUE)
        /\ UNCHANGED <<handoverVars, mediaVars, phase, shutdown>>
    BY <1>8 DEF SendStop
  <2>2. ~Ending /\ mediaEndReached
    BY <2>1, <1>c
  <2>3. \/ ~ConnectionUp /\ requests' = requests
        \/ /\ ConnectionUp
           /\ \/ Head(requests').convs = {}
              \/ requests # <<>> /\ Head(requests').convs = Head(requests).convs \union {}
    <3>1. ~StopAwaitsAnswer /\ OneRequestAtATime
      BY <2>2, <1>c DEF Ending
    <3> HIDE DEF StopAwaitsAnswer, ConnectionUp
    <3>. QED
      BY <2>1, <3>1, <1>d, OneRequest
  <2>. QED
    BY <2>1, <2>2, <2>3, <1>c DEF BetweenConversations
<1>9. CASE EndMedia \/ CheckStop
  BY <1>9, <1>c DEF EndMedia, CheckStop
<1>10. CASE ReceiveToken \/ TakeConnectionRequest \/ EndThread
  BY <1>10, <1>a DEF ReceiveToken, TakeConnectionRequest, EndThread
<1>11. CASE MakeClient
  BY <1>11 DEF MakeClient, Fault, Crash
<1>12. CASE AfterRun \/ ForgetOnClose
  BY <1>12, <1>b, <1>c DEF AfterRun, ForgetOnClose, InCallbacks, ClosePcs
<1>13. CASE CloseConnection
  BY <1>13 DEF CloseConnection, Fault, Crash
<1>14. CASE CompleteTranscription \/ SubmitCompleted
  BY <1>14, <1>a DEF CompleteTranscription, SubmitCompleted
<1>15. CASE SubmitWindowMarker \/ FinalizeTranscription
  BY <1>15, <1>c DEF SubmitWindowMarker, FinalizeTranscription, Ending, EndingPcs
<1>16. CASE ErrorTupleOnMessage \/ ErrorTupleOnClose
  BY <1>16, <1>a DEF ErrorTupleOnMessage, ErrorTupleOnClose, SendErrorTuple, SubmitErrorTuple
<1>17. CASE SetError \/ SetClosed \/ SubmitUtterance \/ SubmitWithSpeakers
  BY <1>17, <1>a DEF SetError, SetClosed, SubmitUtterance, SubmitWithSpeakers
<1>18. CASE LoadForClose \/ CompletedOnClose \/ WindowMarkerOnClose
  BY <1>18, <1>a DEF LoadForClose, CompletedOnClose, WindowMarkerOnClose
<1>19. CASE OnOpen
  BY <1>19, <1>b, <1>c DEF OnOpen, Fault, Crash, ConnectingStates
<1>20. CASE OnFail
  BY <1>20, <1>c DEF OnFail, Fault
<1>21. CASE OnMessageThrows
  BY <1>21 DEF OnMessageThrows, Fault, Crash
<1>22. CASE OnFirstListening
  BY <1>22 DEF OnFirstListening
<1>23. CASE OnListeningAgain
  BY <1>23, <1>c, <1>d DEF OnListeningAgain, OneRequestAtATime
<1>24. CASE OnError
  BY <1>24 DEF OnError, Fault
<1>25. CASE OnUtterance
  BY <1>25 DEF OnUtterance, Crash
<1>26. CASE OnSpeakerLabels
  BY <1>26, <1>a DEF OnSpeakerLabels
<1>27. CASE OnCloseRequested \/ OnCloseDropped \/ OnCloseTimeout
  BY <1>27 DEF OnCloseRequested, OnCloseDropped, OnCloseTimeout, OnClose, Fault
<1>28. CASE RequestShutdown \/ PrepareToShutdown
  BY <1>28 DEF RequestShutdown, PrepareToShutdown
<1>29. CASE UNCHANGED vars
  BY <1>29, <1>a DEF vars
<1> HIDE DEF Conversation
<1>. QED
  BY <1>1, <1>2, <1>3, <1>4, <1>5, <1>6, <1>7, <1>8, <1>9, <1>10, <1>11, <1>12, <1>13, <1>14,
     <1>15, <1>16, <1>17, <1>18, <1>19, <1>20, <1>21, <1>22, <1>23, <1>24, <1>25, <1>26,
     <1>27, <1>28, <1>29
     DEF Next, Arrival, SenderStep, ReceiverStep, Callback

(* A conversation keeps its audio, its request and its tuples together.    *)
THEOREM ConversationCorrect == Spec => []Conversation
<1>1. Init => Conversation
  BY DEF Init, Conversation, OneConversation, TupleForAudio, Feeding, FeedPcs, ConnectionUp,
         StopAwaitsAnswer
<1>2. TypeOK /\ IInv /\ Connection /\ Conversation /\ [Next]_vars => Conversation'
  BY ConversationStep
<1>. QED
  BY <1>1, <1>2, TypeCorrect, IInvCorrect, ConnectionCorrect, PTL DEF Spec

(* A result meets a tuple of the conversation whose audio it transcribes.  *)
THEOREM ResultsMeet == Spec => []ResultsMeetTheirConversation
<1>1. Conversation => ResultsMeetTheirConversation
  BY DEF Conversation, TupleForAudio, ResultsMeetTheirConversation, ServiceTranscribes
<1>. QED
  BY <1>1, ConversationCorrect, PTL

-----------------------------------------------------------------------------
(* The end of a conversation.                                              *)

(* Whoever ends a conversation has a tuple to end it with.                 *)
TupleForEnd ==
  /\ rpc \in {"close", "complete"} => recentOTuple # NoTuple
  /\ rpc = "completed" /\ isTranscriptionCompletedRequested => rTuple # NoTuple
  /\ rpc \in {"closeCompleted", "closeMark"} => rTuple # NoTuple

MarkPcs == {"mark", "closeMark"}

(* An end tuple is on the port only while its window marker is under way.  *)
EndTuple ==
  ~shutdownRequested =>
    /\ rpc \in MarkPcs /\ isTranscriptionCompletedRequested => out.kind = "completed"
    /\ out.kind = "completed" => rpc \in MarkPcs

(* The flag that lets the sender go on follows a window marker.            *)
Marked ==
  /\ rpc = "finalize" => marks > 0
  /\ transcriptionFinalized /\ spc \in {"ready", "final"} /\ nConversations > 0 => marks > 0
  /\ transcriptionFinalized /\ spc = "waitEnd" /\ nConversations > 1 => marks > 0

Ended == TupleForEnd /\ EndTuple /\ Marked

LEMMA OutputKind ==
  ASSUME NEW kind, NEW t
  PROVE  Output(kind, t).kind = kind
BY DEF Output

(* While a conversation is being marked the sender forwards no final       *)
(* marker, unless it gives up for a shutdown.                              *)
LEMMA NothingBetween ==
  ASSUME IInv, Ended, rpc \in EndingPcs \union {"closeCompleted", "closeMark"}, EndAwaited
  PROVE  spc \notin {"waitEnd", "final"}
<1>1. ~transcriptionFinalized
  <2>1. CASE rpc \in EndingPcs
    BY <2>1 DEF IInv, SenderRests, Ending
  <2>2. CASE rpc \in {"closeCompleted", "closeMark"}
    BY <2>2 DEF IInv, Ended, TupleForEnd, QuietAfterFinalized, HeldTuples, InCallbacks
  <2>. QED
    BY <2>1, <2>2
<1>2. ~receiverHasStopped(wsState)
  BY DEF IInv, StoppedMeansStopped, EndingPcs
<1>. QED
  BY <1>1, <1>2 DEF EndAwaited, IInv, StoppedMeansStopped

LEMMA EndedStep ==
  ASSUME TypeOK, IInv, Conversation, Ended, [Next]_vars
  PROVE  Ended'
<1> USE NoTupleIsNoTuple, OutputKind
    DEF Ended, TupleForEnd, EndTuple, Marked, MarkPcs, shutdownRequested
<1>a. UNCHANGED <<handoverVars, nConversations, spc, rpc, rTuple, outVars, shutdown>>
        => Ended'
  OBVIOUS
<1>b. marks \in Nat /\ nConversations \in Nat
  BY DEF TypeOK
<1>c. /\ Ending => mediaEndReached /\ ~transcriptionFinalized
                   /\ spc \in {"ready", "waitEnd", "final"}
      /\ StopAwaitsAnswer => recentOTuple # NoTuple
      /\ rpc \in {"setup", "completed", "mark", "finalize"} => oTupleUsedForSubmission = NoTuple
      /\ spc = "newConversation" => transcriptionFinalized \/ receiverHasStopped(wsState)
      /\ receiverHasStopped(wsState) => rpc \in {"ran", "loop", "done"}
      /\ transcriptionFinalized => spc \in BetweenConversations
  BY DEF IInv, SenderRests, Pointers, Conversation, TupleForAudio, MayDelete,
         StoppedMeansStopped, FinalizedOnlyBetweenConversations
<1>1. CASE ReceiveTuple \/ ReceiveWindowMarker \/ ReceiveFinalMarker
  BY <1>1, <1>b DEF ReceiveTuple, ReceiveWindowMarker, ReceiveFinalMarker, Arrives
<1>2. CASE AwaitFinalization
  BY <1>2 DEF AwaitFinalization, EndAwaited
<1>3. CASE ForwardFinalMarker
  BY <1>3, NothingBetween DEF ForwardFinalMarker, EndingPcs
<1>4. CASE BeginConversation
  BY <1>4, <1>c DEF BeginConversation, Ending, EndingPcs
<1>5. CASE ForgetRecentTuple
  BY <1>5, <1>c DEF ForgetRecentTuple, Ending, EndingPcs
<1>6. CASE \/ RecycleTuples \/ AwaitAccessToken \/ Connect \/ RequestConnection
           \/ SendData \/ EndMedia \/ CheckStop \/ SendStop
  <2>1. /\ UNCHANGED <<transcriptionFinalized, recentOTuple, nConversations, rpc, rTuple,
                       outVars, shutdown>>
        /\ spc \notin BetweenConversations
    BY <1>6 DEF RecycleTuples, AwaitAccessToken, Connect, RequestConnection, SendData,
                EndMedia, CheckStop, SendStop, BetweenConversations
  <2>. QED
    BY <2>1, <1>c
<1>7. CASE PublishTuple
  <2>1. NewOTuple # NoTuple
    BY DEF NewOTuple, OTuple, TypeOK
  <2>. QED
    BY <1>7, <1>c, <2>1 DEF PublishTuple, BetweenConversations
<1>8. CASE ReceiveToken
  BY <1>8, <1>a DEF ReceiveToken
<1>9. CASE TakeConnectionRequest \/ EndThread \/ AfterRun \/ MakeClient
  BY <1>9 DEF TakeConnectionRequest, EndThread, AfterRun, MakeClient, Fault, Crash
<1>10. CASE CloseConnection
  BY <1>10 DEF CloseConnection, Fault, Crash
<1>11. CASE CompleteTranscription
  BY <1>11 DEF CompleteTranscription
<1>12. CASE SubmitCompleted
  BY <1>12 DEF SubmitCompleted
<1>13. CASE SubmitWindowMarker \/ WindowMarkerOnClose
  BY <1>13, <1>b DEF SubmitWindowMarker, WindowMarkerOnClose
<1>14. CASE FinalizeTranscription
  BY <1>14 DEF FinalizeTranscription
<1>15. CASE ErrorTupleOnMessage \/ ErrorTupleOnClose
  BY <1>15 DEF ErrorTupleOnMessage, ErrorTupleOnClose, SendErrorTuple, SubmitErrorTuple
<1>16. CASE SetError \/ SetClosed \/ SubmitUtterance \/ SubmitWithSpeakers
  BY <1>16 DEF SetError, SetClosed, SubmitUtterance, SubmitWithSpeakers
<1>17. CASE LoadForClose
  BY <1>17, ParametersAreBoolean DEF LoadForClose
<1>18. CASE CompletedOnClose
  BY <1>18 DEF CompletedOnClose
<1>19. CASE ForgetOnClose
  BY <1>19 DEF ForgetOnClose
<1>20. CASE OnOpen \/ OnFail \/ OnMessageThrows \/ OnFirstListening \/ OnError
  <2>1. /\ rpc = "run" /\ rpc' \in {"run", "ran", "sendError"}
        /\ UNCHANGED <<transcriptionFinalized, nConversations, spc, outVars, shutdown>>
    BY <1>20 DEF OnOpen, OnFail, OnMessageThrows, OnFirstListening, OnError, MessageArrives,
                 Fault, Crash
  <2>. QED
    BY <2>1
<1>21. CASE OnListeningAgain
  BY <1>21, <1>c DEF OnListeningAgain, MessageArrives
<1>22. CASE OnUtterance
  BY <1>22 DEF OnUtterance, MessageArrives, Crash
<1>23. CASE OnSpeakerLabels
  BY <1>23 DEF OnSpeakerLabels, MessageArrives
<1>24. CASE OnCloseRequested \/ OnCloseDropped \/ OnCloseTimeout
  BY <1>24 DEF OnCloseRequested, OnCloseDropped, OnCloseTimeout, OnClose, Fault
<1>25. CASE RequestShutdown \/ PrepareToShutdown
  BY <1>25 DEF RequestShutdown, PrepareToShutdown
<1>26. CASE UNCHANGED vars
  BY <1>26, <1>a DEF vars
<1> HIDE DEF Ended
<1>. QED
  BY <1>1, <1>2, <1>3, <1>4, <1>5, <1>6, <1>7, <1>8, <1>9, <1>10, <1>11,
     <1>12, <1>13, <1>14, <1>15, <1>16, <1>17, <1>18, <1>19, <1>20, <1>21, <1>22, <1>23,
     <1>24, <1>25, <1>26
     DEF Next, Arrival, SenderStep, ReceiverStep, Callback

(* Every conversation ends the way it is meant to.                         *)
THEOREM EndedCorrect == Spec => []Ended
<1>1. Init => Ended
  BY OutputKind DEF Init, Ended, TupleForEnd, EndTuple, Marked, MarkPcs
<1>2. TypeOK /\ IInv /\ Conversation /\ Ended /\ [Next]_vars => Ended'
  BY EndedStep
<1>. QED
  BY <1>1, <1>2, TypeCorrect, IInvCorrect, ConversationCorrect, PTL DEF Spec

(* The window marker of a conversation comes directly after its end tuple. *)
THEOREM EndTupleMarked == Spec => EndTupleThenWindowMarker
<1> DEFINE Marking ==
      ~shutdownRequested =>
        /\ marks' > marks /\ isTranscriptionCompletedRequested => out.kind = "completed"
        /\ out.kind = "completed" /\ out' # out => out'.kind = "window"
<1>1. TypeOK /\ IInv /\ Ended /\ [Next]_vars => [Marking]_vars
  <2> SUFFICES ASSUME TypeOK, IInv, Ended, [Next]_vars, ~shutdownRequested
               PROVE  Marking
    OBVIOUS
  <2>a. marks \in Nat
    BY DEF TypeOK
  <2>b. /\ rpc \in MarkPcs /\ isTranscriptionCompletedRequested => out.kind = "completed"
        /\ out.kind = "completed" => rpc \in MarkPcs
    BY DEF Ended, EndTuple
  <2>1. CASE SubmitWindowMarker \/ WindowMarkerOnClose
    BY <2>1, <2>b, OutputKind DEF SubmitWindowMarker, WindowMarkerOnClose, MarkPcs
  <2>2. CASE /\ UNCHANGED marks
             /\ rpc \in MarkPcs => UNCHANGED out
    BY <2>2, <2>a, <2>b
  <2>3. CASE ForwardFinalMarker
    <3>1. spc = "final" /\ UNCHANGED marks
      BY <2>3 DEF ForwardFinalMarker
    <3>2. rpc \in MarkPcs => ~EndAwaited
      BY <3>1, NothingBetween DEF MarkPcs, EndingPcs
    <3>3. rpc \in MarkPcs => UNCHANGED out
      BY <2>3, <3>2 DEF ForwardFinalMarker
    <3>. QED
      BY <2>2, <3>1, <3>3
  <2>4. CASE BeginConversation
    BY <2>4, <2>a DEF BeginConversation
  <2>5. CASE ReceiverStep \/ Callback
    <3>1. CASE \/ TakeConnectionRequest \/ EndThread \/ MakeClient \/ AfterRun
               \/ CloseConnection \/ CompleteTranscription \/ SubmitCompleted
               \/ FinalizeTranscription \/ SetError \/ LoadForClose \/ CompletedOnClose
               \/ ForgetOnClose \/ SetClosed
      <4>1. rpc \notin MarkPcs /\ UNCHANGED marks
        BY <3>1
           DEF TakeConnectionRequest, EndThread, MakeClient, AfterRun, CloseConnection,
               CompleteTranscription, SubmitCompleted, FinalizeTranscription, SetError,
               LoadForClose, CompletedOnClose, ForgetOnClose, SetClosed, MarkPcs
      <4>. QED
        BY <2>2, <4>1
    <3>2. CASE ErrorTupleOnMessage \/ ErrorTupleOnClose \/ SubmitUtterance \/ SubmitWithSpeakers
      BY <2>2, <3>2
         DEF ErrorTupleOnMessage, ErrorTupleOnClose, SendErrorTuple, SubmitErrorTuple,
             SubmitUtterance, SubmitWithSpeakers, MarkPcs
    <3>3. CASE Callback
      <4>1. rpc = "run" /\ UNCHANGED marks
        BY <3>3 DEF Callback, OnOpen, OnFail, OnMessageThrows, OnFirstListening,
               OnListeningAgain, OnError, OnUtterance, OnSpeakerLabels, OnCloseRequested,
               OnCloseDropped, OnCloseTimeout, OnClose, MessageArrives
      <4>. QED
        BY <2>2, <4>1 DEF MarkPcs
    <3>. QED
      BY <2>1, <2>5, <3>1, <3>2, <3>3 DEF ReceiverStep
  <2>6. CASE Arrival \/ SenderStep
    BY <2>2, <2>3, <2>4, <2>6
       DEF Arrival, SenderStep, ReceiveTuple, ReceiveWindowMarker, ReceiveFinalMarker,
           ReceiveToken, AwaitFinalization, ForgetRecentTuple, RecycleTuples,
           AwaitAccessToken, Connect, RequestConnection, PublishTuple, SendData, EndMedia,
           CheckStop, SendStop
  <2>7. CASE RequestShutdown \/ PrepareToShutdown \/ UNCHANGED vars
    BY <2>2, <2>7 DEF RequestShutdown, PrepareToShutdown, vars
  <2>. QED
    BY <2>5, <2>6, <2>7 DEF Next
<1>. QED
  BY <1>1, TypeCorrect, IInvCorrect, EndedCorrect, PTL DEF Spec, EndTupleThenWindowMarker

(* The sender leaves a conversation behind when it was marked, or when the *)
(* connection is lost for good.                                            *)
THEOREM MovesOnMarked == Spec => MovesOnAfterMarker
<1> DEFINE MovesOn ==
      spc = "waitEnd" /\ spc' = "newConversation" /\ nConversations > 1 =>
        marks > 0 \/ receiverHasStopped(wsState)
<1>1. IInv /\ Ended /\ [Next]_vars => [MovesOn]_vars
  <2> SUFFICES ASSUME IInv, Ended, [Next]_vars,
                      spc = "waitEnd", spc' = "newConversation", nConversations > 1
               PROVE  marks > 0 \/ receiverHasStopped(wsState)
    OBVIOUS
  <2>1. AwaitFinalization
    BY DEF Next, Arrival, SenderStep, ReceiverStep, Callback, ReceiveTuple,
           ReceiveWindowMarker, ReceiveFinalMarker, ReceiveToken, BeginConversation,
           ForgetRecentTuple, RecycleTuples, AwaitAccessToken, Connect, RequestConnection,
           PublishTuple, SendData, EndMedia, CheckStop, SendStop, ForwardFinalMarker,
           TakeConnectionRequest, EndThread, MakeClient, AfterRun,
           CloseConnection, CompleteTranscription, SubmitCompleted, FinalizeTranscription,
           ErrorTupleOnMessage, ErrorTupleOnClose, SendErrorTuple, SubmitErrorTuple, SetError,
           SubmitUtterance, SubmitWithSpeakers, LoadForClose, CompletedOnClose, ForgetOnClose,
           SetClosed, OnOpen, OnFail, OnMessageThrows, OnFirstListening, OnListeningAgain,
           OnError, OnUtterance, OnSpeakerLabels, OnCloseRequested, OnCloseDropped,
           OnCloseTimeout, OnClose, SubmitWindowMarker, WindowMarkerOnClose, RequestShutdown,
           PrepareToShutdown, vars
  <2>2. EndAwaited
    BY <2>1 DEF AwaitFinalization
  <2>. QED
    BY <2>2 DEF EndAwaited, IInv, StoppedMeansStopped, Ended, Marked
<1>. QED
  BY <1>1, IInvCorrect, EndedCorrect, PTL DEF Spec, MovesOnAfterMarker

-----------------------------------------------------------------------------
(* The order of the conversations on the output port.                      *)

(* Every tuple that has not been deleted is of the conversation in hand,   *)
(* except while the tuples of the one before are being given up.           *)
InOrder ==
  ~shutdownRequested /\ spc \notin {"forget", "recycle"} =>
    \A t \in oTupleWastebasket : conv(t) = ConversationInHand

(* Whatever is submitted, the receiver held the tuple that it was read     *)
(* from; the markers and the state before the first tuple have none.       *)
LEMMA OutputFromHand ==
  ASSUME [Next]_vars
  PROVE  \/ out' = out
         \/ out'.conv = 0
         \/ \E t \in HeldTuples : out'.conv = conv(t)
<1> DEFINE FromHand == \/ out' = out
                       \/ out'.conv = 0
                       \/ \E t \in HeldTuples : out'.conv = conv(t)
<1>a. ASSUME NEW kind, NEW t \in {rTuple, oTupleUsedForSubmission}, InCallbacks,
             out' = Output(kind, t)
      PROVE  FromHand
  BY <1>a DEF Output, HeldTuples
<1>b. ASSUME NEW kind, out' = Output(kind, NoTuple)
      PROVE  FromHand
  BY <1>b DEF Output
<1> SUFFICES FromHand
  OBVIOUS
<1> USE DEF InCallbacks
<1> HIDE DEF FromHand
<1>1. CASE CompleteTranscription \/ SubmitCompleted \/ CompletedOnClose
  <2>1. CASE CompleteTranscription
    BY <2>1, <1>a DEF CompleteTranscription, FromHand
  <2>2. CASE SubmitCompleted
    BY <2>2, <1>a DEF SubmitCompleted, FromHand
  <2>3. CASE CompletedOnClose
    BY <2>3, <1>a DEF CompletedOnClose, FromHand
  <2>. QED
    BY <1>1, <2>1, <2>2, <2>3
<1>2. CASE SubmitWindowMarker \/ WindowMarkerOnClose \/ ForwardFinalMarker
  BY <1>2, <1>b DEF SubmitWindowMarker, WindowMarkerOnClose, ForwardFinalMarker, FromHand
<1>3. CASE ErrorTupleOnMessage \/ ErrorTupleOnClose
  <2>1. CASE \/ SendErrorTuple("sendError", "errorTuple", "setError")
             \/ SendErrorTuple("closeError", "closeErrorTuple", "closeLoad")
    BY <2>1, <1>a DEF SendErrorTuple, FromHand
  <2>2. CASE \/ SubmitErrorTuple("errorTuple", "setError")
             \/ SubmitErrorTuple("closeErrorTuple", "closeLoad")
    BY <2>2, <1>a DEF SubmitErrorTuple, FromHand
  <2>. QED
    BY <1>3, <2>1, <2>2 DEF ErrorTupleOnMessage, ErrorTupleOnClose
<1>4. CASE OnUtterance \/ SubmitUtterance \/ SubmitWithSpeakers
  <2>1. CASE OnUtterance
    BY <2>1, <1>a DEF OnUtterance, MessageArrives, FromHand
  <2>2. CASE SubmitUtterance
    BY <2>2, <1>a DEF SubmitUtterance, FromHand
  <2>3. CASE SubmitWithSpeakers
    BY <2>3, <1>a DEF SubmitWithSpeakers, FromHand
  <2>. QED
    BY <1>4, <2>1, <2>2, <2>3
<1>5. CASE UNCHANGED out
  BY <1>5 DEF FromHand
<1>6. CASE Arrival \/ SenderStep
  BY <1>2, <1>5, <1>6
     DEF Arrival, SenderStep, ReceiveTuple, ReceiveWindowMarker, ReceiveFinalMarker,
         ReceiveToken, AwaitFinalization, BeginConversation, ForgetRecentTuple,
         RecycleTuples, AwaitAccessToken, Connect, RequestConnection, PublishTuple,
         SendData, EndMedia, CheckStop, SendStop
<1>7. CASE ReceiverStep
  BY <1>1, <1>2, <1>3, <1>4, <1>5, <1>7
     DEF ReceiverStep, TakeConnectionRequest, EndThread, MakeClient, AfterRun,
         CloseConnection, FinalizeTranscription, SetError, LoadForClose, ForgetOnClose,
         SetClosed
<1>8. CASE Callback
  BY <1>4, <1>5, <1>8
     DEF Callback, OnOpen, OnFail, OnMessageThrows, OnFirstListening, OnListeningAgain,
         OnError, OnSpeakerLabels, OnCloseRequested, OnCloseDropped, OnCloseTimeout, OnClose
<1>9. CASE RequestShutdown \/ PrepareToShutdown \/ UNCHANGED vars
  BY <1>5, <1>9 DEF RequestShutdown, PrepareToShutdown, vars
<1>. QED
  BY <1>6, <1>7, <1>8, <1>9 DEF Next

LEMMA InOrderStep ==
  ASSUME TypeOK, InOrder, [Next]_vars
  PROVE  InOrder'
<1> SUFFICES ASSUME ~shutdownRequested', spc' \notin {"forget", "recycle"},
                    NEW t \in oTupleWastebasket'
             PROVE  conv(t) = ConversationInHand'
  BY DEF InOrder, conv
<1> USE DEF ConversationInHand
<1>a. nConversations \in Nat /\ nFragments \in Nat
  BY DEF TypeOK
<1>b. ASSUME ~shutdownRequested, spc \notin {"forget", "recycle"}, t \in oTupleWastebasket
      PROVE  conv(t) = ConversationInHand
  BY <1>b DEF InOrder
<1>c. ASSUME UNCHANGED <<oTupleWastebasket, nConversations>>,
             ~shutdownRequested, spc \notin {"forget", "recycle"},
             spc \in {"waitEnd", "newConversation"} <=> spc' \in {"waitEnd", "newConversation"}
      PROVE  conv(t) = ConversationInHand'
  BY <1>b, <1>c
<1>1. CASE ReceiveTuple
  BY <1>1, <1>a, <1>b DEF ReceiveTuple, shutdownRequested
<1>2. CASE AwaitFinalization
  BY <1>2, <1>c DEF AwaitFinalization, shutdownRequested
<1>3. CASE BeginConversation \/ ForgetRecentTuple
  BY <1>3 DEF BeginConversation, ForgetRecentTuple
<1>4. CASE RecycleTuples
  BY <1>4 DEF RecycleTuples
<1>5. CASE PublishTuple
  <2>1. conv(NewOTuple) = nConversations
    BY DEF conv, NewOTuple
  <2>. QED
    BY <1>5, <1>b, <2>1 DEF PublishTuple, shutdownRequested
<1>6. CASE \/ ReceiveWindowMarker \/ ReceiveFinalMarker \/ ReceiveToken \/ AwaitAccessToken
           \/ Connect \/ RequestConnection \/ SendData \/ EndMedia \/ CheckStop \/ SendStop
           \/ ForwardFinalMarker
  <2>1. \/ UNCHANGED spc
        \/ spc \notin {"forget", "recycle", "waitEnd", "newConversation"}
           /\ spc' \notin {"waitEnd", "newConversation"}
    BY <1>6 DEF ReceiveWindowMarker, ReceiveFinalMarker, ReceiveToken, AwaitAccessToken,
                Connect, RequestConnection, SendData, EndMedia, CheckStop, SendStop,
                ForwardFinalMarker
  <2>2. UNCHANGED <<oTupleWastebasket, nConversations, shutdown>>
    BY <1>6 DEF ReceiveWindowMarker, ReceiveFinalMarker, ReceiveToken, AwaitAccessToken,
                Connect, RequestConnection, SendData, EndMedia, CheckStop, SendStop,
                ForwardFinalMarker
  <2>. QED
    BY <1>c, <2>1, <2>2 DEF shutdownRequested
<1>7. CASE ReceiverStep \/ Callback
  <2>1. UNCHANGED <<oTupleWastebasket, nConversations, spc, shutdown>>
    BY <1>7
       DEF ReceiverStep, Callback, TakeConnectionRequest, EndThread, MakeClient, AfterRun,
           CloseConnection, CompleteTranscription, SubmitCompleted, SubmitWindowMarker,
           FinalizeTranscription, ErrorTupleOnMessage, ErrorTupleOnClose, SendErrorTuple,
           SubmitErrorTuple, SetError, SubmitUtterance, SubmitWithSpeakers, LoadForClose,
           CompletedOnClose, WindowMarkerOnClose, ForgetOnClose, SetClosed, OnOpen, OnFail,
           OnMessageThrows, OnFirstListening, OnListeningAgain, OnError, OnUtterance,
           OnSpeakerLabels, OnCloseRequested, OnCloseDropped, OnCloseTimeout, OnClose
  <2>. QED
    BY <1>c, <2>1 DEF shutdownRequested
<1>8. CASE RequestShutdown \/ PrepareToShutdown \/ UNCHANGED vars
  BY <1>8, <1>c DEF RequestShutdown, PrepareToShutdown, vars, shutdownRequested
<1>. QED
  BY <1>1, <1>2, <1>3, <1>4, <1>5, <1>6, <1>7, <1>8 DEF Next, Arrival, SenderStep

(* No result, error or end of one conversation leaves among those of       *)
(* another: the receiver submits only tuples it holds, those have not been *)
(* deleted, and the sender deletes them all before it makes a new one.     *)
THEOREM OutputOrdered == Spec => OutputInOrder
<1> DEFINE Ordered == ~shutdownRequested /\ out' # out /\ out'.conv > 0 =>
                        out'.conv = ConversationInHand
<1>1. Init => InOrder
  BY DEF Init, InOrder
<1>2. TypeOK /\ InOrder /\ [Next]_vars => InOrder'
  BY InOrderStep
<1>3. IInv /\ InOrder /\ [Next]_vars => [Ordered]_vars
  <2> SUFFICES ASSUME IInv, InOrder, [Next]_vars, ~shutdownRequested,
                      out' # out, out'.conv > 0
               PROVE  out'.conv = ConversationInHand
    OBVIOUS
  <2>1. PICK t \in HeldTuples : out'.conv = conv(t)
    BY OutputFromHand
  <2>2. t \in oTupleWastebasket
    BY DEF IInv, NoDanglingTuple
  <2>3. spc \notin {"forget", "recycle"}
    BY DEF IInv, MayDelete
  <2>. QED
    BY <2>1, <2>2, <2>3 DEF InOrder
<1>. QED
  BY <1>1, <1>2, <1>3, TypeCorrect, IInvCorrect, PTL DEF Spec, OutputInOrder
=============================================================================
