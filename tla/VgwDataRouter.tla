--------------------------- MODULE VgwDataRouter ---------------------------
(***************************************************************************)
(* The VoiceCallDataRouter of the VgwDataRouter sample: every call that    *)
(* IBMVoiceGatewaySource reports is given to one of the speech processor   *)
(* jobs, all its speech follows it there, and the end-of-call signals of   *)
(* its channels give the place back.                                       *)
(*                                                                         *)
(* The operator has a threaded port: one thread takes the tuples from a    *)
(* queue, so a tuple is one step.  Names are those of the code without     *)
(* their leading underscore.  Empty speech is ignored there and does not   *)
(* occur here.                                                             *)
(***************************************************************************)
EXTENDS Integers, FiniteSets

CONSTANTS
  Session,                           \* session ids of the gateway
  totalNumberOfSpeechProcessorJobs,
  numberOfConcurrentCallsAllowedPerSpeechProcessor

SizesOfDeployment ==
  /\ totalNumberOfSpeechProcessorJobs \in Nat
  /\ numberOfConcurrentCallsAllowedPerSpeechProcessor \in Nat

VARIABLES
  numberOfEocsNeededForVoiceCallCompletion,  \* submission time value
  speechProcessorStatusList,                 \* processor -> number of its calls
  recentlyChosenSpeechProcessorId,           \* -1 before the first call
  vgwSessionIdToSpeechProcessorMap,          \* session -> processor
  vgwSessionVgwVoiceChannelNumberCompletedMap,  \* its keys
  submitted                                  \* what the last tuple sent on

vars == <<numberOfEocsNeededForVoiceCallCompletion, speechProcessorStatusList,
          recentlyChosenSpeechProcessorId, vgwSessionIdToSpeechProcessorMap,
          vgwSessionVgwVoiceChannelNumberCompletedMap, submitted>>

Processor == 1 .. totalNumberOfSpeechProcessorJobs

BinarySpeech ==
  [kind : {"speech", "end"}, session : Session, channel : {0, 1, 2}]

Mapped == DOMAIN vgwSessionIdToSpeechProcessorMap

SendTo(p, t) == {[processor |-> p, tuple |-> t]}

-----------------------------------------------------------------------------
Init ==
  /\ numberOfEocsNeededForVoiceCallCompletion \in {1, 2}
  /\ speechProcessorStatusList = [p \in Processor |-> 0]
  /\ recentlyChosenSpeechProcessorId = -1
  /\ vgwSessionIdToSpeechProcessorMap = [s \in {} |-> 0]
  /\ vgwSessionVgwVoiceChannelNumberCompletedMap = {}
  /\ submitted = {}

(* getSpeechProcessorIdForNewCallProcessing: the k-th processor that is    *)
(* looked at is the k-th after the one chosen last, round the list.        *)
firstIndex ==
  IF recentlyChosenSpeechProcessorId \in {-1, totalNumberOfSpeechProcessorJobs}
  THEN 0 ELSE recentlyChosenSpeechProcessorId

(* Slip: the search stays at the end of the list.                          *)
CheckedWithoutWrap(k) ==
  IF firstIndex + k < totalNumberOfSpeechProcessorJobs
  THEN firstIndex + k + 1 ELSE totalNumberOfSpeechProcessorJobs

Checked(k) == ((firstIndex + k) % totalNumberOfSpeechProcessorJobs) + 1

HasRoom(p) ==
  speechProcessorStatusList[p] < numberOfConcurrentCallsAllowedPerSpeechProcessor

ChosenFor(p) ==
  \E k \in 0 .. totalNumberOfSpeechProcessorJobs - 1 :
    /\ p = Checked(k)
    /\ HasRoom(p)
    /\ \A j \in 0 .. k - 1 : ~HasRoom(Checked(j))

(* Slip: the function counts in a copy of the list.                        *)
OneMoreInCopy(p) == speechProcessorStatusList

OneMore(p) == [speechProcessorStatusList EXCEPT ![p] = @ + 1]

(* Speech of a call that is new here, of one for which there is no place,  *)
(* and of one that has its processor.                                      *)
SpeechOfNewCall(t) ==
  /\ t.kind = "speech"
  /\ t.session \notin Mapped
  /\ \E p \in Processor :
       /\ ChosenFor(p)
       /\ speechProcessorStatusList' = OneMore(p)
       /\ vgwSessionIdToSpeechProcessorMap' =
            [s \in Mapped \union {t.session} |->
               IF s = t.session THEN p ELSE vgwSessionIdToSpeechProcessorMap[s]]
       /\ recentlyChosenSpeechProcessorId' = p
       /\ submitted' = SendTo(p, t)
  /\ UNCHANGED <<numberOfEocsNeededForVoiceCallCompletion,
                 vgwSessionVgwVoiceChannelNumberCompletedMap>>

SpeechRefused(t) ==
  /\ t.kind = "speech"
  /\ t.session \notin Mapped
  /\ \A p \in Processor : ~HasRoom(p)
  /\ submitted' = {}
  /\ UNCHANGED <<numberOfEocsNeededForVoiceCallCompletion, speechProcessorStatusList,
                 recentlyChosenSpeechProcessorId, vgwSessionIdToSpeechProcessorMap,
                 vgwSessionVgwVoiceChannelNumberCompletedMap>>

SpeechOfOngoingCall(t) ==
  /\ t.kind = "speech"
  /\ t.session \in Mapped
  /\ submitted' = SendTo(vgwSessionIdToSpeechProcessorMap[t.session], t)
  /\ UNCHANGED <<numberOfEocsNeededForVoiceCallCompletion, speechProcessorStatusList,
                 recentlyChosenSpeechProcessorId, vgwSessionIdToSpeechProcessorMap,
                 vgwSessionVgwVoiceChannelNumberCompletedMap>>

(* An end-of-call signal: the channel is completed, and with enough        *)
(* channels the call.                                                      *)
keysOf(s) == {<<s, 1>>, <<s, 2>>}

Completed(t) ==
  vgwSessionVgwVoiceChannelNumberCompletedMap \union {<<t.session, t.channel>>}

(* Slip: both channels, whatever the submission time value.                *)
CompletedByBoth(t) == keysOf(t.session) \subseteq Completed(t)

CallCompleted(t) ==
  \/ /\ numberOfEocsNeededForVoiceCallCompletion = 2
     /\ keysOf(t.session) \subseteq Completed(t)
  \/ /\ numberOfEocsNeededForVoiceCallCompletion = 1
     /\ keysOf(t.session) \intersect Completed(t) # {}

SignalOfOngoingCall(t) ==
  /\ t.kind = "end"
  /\ t.session \in Mapped
  /\ submitted' = SendTo(vgwSessionIdToSpeechProcessorMap[t.session], t)
  /\ \/ /\ CallCompleted(t)
        /\ speechProcessorStatusList' =
             [speechProcessorStatusList EXCEPT
                ![vgwSessionIdToSpeechProcessorMap[t.session]] = @ - 1]
        /\ vgwSessionIdToSpeechProcessorMap' =
             [s \in Mapped \ {t.session} |-> vgwSessionIdToSpeechProcessorMap[s]]
        /\ vgwSessionVgwVoiceChannelNumberCompletedMap' =
             Completed(t) \ keysOf(t.session)
     \/ /\ ~CallCompleted(t)
        /\ vgwSessionVgwVoiceChannelNumberCompletedMap' = Completed(t)
        /\ UNCHANGED <<speechProcessorStatusList, vgwSessionIdToSpeechProcessorMap>>
  /\ UNCHANGED <<numberOfEocsNeededForVoiceCallCompletion,
                 recentlyChosenSpeechProcessorId>>

SignalIgnored(t) ==
  /\ t.kind = "end"
  /\ t.session \notin Mapped
  /\ submitted' = {}
  /\ UNCHANGED <<numberOfEocsNeededForVoiceCallCompletion, speechProcessorStatusList,
                 recentlyChosenSpeechProcessorId, vgwSessionIdToSpeechProcessorMap,
                 vgwSessionVgwVoiceChannelNumberCompletedMap>>

OnTuple(t) ==
  \/ SpeechOfNewCall(t)
  \/ SpeechRefused(t)
  \/ SpeechOfOngoingCall(t)
  \/ SignalOfOngoingCall(t)
  \/ SignalIgnored(t)

Next == \E t \in BinarySpeech : OnTuple(t)

Spec == Init /\ [][Next]_vars

-----------------------------------------------------------------------------
(* The count of a processor is the number of sessions mapped to it and     *)
(* never above its capacity, whatever signals are lost, doubled or late:   *)
(* a place that is given back was taken ("release the speech processor id  *)
(* that was allocated above for this voice call", onTuple BSD).            *)
CallsOf(p) == {s \in Mapped : vgwSessionIdToSpeechProcessorMap[s] = p}

CountsAreCalls ==
  \A p \in Processor :
    /\ speechProcessorStatusList[p] = Cardinality(CallsOf(p))
    /\ speechProcessorStatusList[p] <= numberOfConcurrentCallsAllowedPerSpeechProcessor

(* The channels of a session that are completed while it waits for the     *)
(* others.                                                                 *)
CompletedOf(s) == keysOf(s) \intersect vgwSessionVgwVoiceChannelNumberCompletedMap
=============================================================================
