---------------------------- MODULE RoutedCalls ----------------------------
(***************************************************************************)
(* IBMVoiceGatewaySource and the VoiceCallDataRouter of the VgwDataRouter  *)
(* sample together, as that application connects them: the tuples of the   *)
(* source go through the queue of the router's threaded port, and the      *)
(* router works on them one by one while calls begin and end behind them.  *)
(*                                                                         *)
(* What the source keeps of a call and what the router keeps of it agree   *)
(* only in the end, when the queue is empty; nothing but the tuples        *)
(* connects the two.                                                       *)
(***************************************************************************)
EXTENDS IBMVoiceGatewaySource, SequencesExt

CONSTANTS
  totalNumberOfSpeechProcessorJobs,
  numberOfConcurrentCallsAllowedPerSpeechProcessor,
  MaxQueue                           \* bound: tuples in the queue of the port

ASSUME SizesOfRouter ==
  /\ totalNumberOfSpeechProcessorJobs \in Nat
  /\ numberOfConcurrentCallsAllowedPerSpeechProcessor \in Nat

VARIABLES
  numberOfEocsNeededForVoiceCallCompletion,
  speechProcessorStatusList,
  recentlyChosenSpeechProcessorId,
  vgwSessionIdToSpeechProcessorMap,
  vgwSessionVgwVoiceChannelNumberCompletedMap,
  submitted,
  queue                              \* BSD, between the two operators

Router == INSTANCE VgwDataRouter

routerVars == <<numberOfEocsNeededForVoiceCallCompletion, speechProcessorStatusList,
                recentlyChosenSpeechProcessorId, vgwSessionIdToSpeechProcessorMap,
                vgwSessionVgwVoiceChannelNumberCompletedMap, submitted>>

routedVars == <<vars, routerVars, queue>>

-----------------------------------------------------------------------------
RoutedInit ==
  /\ Init
  /\ Router!Init
  /\ queue = <<>>

(* A handler of the source.  The tuples it submits are queued in an order  *)
(* of its own; with Sys.Wait it blocks while the queue is full.            *)
SourceStep ==
  /\ Next
  /\ Len(queue) + Cardinality(out') <= MaxQueue
  /\ \E tuples \in SetToSeqs(out') : queue' = queue \o tuples
  /\ UNCHANGED routerVars

RouterStep ==
  /\ queue # <<>>
  /\ Router!OnTuple(Head(queue))
  /\ queue' = Tail(queue)
  /\ UNCHANGED vars

RoutedNext == SourceStep \/ RouterStep

RoutedSpec == RoutedInit /\ [][RoutedNext]_routedVars

-----------------------------------------------------------------------------
(* The steps of the router on real calls are steps it promises for any     *)
(* stream of tuples, and its counts hold with them.                        *)
CountsAreCalls == Router!CountsAreCalls

(* "This condition should not happen as long as there are enough number of *)
(* speech processors" (onTuple BSD): where the source admits no more calls *)
(* than the processors have places, and one signal completes a call, no    *)
(* speech is refused; the places of ended calls are given back in time.    *)
Places ==
  totalNumberOfSpeechProcessorJobs * numberOfConcurrentCallsAllowedPerSpeechProcessor

NoCallRefused ==
  /\ numberOfEocsNeededForVoiceCallCompletion = 1
  /\ vgwStaleSessionPurgeInterval = 0 /\ shutdown # "cleared"
  /\ \A n \in Limits \union {InitialMaxConcurrentCalls} : n <= Places
  /\ queue # <<>>
  /\ Head(queue).kind = "speech"
  => \/ Head(queue).session \in Router!Mapped
     \/ \E p \in Router!Processor : Router!ChosenFor(p)

(* When the queue is empty, a call that is over keeps its place only if    *)
(* two signals are needed and the source had only one of its channels to   *)
(* signal ("We have seen it in certain customer environments").            *)
PlacesGivenBack ==
  queue = <<>> /\ vgwStaleSessionPurgeInterval = 0 /\ shutdown # "cleared" =>
    \A s \in Router!Mapped \ Live :
      /\ numberOfEocsNeededForVoiceCallCompletion = 2
      /\ Router!CompletedOf(s) \notin {{}, Router!keysOf(s)}
=============================================================================
