-------------------------- MODULE RoutedCallsProofs --------------------------
(***************************************************************************)
(* What the router promises for any stream of tuples, it keeps behind the  *)
(* real source; and behind the real source it keeps no place of an ended   *)
(* call and refuses none: theorems about RoutedCalls.                      *)
(***************************************************************************)
EXTENDS RoutedCalls, IBMVoiceGatewaySourceProofs, SequenceTheorems

RouterProofs == INSTANCE VgwDataRouterProofs

(* Router and RouterProofs are two names of the same operator.             *)
LEMMA SameRouter ==
  ASSUME NEW t
  PROVE  Router!OnTuple(t) => RouterProofs!OnTuple(t)
<1>1. Router!SpeechOfNewCall(t) => RouterProofs!SpeechOfNewCall(t)
  BY DEF Router!SpeechOfNewCall, RouterProofs!SpeechOfNewCall, Router!Mapped,
         RouterProofs!Mapped, Router!Processor, RouterProofs!Processor,
         Router!ChosenFor, RouterProofs!ChosenFor, Router!Checked,
         RouterProofs!Checked, Router!firstIndex, RouterProofs!firstIndex,
         Router!HasRoom, RouterProofs!HasRoom, Router!OneMore,
         RouterProofs!OneMore, Router!SendTo, RouterProofs!SendTo
<1>2. Router!SpeechRefused(t) => RouterProofs!SpeechRefused(t)
  BY DEF Router!SpeechRefused, RouterProofs!SpeechRefused, Router!Mapped,
         RouterProofs!Mapped, Router!Processor, RouterProofs!Processor,
         Router!HasRoom, RouterProofs!HasRoom
<1>3. Router!SpeechOfOngoingCall(t) => RouterProofs!SpeechOfOngoingCall(t)
  BY DEF Router!SpeechOfOngoingCall, RouterProofs!SpeechOfOngoingCall,
         Router!Mapped, RouterProofs!Mapped, Router!SendTo, RouterProofs!SendTo
<1>4. Router!SignalOfOngoingCall(t) => RouterProofs!SignalOfOngoingCall(t)
  BY DEF Router!SignalOfOngoingCall, RouterProofs!SignalOfOngoingCall,
         Router!Mapped, RouterProofs!Mapped, Router!SendTo,
         RouterProofs!SendTo, Router!CallCompleted, RouterProofs!CallCompleted,
         Router!Completed, RouterProofs!Completed, Router!keysOf,
         RouterProofs!keysOf
<1>5. Router!SignalIgnored(t) => RouterProofs!SignalIgnored(t)
  BY DEF Router!SignalIgnored, RouterProofs!SignalIgnored, Router!Mapped,
         RouterProofs!Mapped
<1> QED BY <1>1, <1>2, <1>3, <1>4, <1>5 DEF Router!OnTuple, RouterProofs!OnTuple

LEMMA SameNames ==
  /\ Router!Mapped = RouterProofs!Mapped
  /\ Router!Processor = RouterProofs!Processor
  /\ \A s : /\ Router!CompletedOf(s) = RouterProofs!CompletedOf(s)
            /\ Router!keysOf(s) = RouterProofs!keysOf(s)
  /\ \A p : RouterProofs!ChosenFor(p) => Router!ChosenFor(p)
<1>1. \A k : Router!Checked(k) = RouterProofs!Checked(k)
  BY DEF Router!Checked, RouterProofs!Checked, Router!firstIndex, RouterProofs!firstIndex
<1>2. \A p : Router!HasRoom(p) = RouterProofs!HasRoom(p)
  BY DEF Router!HasRoom, RouterProofs!HasRoom
<1>. QED
  BY <1>1, <1>2
  DEF Router!Mapped, RouterProofs!Mapped, Router!Processor, RouterProofs!Processor,
      Router!CompletedOf, RouterProofs!CompletedOf, Router!keysOf, RouterProofs!keysOf,
      Router!ChosenFor, RouterProofs!ChosenFor

-----------------------------------------------------------------------------
(* What holds of the router behind any source holds behind this one.       *)
RouterState ==
  /\ RouterProofs!MapsOK
  /\ RouterProofs!CountsAreCalls
  /\ RouterProofs!NoKeysLeft
  /\ recentlyChosenSpeechProcessorId \in {-1} \union RouterProofs!Processor

THEOREM RouterCorrect == RoutedSpec => []RouterState
<1>1. RouterProofs!SizesOfDeployment
  BY SizesOfRouter DEF RouterProofs!SizesOfDeployment
<1>2. RoutedInit => RouterState
  <2>1. RoutedInit => RouterProofs!Init
    BY DEF RoutedInit, Router!Init, RouterProofs!Init, Router!Processor,
           RouterProofs!Processor
  <2>2. RouterProofs!Init => /\ RouterProofs!NoKeysLeft
                             /\ recentlyChosenSpeechProcessorId \in {-1}
    BY DEF RouterProofs!Init, RouterProofs!NoKeysLeft, RouterProofs!CompletedOf
  <2>. QED
    BY <2>1, <2>2, <1>1, RouterProofs!StartCounted DEF RouterState
<1>3. RouterState /\ [RoutedNext]_routedVars => RouterState'
  <2> SUFFICES ASSUME RouterState, [RoutedNext]_routedVars
               PROVE  RouterState'
    OBVIOUS
  <2>1. CASE RouterStep
    <3>1. RouterProofs!OnTuple(Head(queue))
      BY <2>1, SameRouter DEF RouterStep
    <3>2. RouterProofs!MapsOK' /\ RouterProofs!CountsAreCalls'
      BY <3>1, <1>1, RouterProofs!TupleCounted DEF RouterState
    <3>3. RouterProofs!NoKeysLeft'
      BY <3>1, RouterProofs!TupleLeavesNoKeys DEF RouterState, RouterProofs!MapsOK
    <3>4. recentlyChosenSpeechProcessorId' \in {-1} \union RouterProofs!Processor
      BY <3>1
      DEF RouterState, RouterProofs!OnTuple, RouterProofs!SpeechOfNewCall,
          RouterProofs!SpeechRefused, RouterProofs!SpeechOfOngoingCall,
          RouterProofs!SignalOfOngoingCall, RouterProofs!SignalIgnored
    <3>5. RouterProofs!Processor' = RouterProofs!Processor
      BY DEF RouterProofs!Processor
    <3>. QED
      BY <3>2, <3>3, <3>4, <3>5 DEF RouterState
  <2>2. CASE UNCHANGED routerVars
    BY <2>2 DEF routerVars, RouterState, RouterProofs!MapsOK, RouterProofs!CountsAreCalls,
                RouterProofs!Mapped, RouterProofs!CallsOf, RouterProofs!Processor,
                RouterProofs!NoKeysLeft, RouterProofs!CompletedOf, RouterProofs!keysOf
  <2>. QED
    BY <2>1, <2>2 DEF RoutedNext, SourceStep, routedVars
<1>. QED
  BY <1>2, <1>3, PTL DEF RoutedSpec

(* The counts of the processors are those of the calls they have, for any  *)
(* number of legs and calls, any purge interval and any limit of the       *)
(* source.                                                                 *)
THEOREM PlacesOfCallsCounted == RoutedSpec => []CountsAreCalls
<1>1. RouterState => CountsAreCalls
  BY DEF RouterState, CountsAreCalls, Router!CountsAreCalls, RouterProofs!CountsAreCalls,
         Router!CallsOf, RouterProofs!CallsOf, Router!Processor,
         RouterProofs!Processor, Router!Mapped, RouterProofs!Mapped,
         Router!Cardinality, RouterProofs!Cardinality
<1>. QED
  BY <1>1, RouterCorrect, PTL

(* The source behaves as it does alone.                                    *)
THEOREM SourceAlone == RoutedSpec => Spec
<1>1. RoutedInit => Init
  BY DEF RoutedInit
<1>2. [RoutedNext]_routedVars => [Next]_vars
  BY DEF RoutedNext, SourceStep, RouterStep, routedVars
<1>. QED
  BY <1>1, <1>2, PTL DEF RoutedSpec, Spec

-----------------------------------------------------------------------------
(* The calls of the source that the router hears of.                       *)
Active == Live \ callsBeingThrottledMap

QueueTuple ==
  {t \in [kind : {"speech", "end"}, session : Session, number : Nat, channel : {0, 1, 2}] :
     t.kind = "end" => t.channel \in {1, 2}}

Speech(s, i) == queue[i].kind = "speech" /\ queue[i].session = s
Ending(s, i) == queue[i].kind = "end" /\ queue[i].session = s

(* The last that the router hears of s, now or from the queue, is a signal *)
(* that ends one of its channels.                                          *)
Over(s) ==
  \/ \E k \in 1 .. Len(queue) :
       Ending(s, k) /\ \A j \in k + 1 .. Len(queue) : ~Speech(s, j)
  \/ /\ \A j \in 1 .. Len(queue) : ~Speech(s, j)
     /\ s \in Router!Mapped => Router!CompletedOf(s) # {}

(* The sessions that have a place when i tuples more are done with, where  *)
(* one signal is enough and none is refused.                               *)
Held(i) ==
  {s \in Session : \E k \in 0 .. i :
     /\ IF k = 0 THEN s \in Router!Mapped ELSE Speech(s, k)
     /\ \A j \in k + 1 .. i : ~Ending(s, j)}

(* Until the maps are cleared, what the source does not have, the router   *)
(* gives up or has given up.                                               *)
QueueOK ==
  shutdown # "cleared" =>
    /\ queue \in Seq(QueueTuple)
    /\ Router!Mapped \subseteq Session
    /\ \A s \in Session \ Active : Over(s)

(* At no point of the queue are there more calls than places.              *)
QueueFits ==
  shutdown # "cleared" =>
    /\ maxConcurrentCallsAllowed \in Limits \union {InitialMaxConcurrentCalls}
    /\ activeConcurrentCallsCnt <= Places
    /\ numberOfEocsNeededForVoiceCallCompletion = 1 =>
         /\ \A i \in 0 .. Len(queue) : Cardinality(Held(i)) <= Places
         /\ Held(Len(queue)) \subseteq Active

-----------------------------------------------------------------------------
(* What a handler of the source submits, and what it does to these calls.  *)
Quiet == out' = {} /\ Active' = Active

Speaks(t) ==
  /\ out' = {t} /\ t \in QueueTuple /\ t.kind = "speech"
  /\ t.session \in Active' /\ Active' = Active \union {t.session}

Ends(t) ==
  /\ out' = {t} /\ t \in QueueTuple /\ t.kind = "end"
  /\ t.session \in Active /\ Active' \in {Active, Active \ {t.session}}

LEMMA SourceTuples ==
  ASSUME vgwStaleSessionPurgeInterval = 0, Inv, Handles, Lists, Inv', TuplesCarryCallNumber',
         Next, shutdown # "cleared", shutdown' # "cleared"
  PROVE  Quiet \/ \E t : Speaks(t) \/ Ends(t)
<1>0. callsBeingThrottledMap \subseteq Live /\ Live' \subseteq Session /\ Live \subseteq Session
  BY DEF Inv, ThrottledCallsLive
<1>1. ASSUME NEW kind \in {"speech", "end"}, NEW s \in Session, NEW number,
             NEW channel \in {0, 1, 2}, kind = "end" => channel \in {1, 2},
             out' = {Tuple(kind, s, number, channel)}
      PROVE  /\ Tuple(kind, s, number, channel) \in QueueTuple
             /\ Tuple(kind, s, number, channel).kind = kind
             /\ Tuple(kind, s, number, channel).session = s
  <2>0. PICK o : o = Tuple(kind, s, number, channel)
    OBVIOUS
  <2>1. o.number = number /\ o.kind = kind /\ o.session = s /\ o.channel = channel
    BY <2>0 DEF Tuple
  <2>2. o \in out'
    BY <1>1, <2>0
  <2>3. number \in 1 .. callSequenceNumber'
    BY <2>1, <2>2 DEF TuplesCarryCallNumber
  <2>4. callSequenceNumber' \in Nat
    BY DEF Inv
  <2>5. number \in Nat
    BY <2>3, <2>4
  <2>6. o \in [kind : {"speech", "end"}, session : Session, number : Nat,
               channel : {0, 1, 2}]
    BY <1>1, <2>0, <2>5 DEF Tuple
  <2>. QED
    BY <1>1, <2>0, <2>1, <2>6 DEF QueueTuple
<1>2. ASSUME NEW c \in Connection, OnSpeech(c) PROVE Quiet \/ \E t : Speaks(t)
  <2>0. PICK s : s = sessionOf(c)
    OBVIOUS
  <2>1. PICK channel \in {0, 1, 2} :
          /\ Admit(c, s, channel)
          /\ out' = IF s \in callsBeingThrottledMap' THEN {}
                    ELSE {Tuple("speech", s, call_sequence_number_map'[s], channel)}
    BY <2>0, <1>2 DEF OnSpeech, sessionOf
  <2>2. /\ c \in DOMAIN client_connections_map /\ client_connections_map[c] \in Metadata
        /\ s \in Session
    BY <2>0, <1>2 DEF OnSpeech, Known, Inv, StartedHaveSession
  <2>3. IF s \in callsBeingThrottledMap' THEN Active' = Active
        ELSE s \in Active' /\ Active' = Active \union {s}
    <3>1. CASE NewCall(c, s) /\ s \notin Live
      <4>1. /\ Live' = Live \union {s}
            /\ callsBeingThrottledMap' \in
                 {callsBeingThrottledMap, callsBeingThrottledMap \union {s}}
        BY <3>1 DEF NewCall, Put, Live
      <4>. QED
        BY <1>0, <3>1, <4>1 DEF Active
    <3>2. CASE s \in Live /\ (JoinCall(c, s) \/ ContinueCall(s))
      <4>1. Live' = Live /\ callsBeingThrottledMap' = callsBeingThrottledMap
        BY <3>2 DEF JoinCall, ContinueCall, Live
      <4>. QED
        BY <3>2, <4>1 DEF Active
    <3>3. CASE ContinueCall(s) /\ client_connections_map[c].speechPacketsReceivedCnt > 0
      <4>1. s \in Live
        BY <2>0, <2>2, <3>3, LegsOfLiveCalls DEF Lists, LegsHaveChannels
      <4>. QED
        BY <3>2, <3>3, <4>1
    <3>. QED
      BY <2>1, <3>1, <3>2, <3>3 DEF Admit, Live
  <2>4. CASE s \in callsBeingThrottledMap'
    BY <2>1, <2>3, <2>4 DEF Quiet
  <2>5. CASE s \notin callsBeingThrottledMap'
    <3>1. Speaks(Tuple("speech", s, call_sequence_number_map'[s], channel))
      BY <1>1, <2>1, <2>2, <2>3, <2>5 DEF Speaks
    <3>. QED
      BY <3>1
  <2>. QED
    BY <2>4, <2>5
<1>3. ASSUME NEW c \in Connection, OnClose(c) PROVE Quiet \/ \E t : Ends(t)
  <2>1. CASE CloseKnown(c)
    <3>0. PICK s : s = sessionOf(c)
      OBVIOUS
    <3>1. SessionSignals(c) = {} /\ ConnectionSignals(c) = {}
      BY NothingIsStale DEF SessionSignals, ConnectionSignals, Signalled
    <3>2. /\ out' = LegSignal(c)
          /\ Live' = Live \ Ended(c)
          /\ callsBeingThrottledMap' = callsBeingThrottledMap \ Ended(c)
          /\ Ended(c) \in {{}, {s}}
      BY <2>1, <3>0, <3>1, NothingIsStale, CloseKeepsTheRest
      DEF CloseKnown, ThrottledAfter, Ended
    <3>3. Active' = Active \ Ended(c)
      BY <3>2 DEF Active
    <3>4. CASE LegEnds(c) /\ s \notin callsBeingThrottledMap
      <4>1. PICK channel : channel = client_connections_map[c].vgwVoiceChannelNumber
        OBVIOUS
      <4>2. /\ channel \in {1, 2} /\ s \in Live /\ s \in Session
            /\ out' = {Tuple("end", s, call_sequence_number_map[s], channel)}
        BY <1>0, <2>1, <3>0, <3>2, <3>4, <4>1
        DEF LegSignal, LegEnds, Live, CloseKnown, Inv, StartedHaveSession, Metadata
      <4>3. Ends(Tuple("end", s, call_sequence_number_map[s], channel))
        BY <1>1, <3>2, <3>3, <3>4, <4>2 DEF Ends, Active
      <4>. QED
        BY <4>3
    <3>5. CASE ~LegEnds(c) \/ s \in callsBeingThrottledMap
      <4>1. out' = {}
        BY <3>0, <3>2, <3>5 DEF LegSignal
      <4>2. Ended(c) \subseteq callsBeingThrottledMap
        BY <3>0, <3>5 DEF Ended, CallEnds
      <4>. QED
        BY <3>3, <4>1, <4>2 DEF Quiet, Active
    <3>. QED
      BY <3>4, <3>5
  <2>2. CASE CloseUnknown(c)
    BY <2>2 DEF CloseUnknown, callVars, Quiet, Active, Live
  <2>. QED
    BY <1>3, <2>1, <2>2 DEF OnClose
<1>4. CASE \E c \in Connection :
             \/ OnOpen(c)
             \/ \E s \in Session, isCaller \in BOOLEAN : OnStart(c, s, isCaller)
             \/ OnEmptySpeech(c)
  BY <1>4 DEF OnOpen, OnStart, OnEmptySpeech, callVars, Quiet, Active, Live
<1>5. CASE (\E n \in Limits : OnSetMaxConcurrentCalls(n)) \/ Tick \/ CloseConnections
  BY <1>5 DEF OnSetMaxConcurrentCalls, Tick, CloseConnections, callVars, Quiet, Active, Live
<1>6. ~ClearMaps
  BY DEF ClearMaps
<1>. QED
  BY <1>2, <1>3, <1>4, <1>5, <1>6 DEF Next

-----------------------------------------------------------------------------
(* What joins the queue.                                                   *)
LEMMA NoneJoins ==
  ASSUME NEW S, NEW q \in Seq(S), NEW tuples \in SetToSeqs({})
  PROVE  q \o tuples = q
<1>1. Cardinality({}) = 0 /\ 1 .. 0 = {}
  BY FS_EmptySet
<1>2. tuples \in [1 .. 0 -> {}]
  BY <1>1 DEF SetToSeqs
<1>3. tuples = <<>>
  BY <1>2
<1>. QED
  BY <1>3

LEMMA OneJoins ==
  ASSUME NEW S, NEW q \in Seq(S), NEW t \in S, NEW tuples \in SetToSeqs({t})
  PROVE  q \o tuples = Append(q, t)
<1>1. Cardinality({t}) = 1
  BY FS_Singleton
<1>2. tuples \in [1 .. 1 -> {t}]
  BY <1>1 DEF SetToSeqs
<1>3. tuples = <<t>>
  BY <1>2
<1>. QED
  BY <1>3, AppendIsConcat

LEMMA SourceQueue ==
  ASSUME queue \in Seq(QueueTuple), SourceStep
  PROVE  /\ Quiet => queue' = queue
         /\ \A t : Speaks(t) \/ Ends(t) => t \in QueueTuple /\ queue' = Append(queue, t)
<1>1. PICK tuples \in SetToSeqs(out') : queue' = queue \o tuples
  BY DEF SourceStep
<1>2. Quiet => queue' = queue
  BY <1>1, NoneJoins DEF Quiet
<1>3. ASSUME NEW t, Speaks(t) \/ Ends(t) PROVE t \in QueueTuple /\ queue' = Append(queue, t)
  <2>1. t \in QueueTuple /\ tuples \in SetToSeqs({t})
    BY <1>1, <1>3 DEF Speaks, Ends
  <2>. QED
    BY <1>1, <2>1, OneJoins
<1>. QED
  BY <1>2, <1>3

(* Cleared maps stay cleared.                                              *)
LEMMA ClearedStays ==
  ASSUME Next, shutdown = "cleared"
  PROVE  shutdown' = "cleared"
BY DEF Next, OnOpen, OnStart, OnEmptySpeech, OnSpeech, OnClose, OnSetMaxConcurrentCalls,
       Tick, CloseConnections, ClearMaps

-----------------------------------------------------------------------------
(* What the router makes of a tuple.                                       *)
LEMMA TupleHandled ==
  ASSUME RouterState, NEW t \in QueueTuple, Router!OnTuple(t)
  PROVE  /\ numberOfEocsNeededForVoiceCallCompletion'
              = numberOfEocsNeededForVoiceCallCompletion
         /\ t.kind = "speech" =>
              /\ Router!Mapped' \in {Router!Mapped, Router!Mapped \union {t.session}}
              /\ \A s : Router!CompletedOf(s)' = Router!CompletedOf(s)
         /\ t.kind = "end" =>
              /\ Router!Mapped' \in {Router!Mapped, Router!Mapped \ {t.session}}
              /\ \A s : s # t.session => Router!CompletedOf(s)' = Router!CompletedOf(s)
              /\ t.session \in Router!Mapped' =>
                   /\ Router!CompletedOf(t.session)' # {}
                   /\ numberOfEocsNeededForVoiceCallCompletion = 2
<1>0. numberOfEocsNeededForVoiceCallCompletion \in {1, 2}
  BY DEF RouterState, RouterProofs!MapsOK
<1>1. CASE Router!SpeechOfNewCall(t)
  <2>1. Router!Mapped' = Router!Mapped \union {t.session}
    BY <1>1 DEF Router!SpeechOfNewCall, Router!Mapped
  <2>. QED
    BY <1>1, <2>1 DEF Router!SpeechOfNewCall, Router!CompletedOf, Router!keysOf
<1>2. CASE Router!SpeechRefused(t) \/ Router!SpeechOfOngoingCall(t)
  BY <1>2 DEF Router!SpeechRefused, Router!SpeechOfOngoingCall, Router!CompletedOf,
              Router!keysOf, Router!Mapped
<1>3. CASE Router!SignalOfOngoingCall(t)
  <2>0. t.kind = "end" /\ t.channel \in {1, 2}
    BY <1>3 DEF Router!SignalOfOngoingCall, QueueTuple
  <2>1. <<t.session, t.channel>> \in Router!keysOf(t.session) \intersect Router!Completed(t)
    BY <2>0 DEF Router!keysOf, Router!Completed
  <2>2. CASE Router!CallCompleted(t)
    <3>1. Router!Mapped' = Router!Mapped \ {t.session}
      BY <1>3, <2>2 DEF Router!SignalOfOngoingCall, Router!Mapped
    <3>2. \A s : s # t.session => Router!CompletedOf(s)' = Router!CompletedOf(s)
      BY <1>3, <2>2
      DEF Router!SignalOfOngoingCall, Router!CompletedOf, Router!Completed, Router!keysOf
    <3>. QED
      BY <1>3, <2>0, <3>1, <3>2 DEF Router!SignalOfOngoingCall
  <2>3. CASE ~Router!CallCompleted(t)
    <3>1. Router!Mapped' = Router!Mapped
      BY <1>3, <2>3 DEF Router!SignalOfOngoingCall, Router!Mapped
    <3>2. vgwSessionVgwVoiceChannelNumberCompletedMap' = Router!Completed(t)
      BY <1>3, <2>3 DEF Router!SignalOfOngoingCall
    <3>3. \A s : s # t.session => Router!CompletedOf(s)' = Router!CompletedOf(s)
      BY <3>2 DEF Router!CompletedOf, Router!Completed, Router!keysOf
    <3>4. Router!CompletedOf(t.session)' # {}
      BY <2>1, <3>2 DEF Router!CompletedOf, Router!keysOf
    <3>5. numberOfEocsNeededForVoiceCallCompletion # 1
      BY <2>1, <2>3 DEF Router!CallCompleted
    <3>. QED
      BY <1>0, <1>3, <2>0, <3>1, <3>3, <3>4, <3>5 DEF Router!SignalOfOngoingCall
  <2>. QED
    BY <2>2, <2>3
<1>4. CASE Router!SignalIgnored(t)
  BY <1>4 DEF Router!SignalIgnored, Router!CompletedOf, Router!keysOf, Router!Mapped
<1>. QED
  BY <1>1, <1>2, <1>3, <1>4 DEF Router!OnTuple

(* What does not change with the maps of the router.                       *)
LEMMA RouterRests ==
  ASSUME UNCHANGED routerVars
  PROVE  /\ Router!Mapped' = Router!Mapped
         /\ numberOfEocsNeededForVoiceCallCompletion'
              = numberOfEocsNeededForVoiceCallCompletion
         /\ \A s : Router!CompletedOf(s)' = Router!CompletedOf(s)
BY DEF routerVars, Router!Mapped, Router!CompletedOf, Router!keysOf

(* The head of the queue is taken.                                         *)
LEMMA HeadTaken ==
  ASSUME queue \in Seq(QueueTuple), RouterStep
  PROVE  /\ queue' \in Seq(QueueTuple) /\ Len(queue) \in Nat \ {0}
         /\ Len(queue') = Len(queue) - 1
         /\ Head(queue) = queue[1] /\ queue[1] \in QueueTuple
         /\ \A i \in 1 .. Len(queue) - 1 : queue'[i] = queue[i + 1]
<1>1. queue # <<>> /\ queue' = Tail(queue)
  BY DEF RouterStep
<1>2. /\ Head(queue) \in QueueTuple /\ Tail(queue) \in Seq(QueueTuple)
      /\ Len(Tail(queue)) = Len(queue) - 1
      /\ \A i \in 1 .. Len(Tail(queue)) : Tail(queue)[i] = queue[i + 1]
  BY <1>1, HeadTailProperties
<1>3. Len(queue) \in Nat \ {0} /\ Head(queue) = queue[1]
  BY <1>1
<1>. QED
  BY <1>1, <1>2, <1>3

-----------------------------------------------------------------------------
(* A call that is over stays over, for the router, while tuples of other   *)
(* calls join the queue; a signal of its own makes it so.                  *)
LEMMA OverJoined ==
  ASSUME queue \in Seq(QueueTuple), NEW t \in QueueTuple, queue' = Append(queue, t),
         UNCHANGED routerVars, NEW s,
         \/ Over(s) /\ ~(t.kind = "speech" /\ t.session = s)
         \/ t.kind = "end" /\ t.session = s
  PROVE  Over(s)'
<1>1. PICK n \in Nat : n = Len(queue)
  OBVIOUS
<1>2. /\ Len(queue') = n + 1
      /\ queue'[n + 1] = t
      /\ \A i \in 1 .. n : queue'[i] = queue[i]
  BY <1>1, AppendProperties
<1>3. \A i \in 1 .. n : (Speech(s, i)' <=> Speech(s, i)) /\ (Ending(s, i)' <=> Ending(s, i))
  BY <1>2 DEF Speech, Ending
<1>4. CASE t.kind = "end" /\ t.session = s
  <2>1. Ending(s, n + 1)'
    BY <1>2, <1>4 DEF Ending
  <2>. QED
    BY <1>2, <2>1 DEF Over
<1>5. CASE Over(s) /\ ~(t.kind = "speech" /\ t.session = s)
  <2>1. ~Speech(s, n + 1)'
    BY <1>2, <1>5 DEF Speech
  <2>2. CASE \E k \in 1 .. n : Ending(s, k) /\ \A j \in k + 1 .. n : ~Speech(s, j)
    <3>1. PICK k \in 1 .. n : Ending(s, k) /\ \A j \in k + 1 .. n : ~Speech(s, j)
      BY <2>2
    <3>2. Ending(s, k)' /\ k \in 1 .. n + 1
      BY <1>3, <3>1
    <3>3. \A j \in k + 1 .. n + 1 : ~Speech(s, j)'
      BY <1>3, <2>1, <3>1
    <3>. QED
      BY <1>2, <3>2, <3>3 DEF Over
  <2>3. CASE /\ \A j \in 1 .. n : ~Speech(s, j)
             /\ s \in Router!Mapped => Router!CompletedOf(s) # {}
    <3>1. \A j \in 1 .. n + 1 : ~Speech(s, j)'
      BY <1>3, <2>1, <2>3
    <3>. QED
      BY <1>2, <2>3, <3>1, RouterRests DEF Over
  <2>. QED
    BY <1>1, <1>5, <2>2, <2>3 DEF Over
<1>. QED
  BY <1>4, <1>5

(* It stays over while the router works on the queue.                      *)
LEMMA OverHandled ==
  ASSUME RouterState, queue \in Seq(QueueTuple), RouterStep, NEW s, Over(s)
  PROVE  Over(s)'
<1>1. PICK n \in Nat : n = Len(queue)
  OBVIOUS
<1>2. PICK t : t = queue[1]
  OBVIOUS
<1>3. /\ n # 0 /\ Len(queue') = n - 1 /\ t \in QueueTuple /\ Router!OnTuple(t)
      /\ \A i \in 1 .. n - 1 : queue'[i] = queue[i + 1]
  BY <1>1, <1>2, HeadTaken DEF RouterStep
<1>4. \A i \in 1 .. n - 1 :
        (Speech(s, i)' <=> Speech(s, i + 1)) /\ (Ending(s, i)' <=> Ending(s, i + 1))
  BY <1>3 DEF Speech, Ending
<1>5. t.kind \in {"speech", "end"}
  BY <1>3 DEF QueueTuple
<1>6. ASSUME NEW k \in 2 .. n, Ending(s, k), \A j \in k + 1 .. n : ~Speech(s, j)
      PROVE  Over(s)'
  <2>1. k - 1 \in 1 .. n - 1 /\ (k - 1) + 1 = k
    BY <1>6
  <2>2. Ending(s, k - 1)'
    BY <1>4, <1>6, <2>1
  <2>3. \A j \in (k - 1) + 1 .. n - 1 : ~Speech(s, j)'
    BY <1>4, <1>6
  <2>. QED
    BY <1>3, <2>1, <2>2, <2>3 DEF Over
<1>7. ASSUME \A j \in 2 .. n : ~Speech(s, j),
             s \in Router!Mapped' => Router!CompletedOf(s)' # {}
      PROVE  Over(s)'
  <2>1. \A j \in 1 .. n - 1 : ~Speech(s, j)'
    BY <1>4, <1>7
  <2>. QED
    BY <1>3, <1>7, <2>1 DEF Over
<1>8. CASE \E k \in 1 .. n : Ending(s, k) /\ \A j \in k + 1 .. n : ~Speech(s, j)
  <2>1. PICK k \in 1 .. n : Ending(s, k) /\ \A j \in k + 1 .. n : ~Speech(s, j)
    BY <1>8
  <2>2. CASE k = 1
    <3>1. t.kind = "end" /\ t.session = s
      BY <1>2, <2>1, <2>2 DEF Ending
    <3>2. \A j \in 2 .. n : ~Speech(s, j)
      BY <2>1, <2>2
    <3>. QED
      BY <1>3, <1>7, <3>1, <3>2, TupleHandled
  <2>3. CASE k # 1
    BY <1>6, <2>1, <2>3
  <2>. QED
    BY <2>2, <2>3
<1>9. CASE /\ \A j \in 1 .. n : ~Speech(s, j)
           /\ s \in Router!Mapped => Router!CompletedOf(s) # {}
  <2>1. ~(t.kind = "speech" /\ t.session = s)
    BY <1>2, <1>3, <1>9 DEF Speech
  <2>2. s \in Router!Mapped' => Router!CompletedOf(s)' # {}
    BY <1>3, <1>5, <1>9, <2>1, TupleHandled
  <2>. QED
    BY <1>7, <1>9, <2>2
<1>. QED
  BY <1>1, <1>8, <1>9 DEF Over

-----------------------------------------------------------------------------
(* Where one signal is enough, the router's step makes true what the queue *)
(* said of the sessions that have a place.                                 *)
LEMMA HeldHandled ==
  ASSUME RouterState, queue \in Seq(QueueTuple), RouterStep,
         numberOfEocsNeededForVoiceCallCompletion = 1, NEW i \in 0 .. Len(queue) - 1
  PROVE  Held(i)' \subseteq Held(i + 1)
<1>1. PICK n \in Nat : n = Len(queue)
  OBVIOUS
<1>2. PICK t : t = queue[1]
  OBVIOUS
<1>3. /\ n # 0 /\ Len(queue') = n - 1 /\ t \in QueueTuple /\ Router!OnTuple(t)
      /\ \A j \in 1 .. n - 1 : queue'[j] = queue[j + 1]
  BY <1>1, <1>2, HeadTaken DEF RouterStep
<1>4. t.kind \in {"speech", "end"}
  BY <1>3 DEF QueueTuple
<1> SUFFICES ASSUME NEW s \in Session, s \in Held(i)' PROVE s \in Held(i + 1)
  BY DEF Held
<1>5. \A j \in 1 .. n - 1 :
        (Speech(s, j)' <=> Speech(s, j + 1)) /\ (Ending(s, j)' <=> Ending(s, j + 1))
  BY <1>3 DEF Speech, Ending
<1>6. i \in 0 .. n - 1
  BY <1>1
<1>7. PICK k \in 0 .. i :
        /\ IF k = 0 THEN s \in Router!Mapped' ELSE Speech(s, k)'
        /\ \A j \in k + 1 .. i : ~Ending(s, j)'
  BY DEF Held
<1>8. \A j \in k + 2 .. i + 1 : ~Ending(s, j)
  <2> SUFFICES ASSUME NEW j \in k + 2 .. i + 1 PROVE ~Ending(s, j)
    OBVIOUS
  <2>1. j - 1 \in 1 .. n - 1 /\ j - 1 \in k + 1 .. i /\ (j - 1) + 1 = j
    BY <1>6
  <2>. QED
    BY <1>5, <1>7, <2>1
<1>9. CASE k # 0
  <2>1. k + 1 \in 1 .. i + 1 /\ Speech(s, k + 1)
    BY <1>5, <1>6, <1>7, <1>9
  <2>2. \A j \in (k + 1) + 1 .. i + 1 : ~Ending(s, j)
    BY <1>8
  <2>. QED
    BY <1>6, <2>1, <2>2 DEF Held
<1>10. CASE k = 0 /\ s \in Router!Mapped
  <2>1. ~Ending(s, 1)
    BY <1>2, <1>3, <1>7, <1>10, TupleHandled DEF Ending
  <2>2. \A j \in 0 + 1 .. i + 1 : ~Ending(s, j)
    BY <1>6, <1>8, <1>10, <2>1
  <2>3. 0 \in 0 .. i + 1
    BY <1>6
  <2>. QED
    BY <1>10, <2>2, <2>3 DEF Held
<1>11. CASE k = 0 /\ s \notin Router!Mapped
  <2>1. Speech(s, 1)
    BY <1>2, <1>3, <1>4, <1>7, <1>11, TupleHandled DEF Speech
  <2>2. \A j \in 1 + 1 .. i + 1 : ~Ending(s, j)
    BY <1>8, <1>11
  <2>3. 1 \in 0 .. i + 1 /\ 1 # 0
    BY <1>6
  <2>. QED
    BY <2>1, <2>2, <2>3 DEF Held
<1>. QED
  BY <1>9, <1>10, <1>11

(* What joins the queue changes nothing before it; behind it, speech gives *)
(* its session a place at most, and a signal takes that of its session.    *)
LEMMA HeldJoined ==
  ASSUME queue \in Seq(QueueTuple), NEW t \in QueueTuple, queue' = Append(queue, t),
         UNCHANGED routerVars, NEW n \in Nat, n = Len(queue)
  PROVE  /\ Len(queue') = n + 1
         /\ \A i \in 0 .. n : Held(i)' = Held(i)
         /\ t.kind = "speech" => Held(n + 1)' \subseteq Held(n) \union {t.session}
         /\ t.kind = "end" => Held(n + 1)' \subseteq Held(n) \ {t.session}
<1>1. n \in Nat /\ n = Len(queue)
  OBVIOUS
<1>2. /\ Len(queue') = n + 1
      /\ queue'[n + 1] = t
      /\ \A i \in 1 .. n : queue'[i] = queue[i]
  BY <1>1, AppendProperties
<1>3. \A s : \A i \in 1 .. n :
        (Speech(s, i)' <=> Speech(s, i)) /\ (Ending(s, i)' <=> Ending(s, i))
  BY <1>2 DEF Speech, Ending
<1>4. Router!Mapped' = Router!Mapped
  BY RouterRests
<1>5. ASSUME NEW i \in 0 .. n PROVE Held(i)' = Held(i)
  <2>1. ASSUME NEW s \in Session PROVE s \in Held(i)' <=> s \in Held(i)
    <3>1. \A j \in 1 .. i :
            (Speech(s, j)' <=> Speech(s, j)) /\ (Ending(s, j)' <=> Ending(s, j))
      BY <1>3
    <3>2. ASSUME NEW k \in 0 .. i
          PROVE  /\ (IF k = 0 THEN s \in Router!Mapped' ELSE Speech(s, k)')
                      <=> (IF k = 0 THEN s \in Router!Mapped ELSE Speech(s, k))
                 /\ (\A j \in k + 1 .. i : ~Ending(s, j)')
                      <=> (\A j \in k + 1 .. i : ~Ending(s, j))
      <4>1. k # 0 => (Speech(s, k)' <=> Speech(s, k))
        BY <3>1
      <4>2. \A j \in k + 1 .. i : Ending(s, j)' <=> Ending(s, j)
        BY <3>1
      <4>. QED
        BY <1>4, <4>1, <4>2
    <3>. QED
      BY <3>2 DEF Held
  <2>. QED
    BY <2>1 DEF Held
<1>6. ASSUME NEW s \in Session, s \in Held(n + 1)'
      PROVE  /\ ~(t.kind = "end" /\ t.session = s)
             /\ s \in Held(n) \/ (t.kind = "speech" /\ t.session = s)
  <2>1. PICK k \in 0 .. n + 1 :
          /\ IF k = 0 THEN s \in Router!Mapped' ELSE Speech(s, k)'
          /\ \A j \in k + 1 .. n + 1 : ~Ending(s, j)'
    BY <1>6 DEF Held
  <2>2. CASE k = n + 1
    <3>1. t.kind = "speech" /\ t.session = s
      BY <1>2, <2>1, <2>2 DEF Speech
    <3>. QED
      BY <3>1
  <2>3. CASE k # n + 1
    <3>1. k \in 0 .. n /\ n + 1 \in k + 1 .. n + 1
      BY <2>3
    <3>2. ~(t.kind = "end" /\ t.session = s)
      BY <1>2, <2>1, <3>1 DEF Ending
    <3>3. \A j \in k + 1 .. n : ~Ending(s, j)
      BY <1>3, <2>1, <3>1
    <3>4. IF k = 0 THEN s \in Router!Mapped ELSE Speech(s, k)
      BY <1>3, <1>4, <2>1, <3>1
    <3>. QED
      BY <3>1, <3>2, <3>3, <3>4 DEF Held
  <2>. QED
    BY <2>2, <2>3
<1>7. Held(n + 1)' \subseteq Session
  BY DEF Held
<1>8. t.kind = "speech" => Held(n + 1)' \subseteq Held(n) \union {t.session}
  BY <1>6, <1>7
<1>9. t.kind = "end" => Held(n + 1)' \subseteq Held(n) \ {t.session}
  <2> SUFFICES ASSUME t.kind = "end", NEW s, s \in Held(n + 1)'
               PROVE  s \in Held(n) /\ s # t.session
    OBVIOUS
  <2>. QED
    BY <1>6, <1>7
<1>. QED
  BY <1>2, <1>5, <1>8, <1>9

-----------------------------------------------------------------------------
(* Admission keeps the number of active calls below every limit there may  *)
(* be.                                                                     *)
LEMMA AdmissionFits ==
  ASSUME vgwStaleSessionPurgeInterval = 0, Inv, Next,
         \A n \in Limits \union {InitialMaxConcurrentCalls} : n <= Places,
         maxConcurrentCallsAllowed \in Limits \union {InitialMaxConcurrentCalls},
         activeConcurrentCallsCnt <= Places
  PROVE  /\ maxConcurrentCallsAllowed' \in Limits \union {InitialMaxConcurrentCalls}
         /\ activeConcurrentCallsCnt' <= Places
<1>0. /\ activeConcurrentCallsCnt \in Nat /\ Places \in Nat
      /\ maxConcurrentCallsAllowed \in Nat /\ maxConcurrentCallsAllowed <= Places
  BY ParametersAreNumbers, SizesOfRouter DEF Inv, CountIsEnough, Places
<1>1. ASSUME NEW c \in Connection, OnSpeech(c)
      PROVE  /\ maxConcurrentCallsAllowed' = maxConcurrentCallsAllowed
             /\ activeConcurrentCallsCnt' <= Places
  <2>1. PICK s, channel : Admit(c, s, channel)
    BY <1>1 DEF OnSpeech
  <2>2. CASE NewCall(c, s) /\ ~LimitReached
    <3>1. activeConcurrentCallsCnt' = activeConcurrentCallsCnt + 1
      BY <2>2 DEF NewCall
    <3>2. activeConcurrentCallsCnt < maxConcurrentCallsAllowed
      BY <1>0, <2>2 DEF LimitReached
    <3>. QED
      BY <1>0, <1>1, <3>1, <3>2 DEF OnSpeech
  <2>3. CASE UNCHANGED activeConcurrentCallsCnt
    BY <1>1, <2>3 DEF OnSpeech
  <2>. QED
    BY <2>1, <2>2, <2>3 DEF Admit, NewCall, JoinCall, ContinueCall
<1>2. ASSUME NEW c \in Connection, OnClose(c)
      PROVE  /\ maxConcurrentCallsAllowed' = maxConcurrentCallsAllowed
             /\ activeConcurrentCallsCnt' <= Places
  <2>1. CASE CloseKnown(c)
    <3>1. ActiveLeaving(c) \subseteq Session /\ IsFiniteSet(ActiveLeaving(c))
      BY <2>1, CloseKeepsTheRest, SessionsAreFinite, FS_Subset DEF ActiveLeaving, Inv
    <3>2. Cardinality(ActiveLeaving(c)) \in Nat
      BY <3>1, FS_CardinalityType
    <3>3. activeConcurrentCallsCnt'
            = activeConcurrentCallsCnt - Cardinality(ActiveLeaving(c))
      BY <2>1 DEF CloseKnown
    <3>. QED
      BY <1>0, <1>2, <3>2, <3>3 DEF OnClose
  <2>2. CASE CloseUnknown(c)
    BY <1>2, <2>2 DEF OnClose, CloseUnknown, callVars
  <2>. QED
    BY <1>2, <2>1, <2>2 DEF OnClose
<1>3. ASSUME NEW n \in Limits, OnSetMaxConcurrentCalls(n)
      PROVE  maxConcurrentCallsAllowed' = n /\ UNCHANGED activeConcurrentCallsCnt
  BY <1>3 DEF OnSetMaxConcurrentCalls, callVars
<1>4. ASSUME \/ \E c \in Connection :
                   \/ OnOpen(c)
                   \/ \E s \in Session, isCaller \in BOOLEAN : OnStart(c, s, isCaller)
                   \/ OnEmptySpeech(c)
             \/ Tick \/ CloseConnections \/ ClearMaps
      PROVE  UNCHANGED <<maxConcurrentCallsAllowed, activeConcurrentCallsCnt>>
  BY <1>4 DEF OnOpen, OnStart, OnEmptySpeech, Tick, CloseConnections, ClearMaps, callVars
<1>. QED
  BY <1>1, <1>2, <1>3, <1>4 DEF Next

-----------------------------------------------------------------------------
(* Without purging, what the source gives up the router gives up.          *)
LEMMA QueueOKStep ==
  ASSUME vgwStaleSessionPurgeInterval = 0, Inv, Handles, Lists, Inv',
         TuplesCarryCallNumber', RouterState, QueueOK, RoutedNext
  PROVE  QueueOK'
<1> SUFFICES ASSUME shutdown' # "cleared"
             PROVE  /\ queue' \in Seq(QueueTuple)
                    /\ Router!Mapped' \subseteq Session
                    /\ \A s \in Session \ Active' : Over(s)'
  BY DEF QueueOK, QueueTuple
<1>1. CASE SourceStep
  <2>0. Next /\ UNCHANGED routerVars /\ Router!Mapped' = Router!Mapped
    BY <1>1, RouterRests DEF SourceStep
  <2>1. /\ shutdown # "cleared" /\ queue \in Seq(QueueTuple)
        /\ Router!Mapped' \subseteq Session
        /\ \A s \in Session \ Active : Over(s)
    BY <2>0, ClearedStays DEF QueueOK
  <2>2. CASE Quiet
    <3>1. queue' = queue /\ Active' = Active
      BY <1>1, <2>1, <2>2, SourceQueue DEF Quiet
    <3>2. \A s : Over(s) => Over(s)'
      BY <2>0, <3>1, RouterRests DEF Over, Speech, Ending
    <3>. QED
      BY <2>1, <3>1, <3>2
  <2>3. ASSUME NEW t, Speaks(t) \/ Ends(t)
        PROVE  /\ queue' \in Seq(QueueTuple)
               /\ \A s \in Session \ Active' : Over(s)'
    <3>1. t \in QueueTuple /\ queue' = Append(queue, t)
      BY <1>1, <2>1, <2>3, SourceQueue
    <3>2. queue' \in Seq(QueueTuple)
      BY <2>1, <3>1, AppendProperties
    <3>3. ASSUME NEW s \in Session \ Active' PROVE Over(s)'
      <4>1. \/ Over(s) /\ ~(t.kind = "speech" /\ t.session = s)
            \/ t.kind = "end" /\ t.session = s
        BY <2>1, <2>3, <3>3 DEF Speaks, Ends
      <4>. QED
        BY <2>0, <2>1, <3>1, <4>1, OverJoined
    <3>. QED
      BY <3>2, <3>3
  <2>. QED
    BY <2>0, <2>1, <2>2, <2>3, SourceTuples
<1>2. CASE RouterStep
  <2>1. shutdown' = shutdown /\ Active' = Active
    BY <1>2 DEF RouterStep, vars, callVars, Active, Live
  <2>2. /\ queue \in Seq(QueueTuple) /\ Router!Mapped \subseteq Session
        /\ \A s \in Session \ Active : Over(s)
    BY <2>1 DEF QueueOK
  <2>3. PICK t \in QueueTuple : Router!OnTuple(t)
    BY <1>2, <2>2, HeadTaken DEF RouterStep
  <2>4. t.session \in Session /\ t.kind \in {"speech", "end"}
    BY DEF QueueTuple
  <2>5. Router!Mapped' \subseteq Session
    BY <2>2, <2>3, <2>4, TupleHandled
  <2>. QED
    BY <1>2, <2>1, <2>2, <2>5, HeadTaken, OverHandled
<1>. QED
  BY <1>1, <1>2 DEF RoutedNext

(* Fewer sessions hold fewer places.                                       *)
LEMMA FewerFit ==
  ASSUME NEW S \in SUBSET Session, NEW T \in SUBSET S, Cardinality(S) <= Places
  PROVE  Cardinality(T) <= Places
<1>1. IsFiniteSet(S)
  BY SessionsAreFinite, FS_Subset
<1>2. Cardinality(T) <= Cardinality(S) /\ IsFiniteSet(T)
  BY <1>1, FS_Subset
<1>3. Cardinality(T) \in Nat /\ Cardinality(S) \in Nat /\ Places \in Nat
  BY <1>1, <1>2, FS_CardinalityType, SizesOfRouter DEF Places
<1>. QED
  BY <1>2, <1>3

(* Without purging, the places are enough at every point of the queue:     *)
(* behind it the active calls hold them at most, and the router only moves *)
(* along it.                                                               *)
LEMMA QueueFitsStep ==
  ASSUME vgwStaleSessionPurgeInterval = 0,
         \A n \in Limits \union {InitialMaxConcurrentCalls} : n <= Places,
         Inv, Handles, Lists, Inv', TuplesCarryCallNumber',
         RouterState, QueueOK, QueueFits, RoutedNext
  PROVE  QueueFits'
<1>0. SUFFICES ASSUME shutdown' # "cleared"
               PROVE  /\ maxConcurrentCallsAllowed'
                            \in Limits \union {InitialMaxConcurrentCalls}
                      /\ activeConcurrentCallsCnt' <= Places
                      /\ numberOfEocsNeededForVoiceCallCompletion' = 1 =>
                           /\ \A i \in 0 .. Len(queue') : Cardinality(Held(i)') <= Places
                           /\ Held(Len(queue))' \subseteq Active'
  BY DEF QueueFits, Places
<1>1. shutdown # "cleared" /\ queue \in Seq(QueueTuple)
  BY <1>0, ClearedStays DEF QueueOK, RoutedNext, SourceStep, RouterStep, vars
<1>2. /\ maxConcurrentCallsAllowed' \in Limits \union {InitialMaxConcurrentCalls}
      /\ activeConcurrentCallsCnt' <= Places
  <2>1. CASE SourceStep
    BY <1>1, <2>1, AdmissionFits DEF SourceStep, QueueFits
  <2>2. CASE RouterStep
    BY <1>1, <2>2 DEF RouterStep, vars, callVars, QueueFits
  <2>. QED
    BY <2>1, <2>2 DEF RoutedNext
<1>3. \A i : Held(i) \subseteq Session /\ Held(i)' \subseteq Session
  BY DEF Held
<1>4. PICK n \in Nat : n = Len(queue)
  BY <1>1
<1> SUFFICES ASSUME numberOfEocsNeededForVoiceCallCompletion' = 1
             PROVE  \E m \in Nat :
                      /\ m = Len(queue')
                      /\ \A i \in 0 .. m : Cardinality(Held(i)') <= Places
                      /\ Held(m)' \subseteq Active'
  BY <1>2
<1>5. CASE SourceStep
  <2>0. Next /\ UNCHANGED routerVars /\ Router!Mapped' = Router!Mapped
    BY <1>5, RouterRests DEF SourceStep
  <2>1. /\ \A i \in 0 .. n : Cardinality(Held(i)) <= Places
        /\ Held(n) \subseteq Active
    BY <1>1, <1>4, <2>0, RouterRests DEF QueueFits
  <2>2. CASE Quiet
    <3>1. queue' = queue /\ Active' = Active
      BY <1>1, <1>5, <2>2, SourceQueue DEF Quiet
    <3>2. \A i : Held(i)' = Held(i)
      BY <2>0, <3>1 DEF Held, Speech, Ending
    <3>. QED
      BY <1>4, <2>1, <3>1, <3>2
  <2>3. ASSUME NEW t, Speaks(t) \/ Ends(t)
        PROVE  /\ n + 1 = Len(queue')
               /\ \A i \in 0 .. n + 1 : Cardinality(Held(i)') <= Places
               /\ Held(n + 1)' \subseteq Active'
    <3>1. t \in QueueTuple /\ queue' = Append(queue, t)
      BY <1>1, <1>5, <2>3, SourceQueue
    <3>2. /\ Len(queue') = n + 1
          /\ \A i \in 0 .. n : Held(i)' = Held(i)
          /\ t.kind = "speech" => Held(n + 1)' \subseteq Held(n) \union {t.session}
          /\ t.kind = "end" => Held(n + 1)' \subseteq Held(n) \ {t.session}
      BY <1>1, <1>4, <2>0, <3>1, HeldJoined
    <3>3. Held(n + 1)' \subseteq Active'
      BY <2>1, <2>3, <3>2 DEF Speaks, Ends
    <3>4. Active' \in SUBSET Session /\ Cardinality(Active') <= Places
      BY <1>0, <1>2 DEF Inv, ActiveCountsCalls, Active
    <3>5. Cardinality(Held(n + 1)') <= Places
      BY <3>3, <3>4, FewerFit
    <3>6. \A i \in 0 .. n + 1 : i \in 0 .. n \/ i = n + 1
      OBVIOUS
    <3>. QED
      BY <2>1, <3>2, <3>3, <3>5, <3>6
  <2>. QED
    BY <1>0, <1>1, <2>0, <2>2, <2>3, SourceTuples
<1>6. CASE RouterStep
  <2>1. Active' = Active
    BY <1>6 DEF RouterStep, vars, callVars, Active, Live
  <2>2. numberOfEocsNeededForVoiceCallCompletion = 1
    BY <1>1, <1>6, HeadTaken, TupleHandled DEF RouterStep
  <2>3. /\ \A i \in 0 .. n : Cardinality(Held(i)) <= Places
        /\ Held(n) \subseteq Active
    BY <1>1, <1>4, <2>2 DEF QueueFits
  <2>4. n # 0 /\ n - 1 \in Nat /\ Len(queue') = n - 1
    BY <1>1, <1>4, <1>6, HeadTaken
  <2>5. \A i \in 0 .. n - 1 : Held(i)' \subseteq Held(i + 1)
    BY <1>1, <1>4, <1>6, <2>2, HeldHandled
  <2>6. Held(n - 1)' \subseteq Active'
    BY <2>1, <2>3, <2>4, <2>5
  <2>7. ASSUME NEW i \in 0 .. n - 1 PROVE Cardinality(Held(i)') <= Places
    <3>1. i + 1 \in 0 .. n
      BY <2>4
    <3>. QED
      BY <1>3, <2>3, <2>5, <3>1, FewerFit
  <2>. QED
    BY <2>4, <2>6, <2>7
<1>. QED
  BY <1>5, <1>6 DEF RoutedNext

-----------------------------------------------------------------------------
(* What is known of the source and of the router at every step.            *)
BothStates == Inv /\ Handles /\ Lists /\ TuplesCarryCallNumber /\ RouterState

LEMMA BothCorrect ==
  ASSUME vgwStaleSessionPurgeInterval = 0
  PROVE  RoutedSpec => []BothStates
<1>1. HandlesAndPhones => Handles
  BY DEF HandlesAndPhones
<1>2. Spec => []Lists
  BY ListsCorrect
<1>3. Spec => []TuplesCarryCallNumber
  BY NumbersOnTuples
<1>. QED
  BY <1>1, <1>2, <1>3, SourceAlone, InvCorrect, HandlesCorrect, RouterCorrect, PTL
  DEF BothStates

LEMMA QueueCorrect ==
  ASSUME vgwStaleSessionPurgeInterval = 0
  PROVE  RoutedSpec => []QueueOK
<1>1. RoutedInit => QueueOK
  <2> SUFFICES ASSUME RoutedInit PROVE QueueOK
    OBVIOUS
  <2>1. queue = <<>> /\ Router!Mapped = {}
    BY DEF RoutedInit, Router!Init, Router!Mapped
  <2>2. Len(queue) = 0 /\ queue \in Seq(QueueTuple)
    BY <2>1
  <2>. QED
    BY <2>1, <2>2 DEF QueueOK, Over
<1>2. BothStates /\ BothStates' /\ QueueOK /\ [RoutedNext]_routedVars => QueueOK'
  <2>1. ASSUME BothStates, BothStates', QueueOK, RoutedNext PROVE QueueOK'
    BY <2>1, QueueOKStep DEF BothStates
  <2>2. ASSUME QueueOK, UNCHANGED routedVars PROVE QueueOK'
    BY <2>2, RouterRests
    DEF routedVars, vars, callVars, QueueOK, QueueTuple, Over, Speech, Ending, Active, Live
  <2>. QED
    BY <2>1, <2>2
<1>3. RoutedSpec => []BothStates
  BY BothCorrect
<1>. QED
  BY <1>1, <1>2, <1>3, PTL DEF RoutedSpec

(* No place is kept for a call that is over: with an empty queue, a        *)
(* session the source does not have and the router has lacks one of the    *)
(* two signals that are needed, and has the other.                         *)
THEOREM PlacesComeBack == RoutedSpec => []PlacesGivenBack
<1>1. CASE vgwStaleSessionPurgeInterval = 0
  <2>1. QueueOK /\ RouterState => PlacesGivenBack
    <3> SUFFICES ASSUME QueueOK, RouterState, queue = <<>>, shutdown # "cleared",
                        NEW s \in Router!Mapped \ Live
                 PROVE  /\ numberOfEocsNeededForVoiceCallCompletion = 2
                        /\ Router!CompletedOf(s) \notin {{}, Router!keysOf(s)}
      BY DEF PlacesGivenBack
    <3>1. Over(s) /\ Len(queue) = 0
      BY DEF QueueOK, Active
    <3>2. Router!CompletedOf(s) # {}
      BY <3>1 DEF Over
    <3>. QED
      BY <3>2, SameNames DEF RouterState, RouterProofs!NoKeysLeft
  <2>2. RoutedSpec => []QueueOK
    BY <1>1, QueueCorrect
  <2>. QED
    BY <2>1, <2>2, RouterCorrect, PTL
<1>2. CASE vgwStaleSessionPurgeInterval # 0
  <2>1. PlacesGivenBack
    BY <1>2 DEF PlacesGivenBack
  <2>. QED
    BY <2>1, PTL
<1>. QED
  BY <1>1, <1>2

(* Where one signal completes a call and the source admits no more calls   *)
(* than the processors have places, every speech the router takes from the *)
(* queue is of a call it has, or finds a place.                            *)
THEOREM CallsNotRefused == RoutedSpec => []NoCallRefused
<1> DEFINE LimitsFit == \A n \in Limits \union {InitialMaxConcurrentCalls} : n <= Places
<1>1. CASE vgwStaleSessionPurgeInterval = 0 /\ LimitsFit
  <2>1. RoutedInit => QueueFits
    <3> SUFFICES ASSUME RoutedInit PROVE QueueFits
      OBVIOUS
    <3>1. /\ queue = <<>> /\ Router!Mapped = {} /\ activeConcurrentCallsCnt = 0
          /\ maxConcurrentCallsAllowed = InitialMaxConcurrentCalls
      BY DEF RoutedInit, Router!Init, Router!Mapped, Init
    <3>2. Places \in Nat
      BY SizesOfRouter DEF Places
    <3>3. Len(queue) = 0 /\ Held(0) = {}
      BY <3>1 DEF Held
    <3>4. \A i \in 0 .. 0 : Cardinality(Held(i)) = 0
      BY <3>3, FS_EmptySet
    <3>. QED
      BY <3>1, <3>2, <3>3, <3>4 DEF QueueFits
  <2>2. BothStates /\ BothStates' /\ QueueOK /\ QueueFits /\ [RoutedNext]_routedVars => QueueFits'
    <3>1. ASSUME BothStates, BothStates', QueueOK, QueueFits, RoutedNext PROVE QueueFits'
      BY <1>1, <3>1, QueueFitsStep DEF BothStates
    <3>2. ASSUME QueueFits, UNCHANGED routedVars PROVE QueueFits'
      BY <3>2, RouterRests
      DEF routedVars, vars, callVars, QueueFits, Held, Speech, Ending, Active, Live, Places
    <3>. QED
      BY <3>1, <3>2
  <2>3. RouterState /\ QueueOK /\ QueueFits => NoCallRefused
    <3> SUFFICES ASSUME RouterState, QueueOK, QueueFits,
                        numberOfEocsNeededForVoiceCallCompletion = 1,
                        shutdown # "cleared", queue # <<>>, Head(queue).kind = "speech",
                        Head(queue).session \notin Router!Mapped
                 PROVE  \E p \in Router!Processor : Router!ChosenFor(p)
      BY DEF NoCallRefused
    <3>1. PICK s : s = Head(queue).session
      OBVIOUS
    <3>2. /\ Len(queue) \in Nat \ {0} /\ Head(queue) = queue[1]
          /\ Head(queue) \in QueueTuple /\ Router!Mapped \subseteq Session
      BY HeadTailProperties DEF QueueOK
    <3>3. s \in Session /\ Speech(s, 1) /\ ~Ending(s, 1)
      BY <3>1, <3>2 DEF QueueTuple, Speech, Ending
    <3>4. ASSUME NEW x \in Router!Mapped PROVE x \in Held(1)
      <4>1. x \in Session /\ ~Ending(x, 1)
        BY <3>2 DEF Ending
      <4>. QED
        BY <4>1 DEF Held
    <3>5. s \in Held(1)
      BY <3>3 DEF Held
    <3>6. Router!Mapped \union {s} \subseteq Held(1) /\ Held(1) \subseteq Session
      BY <3>4, <3>5 DEF Held
    <3>7. Cardinality(Held(1)) <= Places
      BY <3>2 DEF QueueFits
    <3>8. Cardinality(Router!Mapped \union {s}) <= Places
      BY <3>6, <3>7, FewerFit
    <3>9. Cardinality(Router!Mapped \union {s}) = Cardinality(Router!Mapped) + 1
      BY <3>1, <3>2, SessionsAreFinite, FS_Subset, FS_AddElement
    <3>10. Cardinality(Router!Mapped) \in Nat /\ Places \in Nat
      BY <3>2, SessionsAreFinite, FS_Subset, FS_CardinalityType, SizesOfRouter DEF Places
    <3>11. Cardinality(Router!Mapped) < Places
      BY <3>8, <3>9, <3>10
    <3>12. RouterProofs!SizesOfDeployment
      BY SizesOfRouter DEF RouterProofs!SizesOfDeployment
    <3>13. Cardinality(Router!Mapped) = RouterProofs!Cardinality(RouterProofs!Mapped)
      BY SameNames DEF Cardinality, RouterProofs!Cardinality
    <3>14. \E p \in RouterProofs!Processor : RouterProofs!ChosenFor(p)
      BY <3>11, <3>12, <3>13, RouterProofs!PlaceFound DEF RouterState, Places
    <3>. QED
      BY <3>14, SameNames
  <2>4. RoutedSpec => []QueueOK
    BY <1>1, QueueCorrect
  <2>5. RoutedSpec => []BothStates
    BY <1>1, BothCorrect
  <2>6. BothStates => RouterState
    BY DEF BothStates
  <2>. QED
    BY <2>1, <2>2, <2>3, <2>4, <2>5, <2>6, PTL DEF RoutedSpec
<1>2. CASE ~(vgwStaleSessionPurgeInterval = 0 /\ LimitsFit)
  <2>1. NoCallRefused
    BY <1>2 DEF NoCallRefused
  <2>. QED
    BY <2>1, PTL
<1>. QED
  BY <1>1, <1>2
=============================================================================
