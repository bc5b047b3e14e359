-------------------- MODULE IBMVoiceGatewaySourceProofs --------------------
(***************************************************************************)
(* The bookkeeping of IBMVoiceGatewaySource is right for any number of     *)
(* connections and sessions, with and without purging.                     *)
(***************************************************************************)
EXTENDS IBMVoiceGatewaySource, FiniteSetTheorems, TLAPS

(* Metadata is well formed, and a started connection has the id of a       *)
(* session.                                                                *)
StartedHaveSession ==
  /\ now \in Nat
  /\ \A c \in DOMAIN client_connections_map :
       /\ client_connections_map[c] \in Metadata
       /\ client_connections_map[c].vgwSessionStatus = "started" => sessionOf(c) \in Session

(* The count is never below the number of live calls that are not          *)
(* throttled, not even after the maps were cleared under its feet.         *)
CountIsEnough ==
  /\ activeConcurrentCallsCnt \in Nat
  /\ activeConcurrentCallsCnt >= Cardinality(Live \ callsBeingThrottledMap)

Inv ==
  /\ Live \subseteq Session
  /\ callSequenceNumber \in Nat
  /\ StartedHaveSession
  /\ CountIsEnough
  /\ ThrottledCallsLive
  /\ ActiveCountsCalls
  /\ LiveCallsHaveOwnNumbers

-----------------------------------------------------------------------------
(* A packet leaves the metadata of its connection well formed.             *)
LEMMA PacketKeepsMetadata ==
  ASSUME NEW md \in Metadata, NEW channel \in {0, 1, 2}
  PROVE  LET after == [md EXCEPT !.speechPacketsReceivedCnt = @ + 1,
                                 !.vgwVoiceChannelNumber = channel]
         IN  after \in Metadata /\ after.vgwSessionId = md.vgwSessionId
<1> DEFINE counted == [md EXCEPT !.speechPacketsReceivedCnt = @ + 1]
           after   == [counted EXCEPT !.vgwVoiceChannelNumber = channel]
<1>1. counted \in Metadata /\ counted.vgwSessionId = md.vgwSessionId
  BY DEF Metadata
<1>2. after \in Metadata /\ after.vgwSessionId = counted.vgwSessionId
  <2>. HIDE DEF counted
  <2>. QED
    BY <1>1 DEF Metadata
<1>3. after = [md EXCEPT !.speechPacketsReceivedCnt = @ + 1,
                         !.vgwVoiceChannelNumber = channel]
  OBVIOUS
<1>. QED
  BY <1>1, <1>2, <1>3

(* What one packet does to the set of live calls and to the count.         *)
LEMMA NewCallCounts ==
  ASSUME NEW L \in SUBSET Session, NEW T, NEW s \in Session \ L, s \notin T
  PROVE  /\ Cardinality((L \union {s}) \ T) = Cardinality(L \ T) + 1
         /\ Cardinality(L \ T) \in Nat
<1>1. IsFiniteSet(L \ T)
  BY SessionsAreFinite, FS_Subset
<1>2. (L \union {s}) \ T = (L \ T) \union {s}
  OBVIOUS
<1>. QED
  BY <1>1, <1>2, FS_AddElement, FS_CardinalityType

(* What a handler that removes calls does to them.                         *)
LEMMA LeavingCounts ==
  ASSUME NEW L \in SUBSET Session, NEW T, NEW G \in SUBSET L
  PROVE  /\ Cardinality((L \ G) \ (T \ G)) = Cardinality(L \ T) - Cardinality(G \ T)
         /\ Cardinality(G \ T) \in Nat
         /\ Cardinality(L \ T) \in Nat
<1>1. IsFiniteSet(L \ T) /\ IsFiniteSet(G \ T)
  BY SessionsAreFinite, FS_Subset
<1>2. (L \ G) \ (T \ G) = (L \ T) \ (G \ T)
  OBVIOUS
<1>3. (L \ T) \intersect (G \ T) = G \ T
  OBVIOUS
<1>4. Cardinality(L \ T) \in Nat /\ Cardinality(G \ T) \in Nat
  BY <1>1, FS_CardinalityType
<1>5. Cardinality((L \ T) \ (G \ T))
        = Cardinality(L \ T) - Cardinality((L \ T) \intersect (G \ T))
  BY <1>1, FS_Difference
<1>. QED
  BY <1>2, <1>3, <1>4, <1>5

(* The calls that leave are live ones, and the rest stay with their        *)
(* numbers.                                                                *)
LEMMA CloseKeepsTheRest ==
  ASSUME NEW c, CloseKnown(c)
  PROVE  /\ Leaving(c) \subseteq Live
         /\ Live' = Live \ Leaving(c)
         /\ \A s \in Live' : s \in DOMAIN call_sequence_number_map =>
              /\ s \in DOMAIN call_sequence_number_map'
              /\ call_sequence_number_map'[s] = call_sequence_number_map[s]
<1>1. Ended(c) \subseteq Live
  BY DEF Ended, CallEnds, LegEnds, Live
<1>2. DOMAIN SessionsAfterLeg(c) = Live \ Ended(c)
  BY DEF SessionsAfterLeg, Ended, Erase, Live
<1>3. StaleSessions(c) \subseteq Live \ Ended(c)
  BY <1>2 DEF StaleSessions
<1>4. Leaving(c) \subseteq Live
  BY <1>1, <1>3 DEF Leaving
<1>5. Live' = Live \ Leaving(c)
  BY <1>2 DEF CloseKnown, Erase, Live, Leaving
<1>6. ASSUME NEW s \in Live', s \in DOMAIN call_sequence_number_map
      PROVE  /\ s \in DOMAIN call_sequence_number_map'
             /\ call_sequence_number_map'[s] = call_sequence_number_map[s]
  BY <1>5, <1>6 DEF CloseKnown, ReadBy, NumbersAfter, Erase
<1>. QED
  BY <1>4, <1>5, <1>6

-----------------------------------------------------------------------------
(* The invariant that makes the count exact is inductive.                  *)
THEOREM InvCorrect == Spec => []Inv
<1>1. Init => Inv
  <2> SUFFICES ASSUME Init PROVE Inv
    OBVIOUS
  <2>1. Live = {} /\ Live \ callsBeingThrottledMap = {} /\ DOMAIN client_connections_map = {}
    BY DEF Init, EmptyMap, Live
  <2>. QED
    BY <2>1, FS_EmptySet
    DEF Init, Inv, StartedHaveSession, CountIsEnough, ThrottledCallsLive,
        ActiveCountsCalls, LiveCallsHaveOwnNumbers
<1>2. Inv /\ [Next]_vars => Inv'
  <2> SUFFICES ASSUME Inv, [Next]_vars PROVE Inv'
    OBVIOUS
  <2> DEFINE Calm == UNCHANGED <<callVars, shutdown>>
  <2>1. ASSUME Calm, StartedHaveSession' PROVE Inv'
    BY <2>1 DEF Inv, CountIsEnough, ThrottledCallsLive, ActiveCountsCalls,
                LiveCallsHaveOwnNumbers, Live, callVars
  <2>2. ASSUME UNCHANGED client_connections_map, now' \in Nat PROVE StartedHaveSession'
    BY <2>2 DEF Inv, StartedHaveSession, sessionOf
  <2>3. ASSUME NEW c \in Connection, OnOpen(c) PROVE Inv'
    <3>1. ASSUME NEW d \in DOMAIN client_connections_map'
          PROVE  /\ client_connections_map'[d] \in Metadata
                 /\ client_connections_map'[d].vgwSessionStatus = "started"
                      => client_connections_map'[d].vgwSessionId \in Session
      <4>1. CASE d = c
        <5> DEFINE opened == [vgwSessionStatus         |-> "opened",
                              vgwSessionStartTime      |-> now,
                              speechPacketsReceivedCnt |-> 0,
                              vgwSessionId             |-> NoSession,
                              vgwIsCaller              |-> FALSE,
                              vgwVoiceChannelNumber    |-> 0]
        <5>1. client_connections_map'[d] = opened
          BY <2>3, <4>1 DEF OnOpen, Put
        <5>2. opened \in Metadata
          BY DEF Metadata, Inv, StartedHaveSession
        <5>. QED
          BY <5>1, <5>2
      <4>2. CASE d # c
        <5>1. /\ d \in DOMAIN client_connections_map
              /\ client_connections_map'[d] = client_connections_map[d]
          BY <2>3, <3>1, <4>2 DEF OnOpen, Put
        <5>. QED
          BY <5>1 DEF Inv, StartedHaveSession, sessionOf
      <4>. QED
        BY <4>1, <4>2
    <3>2. StartedHaveSession'
      BY <2>3, <3>1 DEF OnOpen, timeVars, Inv, StartedHaveSession, sessionOf
    <3>. QED
      BY <2>1, <2>3, <3>2 DEF OnOpen
  <2>4. ASSUME NEW c \in Connection, NEW s \in Session, NEW isCaller \in BOOLEAN,
               OnStart(c, s, isCaller)
        PROVE  Inv'
    <3>1. StartedHaveSession'
      BY <2>4 DEF OnStart, Known, Inv, StartedHaveSession, sessionOf, Metadata, timeVars
    <3>. QED
      BY <2>1, <2>4, <3>1 DEF OnStart
  <2>5. ASSUME NEW c \in Connection, OnEmptySpeech(c) PROVE Inv'
    BY <2>1, <2>2, <2>5 DEF OnEmptySpeech, Inv, StartedHaveSession, timeVars
  <2>6. ASSUME NEW c \in Connection, OnSpeech(c) PROVE Inv'
    <3> DEFINE s == sessionOf(c)
    <3>1. s \in Session
      BY <2>6 DEF OnSpeech, Known, Inv, StartedHaveSession
    <3>2. PICK channel \in {0, 1, 2} :
            /\ Admit(c, s, channel)
            /\ client_connections_map' =
                 [client_connections_map EXCEPT
                    ![c].speechPacketsReceivedCnt = @ + 1,
                    ![c].vgwVoiceChannelNumber = channel]
      BY <2>6 DEF OnSpeech, sessionOf
    <3>3. StartedHaveSession'
      <4> DEFINE md == client_connections_map[c]
                 after == [md EXCEPT !.speechPacketsReceivedCnt = @ + 1,
                                     !.vgwVoiceChannelNumber = channel]
      <4>1. /\ c \in DOMAIN client_connections_map
            /\ md \in Metadata
            /\ md.vgwSessionId \in Session
        BY <2>6 DEF OnSpeech, Known, Inv, StartedHaveSession, sessionOf
      <4>2. after \in Metadata /\ after.vgwSessionId = md.vgwSessionId
        BY <4>1, PacketKeepsMetadata
      <4>3. ASSUME NEW d \in DOMAIN client_connections_map'
            PROVE  /\ d \in DOMAIN client_connections_map
                   /\ client_connections_map'[d]
                        = IF d = c THEN after ELSE client_connections_map[d]
        BY <3>2, <4>1
      <4>4. now' = now
        BY <2>6 DEF OnSpeech, timeVars
      <4>. QED
        BY <4>1, <4>2, <4>3, <4>4 DEF Inv, StartedHaveSession, sessionOf
    <3>4. CASE NewCall(c, s) /\ s \notin Live
      <4>1. Live' = Live \union {s}
        BY <3>4 DEF NewCall, Put, Live
      <4>2. callSequenceNumber' = callSequenceNumber + 1
        BY <3>4 DEF NewCall
      <4>3. LiveCallsHaveOwnNumbers'
        <5>1. /\ DOMAIN call_sequence_number_map' = DOMAIN call_sequence_number_map \union {s}
              /\ call_sequence_number_map'[s] = callSequenceNumber + 1
              /\ \A t \in DOMAIN call_sequence_number_map \ {s} :
                   call_sequence_number_map'[t] = call_sequence_number_map[t]
          BY <3>4 DEF NewCall, Put
        <5>. QED
          BY <3>4, <4>1, <4>2, <5>1 DEF LiveCallsHaveOwnNumbers, Inv
      <4>4. UNCHANGED shutdown
        BY <2>6 DEF OnSpeech
      <4>5. CASE LimitReached
        <5>1. /\ callsBeingThrottledMap' = callsBeingThrottledMap \union {s}
              /\ activeConcurrentCallsCnt' = activeConcurrentCallsCnt
          BY <3>4, <4>5 DEF NewCall
        <5>2. Live' \ callsBeingThrottledMap' = Live \ callsBeingThrottledMap
          BY <3>4, <4>1, <5>1
        <5>. QED
          BY <3>1, <3>3, <4>1, <4>2, <4>3, <4>4, <5>1, <5>2
          DEF Inv, CountIsEnough, ThrottledCallsLive, ActiveCountsCalls
      <4>6. CASE ~LimitReached
        <5>1. /\ callsBeingThrottledMap' = callsBeingThrottledMap
              /\ activeConcurrentCallsCnt' = activeConcurrentCallsCnt + 1
          BY <3>4, <4>6 DEF NewCall
        <5>2. CASE s \notin callsBeingThrottledMap
          <6>1. /\ Cardinality(Live' \ callsBeingThrottledMap')
                     = Cardinality(Live \ callsBeingThrottledMap) + 1
                /\ Cardinality(Live \ callsBeingThrottledMap) \in Nat
            BY <3>1, <3>4, <4>1, <5>1, <5>2, NewCallCounts DEF Inv
          <6>. QED
            BY <3>1, <3>3, <4>1, <4>2, <4>3, <4>4, <5>1, <6>1
            DEF Inv, CountIsEnough, ThrottledCallsLive, ActiveCountsCalls
        <5>3. CASE s \in callsBeingThrottledMap
          <6>1. shutdown = "cleared"
            BY <3>4, <5>3 DEF Inv, ThrottledCallsLive
          <6>2. Live' \ callsBeingThrottledMap' = Live \ callsBeingThrottledMap
            BY <4>1, <5>1, <5>3
          <6>3. Cardinality(Live \ callsBeingThrottledMap) \in Nat
            BY SessionsAreFinite, FS_Subset, FS_CardinalityType DEF Inv
          <6>. QED
            BY <3>1, <3>3, <4>1, <4>2, <4>3, <4>4, <5>1, <6>1, <6>2, <6>3
            DEF Inv, CountIsEnough, ThrottledCallsLive, ActiveCountsCalls
        <5>. QED
          BY <5>2, <5>3
      <4>. QED
        BY <4>5, <4>6
    <3>5. CASE JoinCall(c, s) \/ ContinueCall(s)
      <4>1. /\ Live' = Live
            /\ UNCHANGED <<callSequenceNumber, activeConcurrentCallsCnt,
                           callsBeingThrottledMap, shutdown>>
        BY <2>6, <3>5 DEF OnSpeech, JoinCall, ContinueCall, Live
      <4>2. \A t \in DOMAIN call_sequence_number_map :
              /\ t \in DOMAIN call_sequence_number_map'
              /\ call_sequence_number_map'[t] = call_sequence_number_map[t]
        BY <3>5 DEF JoinCall, ContinueCall, ReadBy
      <4>. QED
        BY <3>3, <4>1, <4>2 DEF Inv, CountIsEnough, ThrottledCallsLive, ActiveCountsCalls,
                                LiveCallsHaveOwnNumbers
    <3>. QED
      BY <3>2, <3>4, <3>5 DEF Admit, Live
  <2>7. ASSUME NEW c \in Connection, OnClose(c) PROVE Inv'
    <3>1. CASE CloseKnown(c)
      <4>1. StartedHaveSession'
        BY <2>7, <3>1 DEF OnClose, CloseKnown, Erase, Inv, StartedHaveSession, sessionOf
      <4>2. /\ Leaving(c) \subseteq Live
            /\ Live' = Live \ Leaving(c)
            /\ \A s \in Live' : s \in DOMAIN call_sequence_number_map =>
                 /\ s \in DOMAIN call_sequence_number_map'
                 /\ call_sequence_number_map'[s] = call_sequence_number_map[s]
        BY <3>1, CloseKeepsTheRest
      <4>3. /\ callsBeingThrottledMap' = callsBeingThrottledMap \ Leaving(c)
            /\ activeConcurrentCallsCnt' =
                 activeConcurrentCallsCnt - Cardinality(Leaving(c) \ callsBeingThrottledMap)
            /\ UNCHANGED <<callSequenceNumber, shutdown>>
        BY <2>7, <3>1 DEF OnClose, CloseKnown, ThrottledAfter, ActiveLeaving
      <4>4. /\ Cardinality(Live' \ callsBeingThrottledMap')
                 = Cardinality(Live \ callsBeingThrottledMap)
                   - Cardinality(Leaving(c) \ callsBeingThrottledMap)
            /\ Cardinality(Leaving(c) \ callsBeingThrottledMap) \in Nat
            /\ Cardinality(Live \ callsBeingThrottledMap) \in Nat
            /\ Cardinality(Live' \ callsBeingThrottledMap') \in Nat
        <5>1. Live \in SUBSET Session /\ Leaving(c) \in SUBSET Live
          BY <4>2 DEF Inv
        <5>2. IsFiniteSet(Live' \ callsBeingThrottledMap')
          BY <4>2, <5>1, SessionsAreFinite, FS_Subset
        <5>. QED
          BY <4>2, <4>3, <5>1, <5>2, LeavingCounts, FS_CardinalityType
      <4>5. LiveCallsHaveOwnNumbers'
        BY <4>2, <4>3 DEF Inv, LiveCallsHaveOwnNumbers
      <4>6. ThrottledCallsLive'
        BY <4>2, <4>3 DEF Inv, ThrottledCallsLive
      <4>. QED
        BY <4>1, <4>2, <4>3, <4>4, <4>5, <4>6 DEF Inv, CountIsEnough, ActiveCountsCalls
    <3>2. CASE CloseUnknown(c)
      BY <2>1, <2>2, <2>7, <3>2 DEF OnClose, CloseUnknown, Inv, StartedHaveSession
    <3>. QED
      BY <2>7, <3>1, <3>2 DEF OnClose
  <2>8. ASSUME NEW n \in Limits, OnSetMaxConcurrentCalls(n) PROVE Inv'
    BY <2>1, <2>2, <2>8 DEF OnSetMaxConcurrentCalls, Inv, StartedHaveSession, timeVars
  <2>9. CASE Tick
    BY <2>1, <2>2, <2>9 DEF Tick, Inv, StartedHaveSession
  <2>10. CASE CloseConnections
    BY <2>2, <2>10
    DEF CloseConnections, Inv, StartedHaveSession, timeVars, CountIsEnough,
        ThrottledCallsLive, ActiveCountsCalls,
        LiveCallsHaveOwnNumbers, Live, callVars
  <2>11. CASE ClearMaps
    <3>1. Live' = {} /\ DOMAIN client_connections_map' = {}
      BY <2>11 DEF ClearMaps, EmptyMap, Live
    <3>2. Cardinality(Live' \ callsBeingThrottledMap') = 0
      BY <3>1, FS_EmptySet
    <3>. QED
      BY <2>11, <3>1, <3>2
      DEF ClearMaps, timeVars, Inv, StartedHaveSession, CountIsEnough, ThrottledCallsLive,
          ActiveCountsCalls, LiveCallsHaveOwnNumbers
  <2>12. CASE UNCHANGED vars
    BY <2>1, <2>2, <2>12 DEF vars, timeVars, Inv, StartedHaveSession
  <2>. QED
    BY <2>3, <2>4, <2>5, <2>6, <2>7, <2>8, <2>9, <2>10, <2>11, <2>12 DEF Next
<1>3. QED
  BY <1>1, <1>2, PTL DEF Spec

(* The count that admission depends on is exact.                           *)
THEOREM ActiveCountExact == Spec => []ActiveCountsCalls
<1>1. Inv => ActiveCountsCalls
  BY DEF Inv
<1>. QED
  BY <1>1, InvCorrect, PTL

(* No session id stays throttled after its call.                           *)
THEOREM ThrottlingEnds == Spec => []ThrottledCallsLive
<1>1. Inv => ThrottledCallsLive
  BY DEF Inv
<1>. QED
  BY <1>1, InvCorrect, PTL

(* Live calls have numbers of their own.                                   *)
THEOREM NumbersUnique == Spec => []LiveCallsHaveOwnNumbers
<1>1. Inv => LiveCallsHaveOwnNumbers
  BY DEF Inv
<1>. QED
  BY <1>1, InvCorrect, PTL

-----------------------------------------------------------------------------
(* Counters and maps decide on calls like CallAdmission.                   *)

(* CallAdmission counts with the same operator.                            *)
LEMMA SameCardinality == \A S : Admission!Cardinality(S) = Cardinality(S)
BY DEF Admission!Cardinality, Cardinality

(* A handler that submits no speech and touches no call.                   *)
LEMMA CalmStep ==
  ASSUME UNCHANGED <<Live, callsBeingThrottledMap, shutdown, maxConcurrentCallsAllowed>>,
         Heard' = {}
  PROVE  Admission!Leave({})
<1>1. LiveUncleared' = LiveUncleared /\ Refused' = Refused
  BY DEF LiveUncleared, Refused, Cleared
<1>. QED
  BY <1>1 DEF Admission!Leave

(* The first packet of a leg begins its call, every other one continues    *)
(* it.                                                                     *)
LEMMA SpeechAdmission ==
  ASSUME Inv, NEW c \in Connection, OnSpeech(c), ~Cleared
  PROVE  Admission!Next
<1>1. PICK s : s = sessionOf(c)
  OBVIOUS
<1>2. s \in Session
  BY <1>1 DEF OnSpeech, Known, Inv, StartedHaveSession
<1>3. /\ \E channel \in {0, 1, 2} :
           /\ Admit(c, s, channel)
           /\ out' = IF s \in callsBeingThrottledMap' THEN {}
                     ELSE {Tuple("speech", s, call_sequence_number_map'[s], channel)}
      /\ UNCHANGED <<maxConcurrentCallsAllowed, shutdown>>
  BY <1>1 DEF OnSpeech, sessionOf
<1>4. ~Cleared'
  BY <1>3 DEF Cleared
<1>5. Heard' = IF s \in callsBeingThrottledMap' THEN {} ELSE {s}
  <2>1. CASE s \in callsBeingThrottledMap'
    BY <1>3, <2>1 DEF Heard
  <2>2. CASE s \notin callsBeingThrottledMap'
    <3>1. PICK o : o.kind = "speech" /\ o.session = s /\ out' = {o}
      BY <1>3, <2>2 DEF Tuple
    <3>. QED
      BY <1>4, <2>2, <3>1 DEF Heard
  <2>. QED
    BY <2>1, <2>2
<1>6. /\ LiveUncleared = Live /\ LiveUncleared' = Live'
      /\ Refused = callsBeingThrottledMap
      /\ Refused' = callsBeingThrottledMap'
  BY <1>4 DEF LiveUncleared, Refused
<1>7. CASE NewCall(c, s) /\ s \notin Live
  <2>1. Live' = Live \union {s}
    BY <1>7 DEF NewCall, Put, Live
  <2>2. s \notin callsBeingThrottledMap
    BY <1>7 DEF Inv, ThrottledCallsLive, Cleared
  <2>3. LimitReached <=> Admission!Full
    BY <1>6, SameCardinality
    DEF LimitReached, Admission!Full, Admission!admitted, Inv, ActiveCountsCalls, Cleared
  <2>4. CASE LimitReached
    <3>1. callsBeingThrottledMap' = callsBeingThrottledMap \union {s}
      BY <1>7, <2>4 DEF NewCall
    <3>2. Admission!Refuse(s)
      BY <1>3, <1>5, <1>6, <1>7, <2>1, <2>2, <2>3, <2>4, <3>1 DEF Admission!Refuse
    <3>. QED
      BY <1>2, <3>2 DEF Admission!Next
  <2>5. CASE ~LimitReached
    <3>1. callsBeingThrottledMap' = callsBeingThrottledMap
      BY <1>7, <2>5 DEF NewCall
    <3>2. Admission!Admit(s)
      BY <1>3, <1>5, <1>6, <1>7, <2>1, <2>2, <2>3, <2>5, <3>1 DEF Admission!Admit
    <3>. QED
      BY <1>2, <3>2 DEF Admission!Next
  <2>. QED
    BY <2>4, <2>5
<1>8. CASE JoinCall(c, s) \/ ContinueCall(s)
  <2>1. Live' = Live /\ callsBeingThrottledMap' = callsBeingThrottledMap
    BY <1>8 DEF JoinCall, ContinueCall, Live
  <2>2. CASE s \in callsBeingThrottledMap
    <3>1. Admission!Leave({})
      BY <1>3, <1>5, <2>1, <2>2, CalmStep
    <3>. QED
      BY <3>1 DEF Admission!Next
  <2>3. CASE s \notin callsBeingThrottledMap
    <3>1. Admission!Speak(s)
      BY <1>3, <1>5, <1>6, <2>1, <2>3 DEF Admission!Speak
    <3>. QED
      BY <1>2, <3>1 DEF Admission!Next
  <2>. QED
    BY <2>2, <2>3
<1>. QED
  BY <1>3, <1>7, <1>8 DEF Admit, Live

(* The end of a leg and the purge that follows let calls leave, in one     *)
(* step.                                                                   *)
LEMMA CloseAdmission ==
  ASSUME Inv, NEW c \in Connection, OnClose(c), ~Cleared
  PROVE  Admission!Next
<1>1. UNCHANGED <<maxConcurrentCallsAllowed, shutdown>>
  BY DEF OnClose
<1>2. CASE CloseKnown(c)
  <2>1. Leaving(c) \in SUBSET Session /\ Live' = Live \ Leaving(c)
    BY <1>2, CloseKeepsTheRest DEF Inv
  <2>2. callsBeingThrottledMap' = callsBeingThrottledMap \ Leaving(c)
    BY <1>2 DEF CloseKnown, ThrottledAfter
  <2>3. \A o \in out' : o.kind = "end"
    BY <1>2 DEF CloseKnown, LegSignal, SessionSignals, ConnectionSignals, Tuple
  <2>4. Heard' = {}
    BY <2>3 DEF Heard
  <2>5. Admission!Leave(Leaving(c))
    BY <1>1, <2>1, <2>2, <2>4 DEF Admission!Leave, LiveUncleared, Refused, Cleared
  <2>. QED
    BY <2>1, <2>5 DEF Admission!Next
<1>3. CASE CloseUnknown(c)
  <2>1. Admission!Leave({})
    BY <1>1, <1>3, CalmStep DEF CloseUnknown, callVars, Live, Heard
  <2>. QED
    BY <2>1 DEF Admission!Next
<1>. QED
  BY <1>2, <1>3 DEF OnClose

(* After the maps are cleared nothing is promised but the limit.           *)
LEMMA ClearedAdmission ==
  ASSUME Cleared, Next
  PROVE  Admission!Next
<1>1. Cleared'
  BY DEF Cleared, Next, OnOpen, OnStart, OnEmptySpeech, OnSpeech, OnClose,
         OnSetMaxConcurrentCalls, Tick, CloseConnections, ClearMaps
<1>2. /\ LiveUncleared = {} /\ Refused = {}
      /\ LiveUncleared' = {} /\ Refused' = {} /\ Heard' = {}
  BY <1>1 DEF LiveUncleared, Refused, Heard
<1>3. CASE \E n \in Limits : OnSetMaxConcurrentCalls(n)
  <2>1. Admission!SetLimit
    BY <1>2, <1>3, ParametersAreNumbers DEF OnSetMaxConcurrentCalls, Admission!SetLimit
  <2>. QED
    BY <2>1 DEF Admission!Next
<1>4. CASE UNCHANGED maxConcurrentCallsAllowed
  <2>1. Admission!Leave({})
    BY <1>2, <1>4 DEF Admission!Leave
  <2>. QED
    BY <2>1 DEF Admission!Next
<1>. QED
  BY <1>3, <1>4 DEF Next, OnOpen, OnStart, OnEmptySpeech, OnSpeech, OnClose, Tick,
                    CloseConnections, ClearMaps

(* Whether a call is ignored is decided once, by the number of calls that  *)
(* are admitted when it begins, and stands until the call leaves, with and *)
(* without purging.                                                        *)
THEOREM AdmissionCorrect == Spec => AdmissionSpec
<1>1. Init => Admission!Init
  <2> SUFFICES ASSUME Init PROVE Admission!Init
    OBVIOUS
  <2>1. Live = {} /\ out = {} /\ callsBeingThrottledMap = {} /\ ~Cleared
    BY DEF Init, EmptyMap, Live, Cleared
  <2>2. maxConcurrentCallsAllowed \in Nat
    BY ParametersAreNumbers DEF Init
  <2>. QED
    BY <2>1, <2>2 DEF Admission!Init, LiveUncleared, Refused, Heard
<1>2. Inv /\ [Next]_vars => [Admission!Next]_(Admission!vars)
  <2> SUFFICES ASSUME Inv, [Next]_vars
               PROVE  Admission!Next \/ UNCHANGED Admission!vars
    OBVIOUS
  <2>1. CASE UNCHANGED vars
    BY <2>1 DEF vars, callVars, Admission!vars, LiveUncleared, Refused, Heard, Cleared, Live
  <2>2. CASE Cleared /\ Next
    BY <2>2, ClearedAdmission
  <2>3. ASSUME ~Cleared, NEW c \in Connection, OnSpeech(c) \/ OnClose(c)
        PROVE  Admission!Next
    BY <2>3, SpeechAdmission, CloseAdmission
  <2>4. CASE ~Cleared /\ \E n \in Limits : OnSetMaxConcurrentCalls(n)
    <3>1. Admission!SetLimit
      BY <2>4, ParametersAreNumbers
      DEF OnSetMaxConcurrentCalls, Admission!SetLimit, callVars, LiveUncleared, Refused, Heard,
          Cleared, Live
    <3>. QED
      BY <3>1 DEF Admission!Next
  <2>5. ASSUME ~Cleared,
               \/ \E c \in Connection :
                    \/ OnOpen(c)
                    \/ \E s \in Session, isCaller \in BOOLEAN : OnStart(c, s, isCaller)
                    \/ OnEmptySpeech(c)
               \/ Tick
        PROVE  Admission!Next
    <3>1. /\ UNCHANGED <<Live, callsBeingThrottledMap, shutdown, maxConcurrentCallsAllowed>>
          /\ Heard' = {}
      BY <2>5 DEF OnOpen, OnStart, OnEmptySpeech, Tick, callVars, Live, Heard
    <3>2. Admission!Leave({})
      BY <3>1, CalmStep
    <3>. QED
      BY <3>2 DEF Admission!Next
  <2>6. CASE ~Cleared /\ CloseConnections
    <3>1. /\ ~Cleared' /\ Heard' = {}
          /\ UNCHANGED <<Live, callsBeingThrottledMap, maxConcurrentCallsAllowed>>
      BY <2>6 DEF CloseConnections, callVars, Live, Heard, Cleared
    <3>2. Admission!Leave({})
      BY <2>6, <3>1 DEF Admission!Leave, LiveUncleared, Refused
    <3>. QED
      BY <3>2 DEF Admission!Next
  <2>7. CASE ~Cleared /\ ClearMaps
    <3>1. Cleared' /\ UNCHANGED maxConcurrentCallsAllowed
      BY <2>7 DEF ClearMaps, Cleared
    <3>2. LiveUncleared \subseteq Session /\ Refused \subseteq Session
      BY <2>7 DEF LiveUncleared, Refused, Inv, ThrottledCallsLive, Cleared
    <3>3. Admission!Leave(Session)
      BY <3>1, <3>2 DEF Admission!Leave, LiveUncleared, Refused, Heard
    <3>. QED
      BY <3>3 DEF Admission!Next
  <2>. QED
    BY <2>1, <2>2, <2>3, <2>4, <2>5, <2>6, <2>7 DEF Next
<1>. QED
  BY <1>1, <1>2, InvCorrect, PTL DEF Spec, AdmissionSpec, Admission!Spec

-----------------------------------------------------------------------------
(* Handles and telephone numbers.                                          *)

(* A handle is in the map from its opening on, and has a session only when *)
(* it has started one; a number is kept for sessions that were started.    *)
Handles ==
  /\ link \in [Connection -> {"new", "open", "closing", "gone"}]
  /\ DOMAIN client_connections_map \subseteq {c \in Connection : link[c] # "new"}
  /\ vgwSessionPhoneNumbersMap \subseteq Session \X BOOLEAN
  /\ \A c \in DOMAIN client_connections_map :
       client_connections_map[c].vgwSessionStatus = "opened" => sessionOf(c) = NoSession

HandlesAndPhones == Handles /\ PhonesBelongToLegs

(* What a step may do to the connections that are in the map.              *)
LEMMA HandlesStep ==
  ASSUME Inv, HandlesAndPhones, [Next]_vars
  PROVE  HandlesAndPhones'
<1> USE DEF HandlesAndPhones, Handles, PhonesBelongToLegs, phoneKey, sessionOf
<1>1. ASSUME UNCHANGED <<client_connections_map, vgwSessionPhoneNumbersMap, shutdown>>,
             link' \in [Connection -> {"new", "open", "closing", "gone"}],
             \A c \in Connection : link[c] # "new" => link'[c] # "new"
      PROVE  HandlesAndPhones'
  BY <1>1
<1>2. ASSUME NEW c \in Connection, OnOpen(c) PROVE HandlesAndPhones'
  <2>1. c \notin DOMAIN client_connections_map
    BY <1>2 DEF OnOpen
  <2>2. /\ DOMAIN client_connections_map' = DOMAIN client_connections_map \union {c}
        /\ \A d \in DOMAIN client_connections_map :
             client_connections_map'[d] = client_connections_map[d]
        /\ client_connections_map'[c].vgwSessionId = NoSession
    BY <1>2, <2>1 DEF OnOpen, Put
  <2>3. /\ UNCHANGED <<vgwSessionPhoneNumbersMap, shutdown>>
        /\ link' \in [Connection -> {"new", "open", "closing", "gone"}]
        /\ \A d \in Connection : link[d] # "new" => link'[d] # "new"
        /\ link'[c] # "new"
    BY <1>2 DEF OnOpen
  <2>. QED
    BY <2>1, <2>2, <2>3
<1>3. ASSUME NEW c \in Connection, NEW s \in Session, NEW isCaller \in BOOLEAN,
             OnStart(c, s, isCaller)
      PROVE  HandlesAndPhones'
  <2>1. /\ c \in DOMAIN client_connections_map
        /\ client_connections_map[c].vgwSessionStatus = "opened"
        /\ client_connections_map[c] \in Metadata
    BY <1>3 DEF OnStart, Known, Inv, StartedHaveSession
  <2>2. phoneKey(c) \notin vgwSessionPhoneNumbersMap
    BY <2>1, SessionsAreFinite
  <2>3. /\ DOMAIN client_connections_map' = DOMAIN client_connections_map
        /\ \A d \in DOMAIN client_connections_map \ {c} :
             client_connections_map'[d] = client_connections_map[d]
        /\ client_connections_map'[c].vgwSessionStatus = "started"
        /\ client_connections_map'[c].vgwSessionId = s
        /\ client_connections_map'[c].vgwIsCaller = isCaller
    BY <1>3, <2>1 DEF OnStart, Metadata
  <2>4. /\ vgwSessionPhoneNumbersMap' = vgwSessionPhoneNumbersMap \union {<<s, isCaller>>}
        /\ UNCHANGED <<link, shutdown>>
    BY <1>3 DEF OnStart
  <2>. QED
    BY <2>1, <2>2, <2>3, <2>4
<1>4. ASSUME NEW c \in Connection, OnEmptySpeech(c) PROVE HandlesAndPhones'
  BY <1>1, <1>4 DEF OnEmptySpeech
<1>5. ASSUME NEW c \in Connection, OnSpeech(c) PROVE HandlesAndPhones'
  <2>1. PICK channel :
          client_connections_map' =
            [client_connections_map EXCEPT
               ![c].speechPacketsReceivedCnt = @ + 1,
               ![c].vgwVoiceChannelNumber = channel]
    BY <1>5 DEF OnSpeech
  <2>2. /\ DOMAIN client_connections_map' = DOMAIN client_connections_map
        /\ \A d \in DOMAIN client_connections_map :
             /\ client_connections_map'[d].vgwSessionStatus
                  = client_connections_map[d].vgwSessionStatus
             /\ client_connections_map'[d].vgwSessionId = client_connections_map[d].vgwSessionId
             /\ client_connections_map'[d].vgwIsCaller = client_connections_map[d].vgwIsCaller
    BY <2>1 DEF Inv, StartedHaveSession, Metadata
  <2>3. UNCHANGED <<vgwSessionPhoneNumbersMap, link, shutdown>>
    BY <1>5 DEF OnSpeech
  <2>. QED
    BY <2>2, <2>3
<1>6. ASSUME NEW c \in Connection, OnClose(c) PROVE HandlesAndPhones'
  <2>1. /\ UNCHANGED shutdown
        /\ link' \in [Connection -> {"new", "open", "closing", "gone"}]
        /\ \A d \in Connection : link[d] # "new" => link'[d] # "new"
    BY <1>6 DEF OnClose
  <2>2. CASE CloseKnown(c)
    <3>1. /\ DOMAIN client_connections_map'
               = DOMAIN client_connections_map \ ({c} \union StaleConnections)
          /\ \A d \in DOMAIN client_connections_map' :
               client_connections_map'[d] = client_connections_map[d]
      BY <2>2 DEF CloseKnown, Erase
    <3>2. /\ vgwSessionPhoneNumbersMap' \subseteq vgwSessionPhoneNumbersMap
          /\ \A d \in {c} \union StaleConnections : phoneKey(d) \notin vgwSessionPhoneNumbersMap'
      BY <2>2 DEF CloseKnown, PhonesGone
    <3>. QED
      BY <2>1, <3>1, <3>2
  <2>3. CASE CloseUnknown(c)
    BY <1>1, <2>1, <2>3 DEF CloseUnknown
  <2>. QED
    BY <1>6, <2>2, <2>3 DEF OnClose
<1>7. ASSUME NEW n \in Limits, OnSetMaxConcurrentCalls(n) PROVE HandlesAndPhones'
  BY <1>1, <1>7 DEF OnSetMaxConcurrentCalls
<1>8. CASE Tick
  BY <1>1, <1>8 DEF Tick
<1>9. CASE CloseConnections
  BY <1>9 DEF CloseConnections
<1>10. CASE ClearMaps
  BY <1>10 DEF ClearMaps, EmptyMap
<1>11. CASE UNCHANGED vars
  BY <1>1, <1>11 DEF vars
<1> HIDE DEF HandlesAndPhones
<1>. QED
  BY <1>2, <1>3, <1>4, <1>5, <1>6, <1>7, <1>8, <1>9, <1>10, <1>11 DEF Next

THEOREM HandlesCorrect == Spec => []HandlesAndPhones
<1>1. Init => HandlesAndPhones
  BY DEF Init, EmptyMap, HandlesAndPhones, Handles, PhonesBelongToLegs
<1>2. Inv /\ HandlesAndPhones /\ [Next]_vars => HandlesAndPhones'
  BY HandlesStep
<1>. QED
  BY <1>1, <1>2, InvCorrect, PTL DEF Spec

(* With and without purging, a telephone number is kept only while a       *)
(* connection of its session and role is in the map.                       *)
THEOREM PhonesNotLeaked == Spec => []PhonesBelongToLegs
<1>1. HandlesAndPhones => PhonesBelongToLegs
  BY DEF HandlesAndPhones
<1>. QED
  BY <1>1, HandlesCorrect, PTL

-----------------------------------------------------------------------------
(* Legs and calls, without purging.                                        *)

LEMMA NothingIsStale ==
  ASSUME vgwStaleSessionPurgeInterval = 0, NEW c
  PROVE  /\ StaleConnections = {}
         /\ StaleSessions(c) = {}
         /\ Leaving(c) = Ended(c)
<1>1. ~PurgeDue
  BY DEF PurgeDue
<1>. QED
  BY <1>1 DEF StaleConnections, StaleSessions, Leaving

(* A leg has a channel from its first speech on.                           *)
LegsHaveChannels ==
  \A c \in DOMAIN client_connections_map :
    /\ client_connections_map[c].vgwVoiceChannelNumber > 0
         <=> client_connections_map[c].speechPacketsReceivedCnt > 0
    /\ client_connections_map[c].vgwVoiceChannelNumber > 0
         => client_connections_map[c].vgwSessionStatus = "started"

StartsOf(s) == IF s \in Live THEN vgw_session_id_map[s] ELSE <<>>

(* The list of a live call has an entry for every one of its legs.  The    *)
(* counts are right even after the maps were cleared, since that clears    *)
(* both sides.                                                             *)
ListsMatchLegs ==
  /\ \A s \in Live : vgw_session_id_map[s] # <<>>
  /\ \A s \in Session :
       /\ StartsOf(s) \in Seq(Nat)
       /\ IsFiniteSet(Legs(s))
       /\ Cardinality(Legs(s)) = Len(StartsOf(s))

Lists == LegsHaveChannels /\ ListsMatchLegs

(* A leg that has sent speech belongs to a live call.                      *)
LEMMA LegsOfLiveCalls ==
  ASSUME Inv, Lists, NEW c \in DOMAIN client_connections_map,
         client_connections_map[c].vgwVoiceChannelNumber > 0
  PROVE  sessionOf(c) \in Session /\ sessionOf(c) \in Live
<1>1. sessionOf(c) \in Session
  BY DEF Inv, StartedHaveSession, Lists, LegsHaveChannels
<1>2. c \in Legs(sessionOf(c)) /\ IsFiniteSet(Legs(sessionOf(c)))
  BY <1>1 DEF Legs, Lists, ListsMatchLegs
<1>3. Cardinality(Legs(sessionOf(c))) # 0
  BY <1>2, FS_EmptySet
<1>4. Len(StartsOf(sessionOf(c))) # 0
  BY <1>1, <1>3 DEF Lists, ListsMatchLegs
<1>. QED
  BY <1>1, <1>4 DEF StartsOf

(* If no leg comes or goes and no list changes, both sides agree as they   *)
(* did before.                                                             *)
LEMMA SameLegs ==
  ASSUME Lists, LegsHaveChannels', Live' = Live,
         \A s \in Live : vgw_session_id_map'[s] = vgw_session_id_map[s],
         \A s \in Session : Legs(s)' = Legs(s)
  PROVE  Lists'
<1>1. \A s \in Session : StartsOf(s)' = StartsOf(s)
  BY DEF StartsOf
<1>. QED
  BY <1>1 DEF Lists, ListsMatchLegs

(* One leg comes or goes, and the list of its session grows or shrinks.    *)
LEMMA LegComes ==
  ASSUME ListsMatchLegs, NEW s \in Session, NEW c, c \notin Legs(s),
         Legs(s)' = Legs(s) \union {c},
         NEW t \in Nat, s \in Live', StartsOf(s)' = Append(StartsOf(s), t)
  PROVE  /\ StartsOf(s)' \in Seq(Nat) /\ StartsOf(s)' # <<>>
         /\ IsFiniteSet(Legs(s)')
         /\ Cardinality(Legs(s)') = Len(StartsOf(s)')
<1>1. /\ StartsOf(s) \in Seq(Nat) /\ IsFiniteSet(Legs(s))
      /\ Cardinality(Legs(s)) = Len(StartsOf(s))
  BY DEF ListsMatchLegs
<1>2. IsFiniteSet(Legs(s)') /\ Cardinality(Legs(s)') = Cardinality(Legs(s)) + 1
  BY <1>1, FS_AddElement
<1>. QED
  BY <1>1, <1>2

LEMMA LegGoes ==
  ASSUME ListsMatchLegs, NEW s \in Session, NEW c \in Legs(s),
         Legs(s)' = Legs(s) \ {c}, StartsOf(s)' = AllButLast(StartsOf(s))
  PROVE  /\ StartsOf(s)' \in Seq(Nat)
         /\ Len(StartsOf(s)') = Len(StartsOf(s)) - 1
         /\ IsFiniteSet(Legs(s)')
         /\ Cardinality(Legs(s)') = Len(StartsOf(s)')
<1>1. /\ StartsOf(s) \in Seq(Nat) /\ IsFiniteSet(Legs(s))
      /\ Cardinality(Legs(s)) = Len(StartsOf(s))
  BY DEF ListsMatchLegs
<1>2. IsFiniteSet(Legs(s)') /\ Cardinality(Legs(s)') = Cardinality(Legs(s)) - 1
  BY <1>1, FS_RemoveElement
<1>3. Len(StartsOf(s)) \in Nat /\ Len(StartsOf(s)) # 0
  BY <1>1, FS_EmptySet
<1>4. /\ AllButLast(StartsOf(s)) \in Seq(Nat)
      /\ Len(AllButLast(StartsOf(s))) = Len(StartsOf(s)) - 1
  BY <1>1, <1>3 DEF AllButLast
<1>. QED
  BY <1>1, <1>2, <1>4

LEMMA ListsStep ==
  ASSUME vgwStaleSessionPurgeInterval = 0, Inv, Handles, Lists, [Next]_vars
  PROVE  Lists'
<1>1. ASSUME UNCHANGED <<client_connections_map, vgw_session_id_map>> PROVE Lists'
  BY <1>1, SameLegs DEF Lists, LegsHaveChannels, Legs, sessionOf, Live
<1>2. ASSUME NEW c \in Connection, OnOpen(c) PROVE Lists'
  <2>1. c \notin DOMAIN client_connections_map
    BY <1>2 DEF OnOpen, Handles
  <2>2. /\ DOMAIN client_connections_map' = DOMAIN client_connections_map \union {c}
        /\ \A d \in DOMAIN client_connections_map :
             client_connections_map'[d] = client_connections_map[d]
        /\ client_connections_map'[c].vgwVoiceChannelNumber = 0
        /\ client_connections_map'[c].speechPacketsReceivedCnt = 0
    BY <1>2, <2>1 DEF OnOpen, Put
  <2>3. LegsHaveChannels'
    BY <2>2 DEF Lists, LegsHaveChannels
  <2>4. \A s \in Session : Legs(s)' = Legs(s)
    BY <2>1, <2>2 DEF Legs, sessionOf
  <2>. QED
    BY <1>2, <2>3, <2>4, SameLegs DEF OnOpen, callVars, Live
<1>3. ASSUME NEW c \in Connection, NEW s \in Session, NEW isCaller \in BOOLEAN,
             OnStart(c, s, isCaller)
      PROVE  Lists'
  <2>1. /\ c \in DOMAIN client_connections_map
        /\ client_connections_map[c].vgwSessionStatus = "opened"
        /\ client_connections_map[c] \in Metadata
    BY <1>3 DEF OnStart, Known, Inv, StartedHaveSession
  <2>2. ~(client_connections_map[c].vgwVoiceChannelNumber > 0)
    BY <2>1 DEF Lists, LegsHaveChannels
  <2>3. /\ DOMAIN client_connections_map' = DOMAIN client_connections_map
        /\ \A d \in DOMAIN client_connections_map \ {c} :
             client_connections_map'[d] = client_connections_map[d]
        /\ client_connections_map'[c].vgwSessionStatus = "started"
        /\ client_connections_map'[c].vgwVoiceChannelNumber
             = client_connections_map[c].vgwVoiceChannelNumber
        /\ client_connections_map'[c].speechPacketsReceivedCnt
             = client_connections_map[c].speechPacketsReceivedCnt
    BY <1>3, <2>1 DEF OnStart, Metadata
  <2>4. LegsHaveChannels'
    BY <2>1, <2>3 DEF Lists, LegsHaveChannels
  <2>5. \A r \in Session : Legs(r)' = Legs(r)
    BY <2>1, <2>2, <2>3 DEF Legs, sessionOf
  <2>. QED
    BY <1>3, <2>4, <2>5, SameLegs DEF OnStart, callVars, Live
<1>4. ASSUME NEW c \in Connection, OnEmptySpeech(c) PROVE Lists'
  BY <1>1, <1>4 DEF OnEmptySpeech, callVars
<1>5. ASSUME NEW c \in Connection, OnSpeech(c) PROVE Lists'
  <2>0. PICK s, md : s = sessionOf(c) /\ md = client_connections_map[c]
    OBVIOUS
  <2>1. /\ c \in DOMAIN client_connections_map
        /\ md \in Metadata
        /\ md.vgwSessionStatus = "started"
        /\ s \in Session
        /\ md.vgwVoiceChannelNumber > 0 <=> md.speechPacketsReceivedCnt > 0
    BY <2>0, <1>5 DEF OnSpeech, Known, Inv, StartedHaveSession, Lists, LegsHaveChannels
  <2>2. PICK channel \in {0, 1, 2} :
          /\ Admit(c, s, channel)
          /\ client_connections_map' =
               [client_connections_map EXCEPT
                  ![c].speechPacketsReceivedCnt = @ + 1,
                  ![c].vgwVoiceChannelNumber = channel]
    BY <2>0, <1>5 DEF OnSpeech, sessionOf
  <2>3. /\ DOMAIN client_connections_map' = DOMAIN client_connections_map
        /\ \A d \in DOMAIN client_connections_map \ {c} :
             client_connections_map'[d] = client_connections_map[d]
        /\ client_connections_map'[c].vgwSessionStatus = "started"
        /\ client_connections_map'[c].vgwSessionId = s
        /\ client_connections_map'[c].vgwVoiceChannelNumber = channel
        /\ client_connections_map'[c].speechPacketsReceivedCnt
             = md.speechPacketsReceivedCnt + 1
    BY <2>0, <2>1, <2>2 DEF Metadata, sessionOf
  <2>4. md.speechPacketsReceivedCnt \in Nat /\ md.vgwSessionStartTime \in Nat
    BY <2>0, <2>1 DEF Metadata
  <2>5. channel > 0
    BY <2>0, <2>1, <2>2, <2>4 DEF Admit
  <2>6. LegsHaveChannels'
    BY <2>0, <2>3, <2>4, <2>5 DEF Lists, LegsHaveChannels
  <2>7. /\ Legs(s)' = Legs(s) \union {c}
        /\ \A r \in Session \ {s} : Legs(r)' = Legs(r)
    BY <2>0, <2>1, <2>3, <2>5 DEF Legs, sessionOf
  <2>8. CASE ContinueCall(s) /\ md.speechPacketsReceivedCnt > 0
    <3>1. c \in Legs(s)
      BY <2>0, <2>1, <2>8 DEF Legs
    <3>2. \A r \in Session : Legs(r)' = Legs(r)
      BY <2>0, <2>7, <3>1
    <3>. QED
      BY <2>0, <2>6, <2>8, <3>2, SameLegs DEF ContinueCall, Live
  <2>9. CASE md.speechPacketsReceivedCnt = 0
    <3>1. c \notin Legs(s)
      BY <2>0, <2>1, <2>9 DEF Legs
    <3>2. /\ Live' = Live \union {s}
          /\ StartsOf(s)' = Append(StartsOf(s), md.vgwSessionStartTime)
          /\ \A r \in Live \ {s} : vgw_session_id_map'[r] = vgw_session_id_map[r]
      <4>1. CASE s \notin Live /\ NewCall(c, s)
        BY <2>0, <4>1 DEF NewCall, Put, Live, StartsOf
      <4>2. CASE s \in Live /\ JoinCall(c, s)
        BY <2>0, <4>2 DEF JoinCall, Live, StartsOf
      <4>. QED
        BY <2>0, <2>2, <2>9, <4>1, <4>2 DEF Admit, Live
    <3>3. /\ StartsOf(s)' \in Seq(Nat) /\ StartsOf(s)' # <<>>
          /\ IsFiniteSet(Legs(s)')
          /\ Cardinality(Legs(s)') = Len(StartsOf(s)')
      BY <2>0, <2>1, <2>4, <2>7, <3>1, <3>2, LegComes DEF Lists
    <3>4. ASSUME NEW r \in Session \ {s}
          PROVE  /\ StartsOf(r)' = StartsOf(r)
                 /\ r \in Live' => r \in Live /\ vgw_session_id_map'[r] = vgw_session_id_map[r]
      BY <2>0, <3>2 DEF StartsOf
    <3>5. vgw_session_id_map'[s] # <<>>
      BY <2>0, <3>2, <3>3 DEF StartsOf
    <3>6. ListsMatchLegs'
      BY <2>0, <2>7, <3>2, <3>3, <3>4, <3>5 DEF Lists, ListsMatchLegs, Inv
    <3>. QED
      BY <2>0, <2>6, <3>6 DEF Lists
  <2>. QED
    BY <2>0, <2>2, <2>4, <2>8, <2>9 DEF Admit
<1>6. ASSUME NEW c \in Connection, OnClose(c) PROVE Lists'
  <2>0. PICK s : s = sessionOf(c)
    OBVIOUS
  <2>1. CASE CloseKnown(c)
    <3>1. /\ c \in DOMAIN client_connections_map
          /\ DOMAIN client_connections_map' = DOMAIN client_connections_map \ {c}
          /\ \A d \in DOMAIN client_connections_map' :
               client_connections_map'[d] = client_connections_map[d]
          /\ vgw_session_id_map' = SessionsAfterLeg(c)
      <4>1. DOMAIN SessionsAfterLeg(c) \subseteq Live
        BY DEF SessionsAfterLeg, Erase, Live
      <4>2. Erase(SessionsAfterLeg(c), {}) = SessionsAfterLeg(c)
        BY DEF Erase, SessionsAfterLeg
      <4>. QED
        BY <2>0, <2>1, <4>2, NothingIsStale DEF CloseKnown, Erase
    <3>2. LegsHaveChannels'
      BY <2>0, <3>1 DEF Lists, LegsHaveChannels
    <3>3. \A r : Legs(r)' = Legs(r) \ {c}
      BY <2>0, <3>1 DEF Legs, sessionOf
    <3>4. CASE ~(client_connections_map[c].vgwVoiceChannelNumber > 0)
      <4>1. \A r : Legs(r)' = Legs(r)
        BY <2>0, <3>3, <3>4 DEF Legs
      <4>2. Live' = Live /\ \A r \in Live : vgw_session_id_map'[r] = vgw_session_id_map[r]
        BY <3>1, <3>4 DEF SessionsAfterLeg, LegEnds, CallEnds, Ended, Erase, Live
      <4>. QED
        BY <2>0, <3>1, <3>2, <4>1, <4>2, SameLegs
    <3>5. CASE client_connections_map[c].vgwVoiceChannelNumber > 0
      <4>1. s \in Session /\ s \in Live
        BY <2>0, <3>1, <3>5, LegsOfLiveCalls
      <4>2. LegEnds(c)
        BY <2>0, <3>5, <4>1 DEF LegEnds, Live, Inv, LiveCallsHaveOwnNumbers
      <4>3. c \in Legs(s)
        BY <2>0, <3>1, <3>5 DEF Legs
      <4>4. \A r \in Session \ {s} : Legs(r)' = Legs(r)
        BY <2>0, <3>3 DEF Legs
      <4>5. /\ StartsOf(s) = vgw_session_id_map[s]
            /\ StartsOf(s) \in Seq(Nat)
            /\ Len(StartsOf(s)) \in Nat /\ Len(StartsOf(s)) # 0
        BY <2>0, <4>1 DEF StartsOf, Lists, ListsMatchLegs
      <4>6. /\ StartsOf(s)' = AllButLast(StartsOf(s))
            /\ s \in Live' => vgw_session_id_map'[s] = StartsOf(s)' /\ Len(StartsOf(s)) # 1
            /\ Live' \subseteq Live
            /\ \A r \in Live \ {s} :
                 r \in Live' /\ vgw_session_id_map'[r] = vgw_session_id_map[r]
        <5>1. CASE CallEnds(c)
          <6>1. vgw_session_id_map' = Erase(vgw_session_id_map, {s})
            BY <2>0, <3>1, <5>1 DEF SessionsAfterLeg, Ended
          <6>2. AllButLast(StartsOf(s)) = <<>>
            BY <2>0, <4>5, <5>1 DEF CallEnds, AllButLast
          <6>. QED
            BY <2>0, <6>1, <6>2 DEF Erase, Live, StartsOf
        <5>2. CASE ~CallEnds(c)
          <6>1. vgw_session_id_map' = [vgw_session_id_map EXCEPT ![s] = AllButLast(@)]
            BY <2>0, <3>1, <4>2, <5>2 DEF SessionsAfterLeg
          <6>. QED
            BY <2>0, <4>1, <4>2, <4>5, <5>2, <6>1 DEF CallEnds, Live, StartsOf
        <5>. QED
          BY <2>0, <5>1, <5>2
      <4>7. /\ StartsOf(s)' \in Seq(Nat)
            /\ Len(StartsOf(s)') = Len(StartsOf(s)) - 1
            /\ IsFiniteSet(Legs(s)')
            /\ Cardinality(Legs(s)') = Len(StartsOf(s)')
        BY <2>0, <3>3, <4>1, <4>3, <4>6, LegGoes DEF Lists
      <4>8. \A r \in Session \ {s} : StartsOf(r)' = StartsOf(r)
        BY <2>0, <4>6 DEF StartsOf
      <4>9. s \in Live' => vgw_session_id_map'[s] # <<>>
        <5>1. SUFFICES ASSUME s \in Live' PROVE Len(StartsOf(s)') # 0
          BY <4>6
        <5>2. Len(StartsOf(s)) # 1
          BY <4>6, <5>1
        <5>. QED
          BY <4>5, <4>7, <5>2
      <4>10. ListsMatchLegs'
        BY <2>0, <4>4, <4>6, <4>7, <4>8, <4>9 DEF Lists, ListsMatchLegs
      <4>. QED
        BY <2>0, <3>2, <4>10 DEF Lists
    <3>. QED
      BY <2>0, <3>4, <3>5
  <2>2. CASE CloseUnknown(c)
    BY <2>0, <1>1, <2>2 DEF CloseUnknown, callVars
  <2>. QED
    BY <2>0, <1>6, <2>1, <2>2 DEF OnClose
<1>7. ASSUME NEW n \in Limits, OnSetMaxConcurrentCalls(n) PROVE Lists'
  BY <1>1, <1>7 DEF OnSetMaxConcurrentCalls, callVars
<1>8. CASE Tick \/ CloseConnections
  BY <1>1, <1>8 DEF Tick, CloseConnections, callVars
<1>9. CASE ClearMaps
  <2>1. DOMAIN client_connections_map' = {} /\ Live' = {}
    BY <1>9 DEF ClearMaps, EmptyMap, Live
  <2>2. \A s \in Session : Legs(s)' = {} /\ StartsOf(s)' = <<>>
    BY <2>1 DEF Legs, StartsOf
  <2>3. /\ IsFiniteSet({})
        /\ Cardinality({}) = Len(<<>>)
        /\ <<>> \in Seq(Nat)
    BY FS_EmptySet
  <2>4. LegsHaveChannels'
    BY <2>1 DEF LegsHaveChannels
  <2>5. ListsMatchLegs'
    BY <2>1, <2>2, <2>3 DEF ListsMatchLegs
  <2>. QED
    BY <2>4, <2>5 DEF Lists
<1>10. CASE UNCHANGED vars
  BY <1>1, <1>10 DEF vars, callVars
<1>. QED
  BY <1>2, <1>3, <1>4, <1>5, <1>6, <1>7, <1>8, <1>9, <1>10 DEF Next

(* Without purging, a list of start times has an entry per leg.            *)
THEOREM ListsCorrect ==
  ASSUME vgwStaleSessionPurgeInterval = 0
  PROVE  Spec => []Lists
<1>1. Init => Lists
  <2> SUFFICES ASSUME Init PROVE Lists
    OBVIOUS
  <2>1. DOMAIN client_connections_map = {} /\ Live = {}
    BY DEF Init, EmptyMap, Live
  <2>2. \A s \in Session : Legs(s) = {} /\ StartsOf(s) = <<>>
    BY <2>1 DEF Legs, StartsOf
  <2>3. /\ IsFiniteSet({})
        /\ Cardinality({}) = Len(<<>>)
        /\ <<>> \in Seq(Nat)
    BY FS_EmptySet
  <2>. QED
    BY <2>1, <2>2, <2>3 DEF Lists, LegsHaveChannels, ListsMatchLegs
<1>2. Inv /\ HandlesAndPhones /\ Lists /\ [Next]_vars => Lists'
  BY ListsStep DEF HandlesAndPhones
<1>. QED
  BY <1>1, <1>2, InvCorrect, HandlesCorrect, PTL DEF Spec

(* Without purging, the list of a session has as many entries as the       *)
(* session has open legs that have sent speech.                            *)
THEOREM ListsCounted == Spec => []ListsCountLegs
<1>1. CASE vgwStaleSessionPurgeInterval = 0
  <2>1. Lists => ListsCountLegs
    <3>1. Len(<<>>) = 0
      OBVIOUS
    <3>. QED
      BY <3>1 DEF Lists, ListsMatchLegs, ListsCountLegs, StartsOf
  <2>. QED
    BY <1>1, <2>1, ListsCorrect, PTL
<1>2. CASE vgwStaleSessionPurgeInterval # 0
  <2>1. ListsCountLegs
    BY <1>2 DEF ListsCountLegs
  <2>. QED
    BY <2>1, PTL
<1>. QED
  BY <1>1, <1>2

-----------------------------------------------------------------------------
(* Calls and numbers.                                                      *)

Accounted ==
  /\ nVoiceCallsProcessed \in Nat
  /\ shutdown # "cleared" =>
       callSequenceNumber = nVoiceCallsProcessed + Cardinality(Live)

LEMMA AccountedStep ==
  ASSUME vgwStaleSessionPurgeInterval = 0, Inv, Accounted, [Next]_vars
  PROVE  Accounted'
<1>1. ASSUME UNCHANGED <<callSequenceNumber, nVoiceCallsProcessed>>, Live' = Live,
             shutdown' = "cleared" \/ shutdown' = shutdown \/ shutdown = "no"
      PROVE  Accounted'
  BY <1>1 DEF Accounted
<1>2. IsFiniteSet(Live) /\ Cardinality(Live) \in Nat
  BY SessionsAreFinite, FS_Subset, FS_CardinalityType DEF Inv
<1>3. ASSUME NEW c \in Connection, OnSpeech(c) PROVE Accounted'
  <2>0. PICK s : s = sessionOf(c)
    OBVIOUS
  <2>1. /\ \E channel \in {0, 1, 2} : Admit(c, s, channel)
        /\ UNCHANGED <<nVoiceCallsProcessed, shutdown>>
    BY <2>0, <1>3 DEF OnSpeech, sessionOf
  <2>2. CASE NewCall(c, s) /\ s \notin Live
    <3>1. Live' = Live \union {s} /\ callSequenceNumber' = callSequenceNumber + 1
      BY <2>2 DEF NewCall, Put, Live
    <3>2. Cardinality(Live') = Cardinality(Live) + 1
      BY <1>2, <2>2, <3>1, FS_AddElement
    <3>. QED
      BY <1>2, <2>1, <3>1, <3>2 DEF Accounted
  <2>3. CASE JoinCall(c, s) \/ ContinueCall(s)
    BY <1>1, <2>1, <2>3 DEF JoinCall, ContinueCall, Live
  <2>. QED
    BY <2>1, <2>2, <2>3 DEF Admit, Live
<1>4. ASSUME NEW c \in Connection, OnClose(c) PROVE Accounted'
  <2>1. CASE CloseKnown(c)
    <3>1. /\ Ended(c) \subseteq Live
          /\ Live' = Live \ Ended(c)
      BY <2>1, NothingIsStale, CloseKeepsTheRest
    <3>2. /\ IsFiniteSet(Ended(c))
          /\ Cardinality(Ended(c)) \in Nat
          /\ Cardinality(Live') = Cardinality(Live) - Cardinality(Ended(c))
      <4>1. IsFiniteSet(Ended(c))
        BY <1>2, <3>1, FS_Subset
      <4>2. Live \intersect Ended(c) = Ended(c)
        BY <3>1
      <4>. QED
        BY <1>2, <3>1, <4>1, <4>2, FS_Difference, FS_CardinalityType
    <3>3. /\ nVoiceCallsProcessed' = nVoiceCallsProcessed + Cardinality(Ended(c))
          /\ UNCHANGED <<callSequenceNumber, shutdown>>
      BY <1>4, <2>1 DEF OnClose, CloseKnown
    <3>. QED
      BY <1>2, <3>2, <3>3 DEF Accounted
  <2>2. CASE CloseUnknown(c)
    BY <1>1, <1>4, <2>2 DEF OnClose, CloseUnknown, callVars, metricVars, Live
  <2>. QED
    BY <1>4, <2>1, <2>2 DEF OnClose
<1>5. CASE \E c \in Connection :
             \/ OnOpen(c)
             \/ \E s \in Session, isCaller \in BOOLEAN : OnStart(c, s, isCaller)
             \/ OnEmptySpeech(c)
  BY <1>1, <1>5 DEF OnOpen, OnStart, OnEmptySpeech, callVars, metricVars, Live
<1>6. CASE (\E n \in Limits : OnSetMaxConcurrentCalls(n)) \/ Tick \/ CloseConnections
  BY <1>1, <1>6
  DEF OnSetMaxConcurrentCalls, Tick, CloseConnections, callVars, metricVars, Live
<1>7. CASE ClearMaps
  BY <1>7 DEF ClearMaps, metricVars, Accounted
<1>8. CASE UNCHANGED vars
  BY <1>1, <1>8 DEF vars, callVars, metricVars, Live
<1>. QED
  BY <1>3, <1>4, <1>5, <1>6, <1>7, <1>8 DEF Next

(* Without purging, every call that got a number is live or was processed. *)
THEOREM CallsCounted == Spec => []CallsAccountedFor
<1>1. CASE vgwStaleSessionPurgeInterval = 0
  <2>1. Init => Accounted
    BY FS_EmptySet DEF Init, EmptyMap, Accounted, Live
  <2>2. Inv /\ Accounted /\ [Next]_vars => Accounted'
    BY <1>1, AccountedStep
  <2>3. Accounted => CallsAccountedFor
    BY DEF Accounted, CallsAccountedFor
  <2>. QED
    BY <2>1, <2>2, <2>3, InvCorrect, PTL DEF Spec
<1>2. CASE vgwStaleSessionPurgeInterval # 0
  <2>1. CallsAccountedFor
    BY <1>2 DEF CallsAccountedFor
  <2>. QED
    BY <2>1, PTL
<1>. QED
  BY <1>1, <1>2

-----------------------------------------------------------------------------
(* The tuples that handlers submit, without purging.                       *)

(* Only speech and closes of known handles submit tuples, and these are    *)
(* the ones.                                                               *)
LEMMA TuplesOfStep ==
  ASSUME vgwStaleSessionPurgeInterval = 0, Inv, Handles, Lists, [Next]_vars,
         NEW o \in out', ~UNCHANGED vars
  PROVE  \/ /\ o.session \in Live' /\ o.session \notin callsBeingThrottledMap'
            /\ callsBeingThrottledMap \subseteq callsBeingThrottledMap'
            /\ o.number = call_sequence_number_map'[o.session]
         \/ /\ o.session \in Live /\ o.session \notin callsBeingThrottledMap
            /\ o.number = call_sequence_number_map[o.session]
            /\ UNCHANGED callSequenceNumber
<1>1. ASSUME NEW c \in Connection, OnSpeech(c)
      PROVE  /\ o.session \in Live' /\ o.session \notin callsBeingThrottledMap'
             /\ callsBeingThrottledMap \subseteq callsBeingThrottledMap'
             /\ o.number = call_sequence_number_map'[o.session]
  <2>0. PICK s : s = sessionOf(c)
    OBVIOUS
  <2>1. PICK channel \in {0, 1, 2} :
          /\ Admit(c, s, channel)
          /\ out' = IF s \in callsBeingThrottledMap' THEN {}
                    ELSE {Tuple("speech", s, call_sequence_number_map'[s], channel)}
    BY <2>0, <1>1 DEF OnSpeech, sessionOf
  <2>2. /\ o.session = s /\ s \notin callsBeingThrottledMap'
        /\ o.number = call_sequence_number_map'[s]
    BY <2>1 DEF Tuple
  <2>3. c \in DOMAIN client_connections_map /\ client_connections_map[c] \in Metadata
    BY <1>1 DEF OnSpeech, Known, Inv, StartedHaveSession
  <2>4. CASE NewCall(c, s)
    BY <2>2, <2>4 DEF NewCall, Put, Live
  <2>5. CASE JoinCall(c, s) /\ s \in Live
    BY <2>2, <2>5 DEF JoinCall, Live
  <2>6. CASE ContinueCall(s) /\ client_connections_map[c].speechPacketsReceivedCnt > 0
    <3>1. s \in Live
      BY <2>0, <2>3, <2>6, LegsOfLiveCalls DEF Lists, LegsHaveChannels
    <3>. QED
      BY <2>2, <2>6, <3>1 DEF ContinueCall, Live
  <2>. QED
    BY <2>1, <2>4, <2>5, <2>6 DEF Admit, Live
<1>2. ASSUME NEW c \in Connection, OnClose(c)
      PROVE  /\ o.session \in Live /\ o.session \notin callsBeingThrottledMap
             /\ o.number = call_sequence_number_map[o.session]
             /\ UNCHANGED callSequenceNumber
  <2>1. CloseKnown(c)
    BY <1>2 DEF OnClose, CloseUnknown
  <2>2. SessionSignals(c) = {} /\ ConnectionSignals(c) = {}
    BY NothingIsStale DEF SessionSignals, ConnectionSignals, Signalled
  <2>3. o \in LegSignal(c) /\ UNCHANGED callSequenceNumber
    BY <2>1, <2>2 DEF CloseKnown
  <2>. QED
    BY <2>3 DEF LegSignal, LegEnds, Tuple, Live
<1>3. ~(\E c \in Connection :
          \/ OnOpen(c)
          \/ \E s \in Session, isCaller \in BOOLEAN : OnStart(c, s, isCaller)
          \/ OnEmptySpeech(c))
  BY DEF OnOpen, OnStart, OnEmptySpeech
<1>4. ~((\E n \in Limits : OnSetMaxConcurrentCalls(n)) \/ Tick \/ CloseConnections \/ ClearMaps)
  BY DEF OnSetMaxConcurrentCalls, Tick, CloseConnections, ClearMaps
<1>. QED
  BY <1>1, <1>2, <1>3, <1>4 DEF Next

(* Without purging, no tuple carries number zero or a number not given     *)
(* yet.                                                                    *)
THEOREM NumbersOnTuples ==
  ASSUME vgwStaleSessionPurgeInterval = 0
  PROVE  Spec => []TuplesCarryCallNumber
<1>1. Init => TuplesCarryCallNumber
  BY DEF Init, TuplesCarryCallNumber
<1>2. Inv /\ Inv' /\ HandlesAndPhones /\ Lists /\ TuplesCarryCallNumber /\ [Next]_vars
        => TuplesCarryCallNumber'
  <2> SUFFICES ASSUME Inv, Inv', HandlesAndPhones, Lists, TuplesCarryCallNumber,
                      [Next]_vars
               PROVE  TuplesCarryCallNumber'
    OBVIOUS
  <2>1. CASE UNCHANGED vars
    BY <2>1 DEF vars, callVars, TuplesCarryCallNumber
  <2>2. CASE ~UNCHANGED vars
    <3>1. ASSUME NEW o \in out'
          PROVE  o.number \in 1 .. callSequenceNumber'
      BY <2>2, TuplesOfStep
      DEF Inv, LiveCallsHaveOwnNumbers, HandlesAndPhones
    <3>. QED
      BY <3>1 DEF TuplesCarryCallNumber
  <2>. QED
    BY <2>1, <2>2
<1>. QED
  BY <1>1, <1>2, InvCorrect, HandlesCorrect, ListsCorrect, PTL DEF Spec

(* Without purging, no handler submits a tuple of a call that was          *)
(* throttled when the handler started.                                     *)
THEOREM ThrottledCallsSilent ==
  ASSUME vgwStaleSessionPurgeInterval = 0
  PROVE  Spec => ThrottledCallsAreSilent
<1> DEFINE Silent == \A o \in out' : o.session \notin callsBeingThrottledMap
<1>1. Inv /\ HandlesAndPhones /\ Lists /\ [Next]_vars => [Silent]_vars
  BY TuplesOfStep DEF HandlesAndPhones
<1>. QED
  BY <1>1, InvCorrect, HandlesCorrect, ListsCorrect, PTL DEF Spec, ThrottledCallsAreSilent

(* Without purging, the close of a leg that has sent speech is signalled   *)
(* unless its call is throttled.                                           *)
THEOREM LegsSignalled ==
  ASSUME vgwStaleSessionPurgeInterval = 0
  PROVE  Spec => EveryLegIsSignalled
<1> DEFINE SignalledNow ==
      \A c \in DOMAIN client_connections_map :
        /\ link[c] # link'[c] /\ link'[c] = "gone"
        /\ client_connections_map[c].vgwVoiceChannelNumber > 0
        /\ sessionOf(c) \notin callsBeingThrottledMap
        => \E o \in out' :
             /\ o.kind = "end"
             /\ o.session = sessionOf(c)
             /\ o.channel = client_connections_map[c].vgwVoiceChannelNumber
<1>1. Inv /\ HandlesAndPhones /\ Lists /\ [Next]_vars => [SignalledNow]_vars
  <2> SUFFICES ASSUME Inv, Handles, Lists, Next,
                      NEW c \in DOMAIN client_connections_map,
                      link[c] # link'[c], link'[c] = "gone",
                      client_connections_map[c].vgwVoiceChannelNumber > 0,
                      sessionOf(c) \notin callsBeingThrottledMap
               PROVE  \E o \in out' :
                        /\ o.kind = "end"
                        /\ o.session = sessionOf(c)
                        /\ o.channel = client_connections_map[c].vgwVoiceChannelNumber
    BY DEF HandlesAndPhones
  <2>1. c \in Connection
    BY DEF Handles
  <2>2. OnClose(c)
    <3>1. ASSUME NEW d \in Connection, OnClose(d) PROVE d = c
      BY <2>1, <3>1 DEF OnClose, Handles
    <3>2. ASSUME NEW d \in Connection, OnOpen(d) PROVE FALSE
      BY <2>1, <3>2 DEF OnOpen, Handles
    <3>3. ~CloseConnections
      BY <2>1 DEF CloseConnections
    <3>4. ~(\E d \in Connection :
              \/ \E s \in Session, isCaller \in BOOLEAN : OnStart(d, s, isCaller)
              \/ OnEmptySpeech(d)
              \/ OnSpeech(d))
      BY DEF OnStart, OnEmptySpeech, OnSpeech
    <3>5. ~((\E n \in Limits : OnSetMaxConcurrentCalls(n)) \/ Tick \/ ClearMaps)
      BY DEF OnSetMaxConcurrentCalls, Tick, ClearMaps
    <3>. QED
      BY <3>1, <3>2, <3>3, <3>4, <3>5 DEF Next
  <2>3. CloseKnown(c)
    BY <2>2 DEF OnClose, CloseUnknown
  <2>4. LegEnds(c)
    BY LegsOfLiveCalls DEF LegEnds, Live, Inv, LiveCallsHaveOwnNumbers
  <2>5. Tuple("end", sessionOf(c), call_sequence_number_map[sessionOf(c)],
              client_connections_map[c].vgwVoiceChannelNumber) \in out'
    BY <2>3, <2>4 DEF CloseKnown, LegSignal
  <2>. QED
    BY <2>5 DEF Tuple
<1>. QED
  BY <1>1, InvCorrect, HandlesCorrect, ListsCorrect, PTL DEF Spec, EveryLegIsSignalled
=============================================================================
