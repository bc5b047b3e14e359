----------------------- MODULE IBMVoiceGatewaySource -----------------------
(***************************************************************************)
(* The IBMVoiceGatewaySource operator: a websocket server to which a voice *)
(* gateway connects once per leg (caller, agent) of every call.  The legs  *)
(* of a call share a session id; the operator numbers the calls, forwards  *)
(* their speech, ignores calls above a limit, tells the application when a *)
(* leg ends, and purges what the gateway never closed.                     *)
(*                                                                         *)
(* One thread runs all websocket and HTTP handlers, so a handler is one    *)
(* step.  Only prepareToShutdown runs on another thread.                   *)
(***************************************************************************)
EXTENDS Integers, Sequences, FiniteSets

CONSTANTS
  Connection,                    \* connection handles, never used twice
  Session,                       \* session ids that the gateway uses
  NoSession,                     \* the empty session id
  vgwStaleSessionPurgeInterval,  \* parameter, in ticks; 0 turns purging off
  InitialMaxConcurrentCalls,     \* parameter maxConcurrentCallsAllowed
  Limits,                        \* limits an HTTP client may set at run time
  MaxPackets,                    \* bound: speech packets per connection
  MaxEmpty,                      \* bound: empty speech packets
  MaxTime,                       \* bound: ticks of the clock
  MayShutDown                    \* bound: whether the job is cancelled

ASSUME SessionsAreFinite == IsFiniteSet(Session) /\ NoSession \notin Session

ASSUME ParametersAreNumbers ==
  /\ vgwStaleSessionPurgeInterval \in Nat
  /\ InitialMaxConcurrentCalls \in Nat
  /\ Limits \in SUBSET Nat

VARIABLES
  client_connections_map,             \* handle -> connection_metadata
  vgw_session_id_map,                 \* session -> start times of its legs
  call_sequence_number_map,           \* session -> number of the call
  callsBeingThrottledMap,             \* the sessions of ignored calls
  vgwSessionPhoneNumbersMap,          \* its keys: session and isCaller
  callSequenceNumber,
  activeConcurrentCallsCnt,
  peakConcurrentCallsCnt,
  maxConcurrentCallsAllowed,
  nVoiceCallsProcessed,
  nVoiceCallsThrottled,
  nOutputTuplesSent,
  emptySpeechPacketsCnt,
  timeOfPreviousStaleSessionRemoval,
  out,                                \* the tuples the last handler submitted
  link,                               \* what the library knows of each handle
  now,
  shutdown                            \* "no", "closing", then "cleared"

callVars    == <<vgw_session_id_map, call_sequence_number_map, callsBeingThrottledMap,
                 callSequenceNumber, activeConcurrentCallsCnt>>
metricVars  == <<peakConcurrentCallsCnt, nVoiceCallsProcessed, nVoiceCallsThrottled,
                 nOutputTuplesSent, emptySpeechPacketsCnt>>
timeVars    == <<timeOfPreviousStaleSessionRemoval, now>>

vars == <<client_connections_map, callVars, vgwSessionPhoneNumbersMap, metricVars,
          maxConcurrentCallsAllowed, timeVars, out, link, shutdown>>

-----------------------------------------------------------------------------
(* connection_metadata, as far as a decision depends on it.  A connection  *)
(* is "opened" or has "started" a session.                                 *)
Metadata ==
  [vgwSessionStatus         : {"opened", "started"},
   vgwSessionStartTime      : Nat,
   speechPacketsReceivedCnt : Nat,
   vgwSessionId             : Session \union {NoSession},
   vgwIsCaller              : BOOLEAN,
   vgwVoiceChannelNumber    : {0, 1, 2}]

(* An output tuple: speech, or the end-of-call signal of a leg.            *)
Tuple(kind, s, number, channel) ==
  [kind |-> kind, session |-> s, number |-> number, channel |-> channel]

(* std::map: insertion or update of one key, erasure of keys, and the      *)
(* insertion of a zero that operator[] makes for keys it does not find.    *)
Put(f, k, v)     == [x \in DOMAIN f \union {k} |-> IF x = k THEN v ELSE f[x]]
Erase(f, K)      == [x \in DOMAIN f \ K |-> f[x]]
ReadBy(f, K)     == [x \in DOMAIN f \union K |-> IF x \in DOMAIN f THEN f[x] ELSE 0]
NumberIn(f, k)   == IF k \in DOMAIN f THEN f[k] ELSE 0

EmptyMap == [x \in {} |-> 0]

-----------------------------------------------------------------------------
Init ==
  /\ client_connections_map = EmptyMap
  /\ vgw_session_id_map = EmptyMap
  /\ call_sequence_number_map = EmptyMap
  /\ callsBeingThrottledMap = {}
  /\ vgwSessionPhoneNumbersMap = {}
  /\ callSequenceNumber = 0
  /\ activeConcurrentCallsCnt = 0
  /\ peakConcurrentCallsCnt = 0
  /\ maxConcurrentCallsAllowed = InitialMaxConcurrentCalls
  /\ nVoiceCallsProcessed = 0
  /\ nVoiceCallsThrottled = 0
  /\ nOutputTuplesSent = 0
  /\ emptySpeechPacketsCnt = 0
  /\ timeOfPreviousStaleSessionRemoval = 0
  /\ out = {}
  /\ link = [c \in Connection |-> "new"]
  /\ now = 0
  /\ shutdown = "no"

-----------------------------------------------------------------------------
(* on_open.  A handshake that was under way when the operator stopped to   *)
(* listen may still complete.                                              *)
OnOpen(c) ==
  /\ link[c] = "new"
  /\ link' = [link EXCEPT ![c] = "open"]
  /\ client_connections_map' =
       Put(client_connections_map, c,
           [vgwSessionStatus         |-> "opened",
            vgwSessionStartTime      |-> now,
            speechPacketsReceivedCnt |-> 0,
            vgwSessionId             |-> NoSession,
            vgwIsCaller              |-> FALSE,
            vgwVoiceChannelNumber    |-> 0])
  /\ out' = {}
  /\ UNCHANGED <<callVars, vgwSessionPhoneNumbersMap, metricVars,
                 maxConcurrentCallsAllowed, timeVars, shutdown>>

(* on_message finds the metadata of the handle.  A text that is no start   *)
(* message, that lacks the session id or the role, or that comes after the *)
(* start changes nothing, nor does a start whose answer cannot be sent,    *)
(* nor any message of a handle that was purged.                            *)
Known(c) == link[c] = "open" /\ c \in DOMAIN client_connections_map

OnStart(c, s, isCaller) ==
  /\ Known(c)
  /\ client_connections_map[c].vgwSessionStatus = "opened"
  /\ client_connections_map' =
       [client_connections_map EXCEPT
          ![c].vgwSessionStatus = "started",
          ![c].vgwSessionId = s,
          ![c].vgwIsCaller = isCaller]
  /\ vgwSessionPhoneNumbersMap' = vgwSessionPhoneNumbersMap \union {<<s, isCaller>>}
  /\ out' = {}
  /\ UNCHANGED <<callVars, metricVars, maxConcurrentCallsAllowed, timeVars, link,
                 shutdown>>

(* Binary messages.  Empty ones are counted whatever the state is.         *)
OnEmptySpeech(c) ==
  /\ Known(c)
  /\ emptySpeechPacketsCnt < MaxEmpty
  /\ emptySpeechPacketsCnt' = emptySpeechPacketsCnt + 1
  /\ out' = {}
  /\ UNCHANGED <<client_connections_map, callVars, vgwSessionPhoneNumbersMap,
                 peakConcurrentCallsCnt, nVoiceCallsProcessed, nVoiceCallsThrottled,
                 nOutputTuplesSent, maxConcurrentCallsAllowed, timeVars, link, shutdown>>

(* The first speech of a leg makes its call known, or joins it.            *)
LimitReached == activeConcurrentCallsCnt >= maxConcurrentCallsAllowed

HighWaterMark(n) == IF n > peakConcurrentCallsCnt THEN n ELSE peakConcurrentCallsCnt

NewCall(c, s) ==
  /\ vgw_session_id_map' =
       Put(vgw_session_id_map, s, <<client_connections_map[c].vgwSessionStartTime>>)
  /\ callSequenceNumber' = callSequenceNumber + 1
  /\ call_sequence_number_map' = Put(call_sequence_number_map, s, callSequenceNumber + 1)
  /\ \/ /\ LimitReached
        /\ callsBeingThrottledMap' = callsBeingThrottledMap \union {s}
        /\ nVoiceCallsThrottled' = nVoiceCallsThrottled + 1
        /\ peakConcurrentCallsCnt' =
             HighWaterMark(maxConcurrentCallsAllowed + Cardinality(callsBeingThrottledMap'))
        /\ UNCHANGED activeConcurrentCallsCnt
     \/ /\ ~LimitReached
        /\ activeConcurrentCallsCnt' = activeConcurrentCallsCnt + 1
        /\ peakConcurrentCallsCnt' = HighWaterMark(activeConcurrentCallsCnt + 1)
        /\ UNCHANGED <<callsBeingThrottledMap, nVoiceCallsThrottled>>

JoinCall(c, s) ==
  /\ vgw_session_id_map' =
       [vgw_session_id_map EXCEPT
          ![s] = Append(@, client_connections_map[c].vgwSessionStartTime)]
  /\ call_sequence_number_map' = ReadBy(call_sequence_number_map, {s})
  /\ UNCHANGED <<callSequenceNumber, activeConcurrentCallsCnt, callsBeingThrottledMap,
                 nVoiceCallsThrottled, peakConcurrentCallsCnt>>

ContinueCall(s) ==
  /\ call_sequence_number_map' = ReadBy(call_sequence_number_map, {s})
  /\ UNCHANGED <<vgw_session_id_map, callSequenceNumber, activeConcurrentCallsCnt,
                 callsBeingThrottledMap, nVoiceCallsThrottled, peakConcurrentCallsCnt>>

(* What the packet does to the calls, and the channel its leg has then.    *)
Admit(c, s, channel) ==
  \/ /\ client_connections_map[c].speechPacketsReceivedCnt = 0
     /\ s \notin DOMAIN vgw_session_id_map
     /\ NewCall(c, s)
     /\ channel = 1
  \/ /\ client_connections_map[c].speechPacketsReceivedCnt = 0
     /\ s \in DOMAIN vgw_session_id_map
     /\ JoinCall(c, s)
     /\ channel = 2
  \/ /\ client_connections_map[c].speechPacketsReceivedCnt > 0
     /\ ContinueCall(s)
     /\ channel = client_connections_map[c].vgwVoiceChannelNumber

OnSpeech(c) ==
  LET s == client_connections_map[c].vgwSessionId IN
  /\ Known(c)
  /\ client_connections_map[c].vgwSessionStatus = "started"
  /\ client_connections_map[c].speechPacketsReceivedCnt < MaxPackets
  /\ \E channel \in {0, 1, 2} :
       /\ Admit(c, s, channel)
       /\ client_connections_map' =
            [client_connections_map EXCEPT
               ![c].speechPacketsReceivedCnt = @ + 1,
               ![c].vgwVoiceChannelNumber = channel]
       /\ out' = IF s \in callsBeingThrottledMap' THEN {}
                 ELSE {Tuple("speech", s, call_sequence_number_map'[s], channel)}
  /\ UNCHANGED <<vgwSessionPhoneNumbersMap, nVoiceCallsProcessed, nOutputTuplesSent,
                 emptySpeechPacketsCnt, maxConcurrentCallsAllowed, timeVars, link, shutdown>>

-----------------------------------------------------------------------------
(* on_close, first part: the leg of handle c ends, with it perhaps its     *)
(* call.                                                                   *)
sessionOf(c) == client_connections_map[c].vgwSessionId

(* Slip: a leg that never sent speech ends like one that did.              *)
LegEndsUnheard(c) ==
  /\ sessionOf(c) \in DOMAIN vgw_session_id_map
  /\ sessionOf(c) \in DOMAIN call_sequence_number_map

LegEnds(c) ==
  /\ sessionOf(c) \in DOMAIN vgw_session_id_map
  /\ sessionOf(c) \in DOMAIN call_sequence_number_map
  /\ client_connections_map[c].vgwVoiceChannelNumber > 0

CallEnds(c) == LegEnds(c) /\ Len(vgw_session_id_map[sessionOf(c)]) = 1

Ended(c) == IF CallEnds(c) THEN {sessionOf(c)} ELSE {}

AllButLast(q) == SubSeq(q, 1, Len(q) - 1)

SessionsAfterLeg(c) ==
  IF LegEnds(c) /\ ~CallEnds(c)
  THEN [vgw_session_id_map EXCEPT ![sessionOf(c)] = AllButLast(@)]
  ELSE Erase(vgw_session_id_map, Ended(c))

(* Second part: once per interval every session with an old leg and every  *)
(* old connection is purged, c included.                                   *)
PurgeDue ==
  /\ vgwStaleSessionPurgeInterval > 0
  /\ now - timeOfPreviousStaleSessionRemoval >= vgwStaleSessionPurgeInterval

StaleSessions(c) ==
  {s \in DOMAIN SessionsAfterLeg(c) :
     /\ PurgeDue
     /\ \E i \in DOMAIN SessionsAfterLeg(c)[s] :
          now - SessionsAfterLeg(c)[s][i] >= vgwStaleSessionPurgeInterval}

StaleConnections ==
  {d \in DOMAIN client_connections_map :
     /\ PurgeDue
     /\ now - client_connections_map[d].vgwSessionStartTime
          > vgwStaleSessionPurgeInterval}

(* The sessions that leave in this handler, those of them that count as    *)
(* active, and the throttled ones that are left when the old connections   *)
(* are looked at.                                                          *)
Leaving(c) == Ended(c) \union StaleSessions(c)

(* Slip: a call that is purged stays throttled.                            *)
ThrottledAfterLegOnly(c) == callsBeingThrottledMap \ Ended(c)

ThrottledAfter(c) == callsBeingThrottledMap \ Leaving(c)

(* Slip: calls that are purged do not count down.                          *)
ActiveEnding(c) == Ended(c) \ callsBeingThrottledMap

ActiveLeaving(c) == Leaving(c) \ callsBeingThrottledMap

(* Slip: a stale connection forgets the number of a call that may have     *)
(* other connections.                                                      *)
NumbersAfterConnections(c) ==
  Erase(call_sequence_number_map,
        Leaving(c) \union {sessionOf(d) : d \in StaleConnections})

(* Both loops read the number of the session after it was erased.          *)
NumbersAfter(c) == Erase(call_sequence_number_map, Leaving(c))

Signalled(c) == {d \in StaleConnections : sessionOf(d) \notin ThrottledAfter(c)}

NumbersRead(c) ==
  (StaleSessions(c) \ callsBeingThrottledMap) \union {sessionOf(d) : d \in Signalled(c)}

(* Slips: the signal of a leg reads the number after it was erased, is     *)
(* sent for throttled calls too, or only at the end of the call.           *)
LegSignalAfterErase(c) ==
  IF LegEnds(c) /\ sessionOf(c) \notin callsBeingThrottledMap
  THEN {Tuple("end", sessionOf(c), NumberIn(NumbersAfter(c), sessionOf(c)),
              client_connections_map[c].vgwVoiceChannelNumber)}
  ELSE {}

LegSignalUnthrottled(c) ==
  IF LegEnds(c)
  THEN {Tuple("end", sessionOf(c), call_sequence_number_map[sessionOf(c)],
              client_connections_map[c].vgwVoiceChannelNumber)}
  ELSE {}

LegSignalOfCall(c) ==
  IF CallEnds(c) /\ sessionOf(c) \notin callsBeingThrottledMap
  THEN {Tuple("end", sessionOf(c), call_sequence_number_map[sessionOf(c)],
              client_connections_map[c].vgwVoiceChannelNumber)}
  ELSE {}

(* The end-of-call signals: of the leg, of both channels of every stale    *)
(* session, and of every stale connection.                                 *)
LegSignal(c) ==
  IF LegEnds(c) /\ sessionOf(c) \notin callsBeingThrottledMap
  THEN {Tuple("end", sessionOf(c), call_sequence_number_map[sessionOf(c)],
              client_connections_map[c].vgwVoiceChannelNumber)}
  ELSE {}

SessionSignals(c) ==
  {Tuple("end", s, NumberIn(NumbersAfter(c), s), channel) :
     s \in StaleSessions(c) \ callsBeingThrottledMap, channel \in {1, 2}}

ConnectionSignals(c) ==
  {Tuple("end", sessionOf(d), NumberIn(NumbersAfter(c), sessionOf(d)),
         client_connections_map[d].vgwVoiceChannelNumber) : d \in Signalled(c)}

(* The telephone numbers of the leg, of the stale sessions and of the      *)
(* stale connections.                                                      *)
phoneKey(c) == <<sessionOf(c), client_connections_map[c].vgwIsCaller>>

(* Slip: the numbers of stale connections stay.                            *)
PhonesGoneOfLegs(c) == {phoneKey(c)} \union (StaleSessions(c) \X BOOLEAN)

PhonesGone(c) ==
  {phoneKey(d) : d \in {c} \union StaleConnections} \union (StaleSessions(c) \X BOOLEAN)

CloseKnown(c) ==
  /\ c \in DOMAIN client_connections_map
  /\ vgw_session_id_map' = Erase(SessionsAfterLeg(c), StaleSessions(c))
  /\ call_sequence_number_map' = ReadBy(NumbersAfter(c), NumbersRead(c))
  /\ callsBeingThrottledMap' = ThrottledAfter(c)
  /\ activeConcurrentCallsCnt' = activeConcurrentCallsCnt - Cardinality(ActiveLeaving(c))
  /\ vgwSessionPhoneNumbersMap' = vgwSessionPhoneNumbersMap \ PhonesGone(c)
  /\ nVoiceCallsProcessed' = nVoiceCallsProcessed + Cardinality(Ended(c))
  /\ nOutputTuplesSent' =
       nOutputTuplesSent + client_connections_map[c].speechPacketsReceivedCnt
  /\ client_connections_map' = Erase(client_connections_map, {c} \union StaleConnections)
  /\ timeOfPreviousStaleSessionRemoval' =
       IF PurgeDue THEN now ELSE timeOfPreviousStaleSessionRemoval
  /\ out' = LegSignal(c) \union SessionSignals(c) \union ConnectionSignals(c)
  /\ UNCHANGED <<callSequenceNumber, peakConcurrentCallsCnt, nVoiceCallsThrottled,
                 emptySpeechPacketsCnt>>

(* The handle is not in the map: the handler returns at once.              *)
CloseUnknown(c) ==
  /\ c \notin DOMAIN client_connections_map
  /\ out' = {}
  /\ UNCHANGED <<client_connections_map, callVars, vgwSessionPhoneNumbersMap, metricVars,
                 timeOfPreviousStaleSessionRemoval>>

OnClose(c) ==
  /\ link[c] \in {"open", "closing"}
  /\ link' = [link EXCEPT ![c] = "gone"]
  /\ CloseKnown(c) \/ CloseUnknown(c)
  /\ UNCHANGED <<maxConcurrentCallsAllowed, now, shutdown>>

-----------------------------------------------------------------------------
(* on_http_message: SetMaxConcurrentCalls.  Every other request, and one   *)
(* with a negative limit, only reads.                                      *)
OnSetMaxConcurrentCalls(n) ==
  /\ maxConcurrentCallsAllowed' = n
  /\ out' = {}
  /\ UNCHANGED <<client_connections_map, callVars, vgwSessionPhoneNumbersMap, metricVars,
                 timeVars, link, shutdown>>

Tick ==
  /\ now < MaxTime
  /\ now' = now + 1
  /\ out' = {}
  /\ UNCHANGED <<client_connections_map, callVars, vgwSessionPhoneNumbersMap, metricVars,
                 maxConcurrentCallsAllowed, timeOfPreviousStaleSessionRemoval, link,
                 shutdown>>

(* prepareToShutdown closes every connection it finds, waits until the     *)
(* handlers have run or three minutes have passed, and clears three of the *)
(* maps.                                                                   *)
CloseConnections ==
  /\ MayShutDown
  /\ shutdown = "no"
  /\ shutdown' = "closing"
  /\ link' = [c \in Connection |->
                IF Known(c) THEN "closing" ELSE link[c]]
  /\ out' = {}
  /\ UNCHANGED <<client_connections_map, callVars, vgwSessionPhoneNumbersMap, metricVars,
                 maxConcurrentCallsAllowed, timeVars>>

ClearMaps ==
  /\ shutdown = "closing"
  /\ shutdown' = "cleared"
  /\ client_connections_map' = EmptyMap
  /\ vgw_session_id_map' = EmptyMap
  /\ call_sequence_number_map' = EmptyMap
  /\ out' = {}
  /\ UNCHANGED <<callsBeingThrottledMap, callSequenceNumber, activeConcurrentCallsCnt,
                 vgwSessionPhoneNumbersMap, metricVars, maxConcurrentCallsAllowed,
                 timeVars, link>>

-----------------------------------------------------------------------------
Next ==
  \/ \E c \in Connection :
       \/ OnOpen(c)
       \/ \E s \in Session, isCaller \in BOOLEAN : OnStart(c, s, isCaller)
       \/ OnEmptySpeech(c)
       \/ OnSpeech(c)
       \/ OnClose(c)
  \/ \E n \in Limits : OnSetMaxConcurrentCalls(n)
  \/ Tick
  \/ CloseConnections
  \/ ClearMaps

Spec == Init /\ [][Next]_vars

-----------------------------------------------------------------------------
Live == DOMAIN vgw_session_id_map

(* Until the maps are cleared the count that admission depends on is the   *)
(* number of live calls that are not throttled, through every mix of leg   *)
(* ends and purges; hence it never wraps below zero.                       *)
ActiveCountsCalls ==
  shutdown # "cleared" =>
    activeConcurrentCallsCnt = Cardinality(Live \ callsBeingThrottledMap)

(* A call is throttled only as long as it lives, so a session id is never  *)
(* ignored because of an earlier call.                                     *)
ThrottledCallsLive == shutdown # "cleared" => callsBeingThrottledMap \subseteq Live

(* Two live calls never have the same number, and no live call has number  *)
(* zero, whatever else is left in the map of numbers.                      *)
LiveCallsHaveOwnNumbers ==
  /\ \A s \in Live : /\ s \in DOMAIN call_sequence_number_map
                     /\ call_sequence_number_map[s] \in 1 .. callSequenceNumber
  /\ \A s, t \in Live :
       call_sequence_number_map[s] = call_sequence_number_map[t] => s = t

(* A telephone number is kept only while a connection of that role and     *)
(* session is open: nothing is leaked.                                     *)
PhonesBelongToLegs ==
  shutdown # "cleared" =>
    vgwSessionPhoneNumbersMap \subseteq {phoneKey(c) : c \in DOMAIN client_connections_map}

(* Without purging, the list of a session has one entry per leg that has   *)
(* sent speech and is still open; the call ends with the last of them.     *)
Legs(s) ==
  {c \in DOMAIN client_connections_map :
     sessionOf(c) = s /\ client_connections_map[c].vgwVoiceChannelNumber > 0}

ListsCountLegs ==
  shutdown # "cleared" /\ vgwStaleSessionPurgeInterval = 0 =>
    \A s \in Session :
      Cardinality(Legs(s)) = IF s \in Live THEN Len(vgw_session_id_map[s]) ELSE 0

(* Without purging, every numbered call is live or was processed, once.    *)
CallsAccountedFor ==
  shutdown # "cleared" /\ vgwStaleSessionPurgeInterval = 0 =>
    callSequenceNumber = nVoiceCallsProcessed + Cardinality(Live)

(* "Returns an integer value indicating the unique sequence number of a    *)
(* voice call" (IBMVoiceGatewaySource.xml): a tuple with number zero names *)
(* no call.                                                                *)
TuplesCarryCallNumber == \A o \in out : o.number \in 1 .. callSequenceNumber

(* "Submit this tuple only if this voice call is not chosen to be          *)
(* throttled" (on_message, and at every signal of on_close): no handler    *)
(* submits a tuple of a call that is throttled when the handler starts.    *)
ThrottledCallsAreSilent ==
  [][\A o \in out' : o.session \notin callsBeingThrottledMap]_vars

(* "Send End Of Call Signal (EOCS) on this port whenever a particular      *)
(* voice channel of an ongoing call closes its WebSocket connection"       *)
(* (IBMVoiceGatewaySource.xml): the close of a leg that has sent speech is *)
(* signalled with its session and channel, unless its call is throttled or *)
(* the operator was cleared.                                               *)
EveryLegIsSignalled ==
  [][\A c \in DOMAIN client_connections_map :
       /\ link[c] # link'[c] /\ link'[c] = "gone"
       /\ client_connections_map[c].vgwVoiceChannelNumber > 0
       /\ sessionOf(c) \notin callsBeingThrottledMap
       => \E o \in out' :
            /\ o.kind = "end"
            /\ o.session = sessionOf(c)
            /\ o.channel = client_connections_map[c].vgwVoiceChannelNumber]_vars

-----------------------------------------------------------------------------
(* Refinement: until the maps are cleared, counters and maps decide on     *)
(* calls the way CallAdmission says.                                       *)
Cleared == shutdown = "cleared"

LiveUncleared == IF Cleared THEN {} ELSE Live
Refused       == IF Cleared THEN {} ELSE callsBeingThrottledMap
Heard         == IF Cleared THEN {} ELSE {o.session : o \in {t \in out : t.kind = "speech"}}

Admission == INSTANCE CallAdmission
  WITH Call <- Session, live <- LiveUncleared, refused <- Refused,
       limit <- maxConcurrentCallsAllowed, heard <- Heard

(* Whether a call is ignored is decided once, by the number of calls that  *)
(* are admitted when it begins, and holds until the call leaves; legs that *)
(* join or end, purges and new limits never revise it.                     *)
AdmissionSpec == Admission!Spec

=============================================================================
