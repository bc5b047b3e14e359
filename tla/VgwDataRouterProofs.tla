------------------------ MODULE VgwDataRouterProofs ------------------------
(***************************************************************************)
(* Theorems about VgwDataRouter, for any number of processors, any         *)
(* capacity and any stream of tuples: signals that are lost, doubled or    *)
(* late, speech after the end, sessions that come again.                   *)
(***************************************************************************)
EXTENDS VgwDataRouter, FiniteSetTheorems, FunctionTheorems, WellFoundedInduction,
        TLAPS

(* The maps of the router have their types, over whatever sessions came.   *)
MapsOK ==
  /\ numberOfEocsNeededForVoiceCallCompletion \in {1, 2}
  /\ speechProcessorStatusList \in [Processor -> Int]
  /\ IsFiniteSet(Mapped)
  /\ vgwSessionIdToSpeechProcessorMap \in [Mapped -> Processor]

(* No channel is remembered as completed of a session that has no          *)
(* processor, and none has completed all a call needs: what is remembered  *)
(* of a call ends with it and cannot end a later one of that session       *)
(* ("We can now do the clean-up in our state variables", onTuple BSD).     *)
NoKeysLeft ==
  \A s : CompletedOf(s) # {} =>
    /\ s \in Mapped
    /\ numberOfEocsNeededForVoiceCallCompletion = 2
    /\ CompletedOf(s) # keysOf(s)

-----------------------------------------------------------------------------
(* A new call is one more of its processor, and of no other.               *)
LEMMA NewCallCounted ==
  ASSUME SizesOfDeployment, NEW t, MapsOK, CountsAreCalls, SpeechOfNewCall(t)
  PROVE  MapsOK' /\ CountsAreCalls'
<1>1. PICK p \in Processor :
        /\ ChosenFor(p)
        /\ speechProcessorStatusList' = OneMore(p)
        /\ vgwSessionIdToSpeechProcessorMap' =
             [s \in Mapped \union {t.session} |->
                IF s = t.session THEN p ELSE vgwSessionIdToSpeechProcessorMap[s]]
  BY DEF SpeechOfNewCall
<1>2. t.session \notin Mapped /\ HasRoom(p)
  BY <1>1 DEF SpeechOfNewCall, ChosenFor
<1>3. Mapped' = Mapped \union {t.session} /\ IsFiniteSet(Mapped')
  <2>1. Mapped' = Mapped \union {t.session}
    BY <1>1 DEF Mapped
  <2> QED BY <2>1, FS_AddElement DEF MapsOK
<1>4. MapsOK'
  BY <1>1, <1>3 DEF MapsOK, SpeechOfNewCall, OneMore, Processor
<1>5. ASSUME NEW q \in Processor
      PROVE  /\ speechProcessorStatusList'[q] = Cardinality(CallsOf(q)')
             /\ speechProcessorStatusList'[q]
                  <= numberOfConcurrentCallsAllowedPerSpeechProcessor
  <2>1. IsFiniteSet(CallsOf(q)) /\ t.session \notin CallsOf(q)
    BY <1>2, FS_Subset DEF CallsOf, MapsOK
  <2>2. speechProcessorStatusList[q] = Cardinality(CallsOf(q))
    BY DEF CountsAreCalls
  <2>3. CASE q = p
    <3>1. CallsOf(q)' = CallsOf(q) \union {t.session}
      BY <1>1, <1>3, <2>3, <1>2 DEF CallsOf
    <3>2. Cardinality(CallsOf(q)') = Cardinality(CallsOf(q)) + 1
      BY <3>1, <2>1, FS_AddElement
    <3>3. speechProcessorStatusList'[q] = speechProcessorStatusList[q] + 1
      BY <1>1, <2>3 DEF MapsOK, OneMore
    <3>4. Cardinality(CallsOf(q)) \in Nat
      BY <2>1, FS_CardinalityType
    <3> QED
      BY <3>2, <3>3, <3>4, <2>2, <2>3, <1>2 DEF HasRoom, SizesOfDeployment
  <2>4. CASE q # p
    <3>1. CallsOf(q)' = CallsOf(q)
      BY <1>1, <1>3, <2>4, <1>2 DEF CallsOf
    <3>2. speechProcessorStatusList'[q] = speechProcessorStatusList[q]
      BY <1>1, <2>4 DEF MapsOK, OneMore
    <3> QED BY <3>1, <3>2 DEF CountsAreCalls
  <2> QED BY <2>3, <2>4
<1> QED BY <1>4, <1>5 DEF CountsAreCalls, Processor

(* A signal gives back the place that its session has, or none.            *)
LEMMA SignalCounted ==
  ASSUME SizesOfDeployment, NEW t, MapsOK, CountsAreCalls, SignalOfOngoingCall(t)
  PROVE  MapsOK' /\ CountsAreCalls'
<1>1. CASE ~CallCompleted(t)
  <2>1. UNCHANGED <<speechProcessorStatusList, vgwSessionIdToSpeechProcessorMap,
                    numberOfEocsNeededForVoiceCallCompletion>>
    BY <1>1 DEF SignalOfOngoingCall
  <2> QED BY <2>1 DEF MapsOK, CountsAreCalls, Mapped, CallsOf, Processor
<1>2. CASE CallCompleted(t)
  <2> DEFINE p == vgwSessionIdToSpeechProcessorMap[t.session]
  <2>1. /\ t.session \in Mapped
        /\ p \in Processor
        /\ speechProcessorStatusList' = [speechProcessorStatusList EXCEPT ![p] = @ - 1]
        /\ vgwSessionIdToSpeechProcessorMap' =
             [s \in Mapped \ {t.session} |-> vgwSessionIdToSpeechProcessorMap[s]]
        /\ UNCHANGED numberOfEocsNeededForVoiceCallCompletion
    BY <1>2 DEF SignalOfOngoingCall, MapsOK
  <2>2. Mapped' = Mapped \ {t.session} /\ IsFiniteSet(Mapped')
    <3>1. Mapped' = Mapped \ {t.session}
      BY <2>1 DEF Mapped
    <3> QED BY <3>1, FS_RemoveElement DEF MapsOK
  <2>3. MapsOK'
    BY <2>1, <2>2 DEF MapsOK, Processor
  <2>4. ASSUME NEW q \in Processor
        PROVE  /\ speechProcessorStatusList'[q] = Cardinality(CallsOf(q)')
               /\ speechProcessorStatusList'[q]
                    <= numberOfConcurrentCallsAllowedPerSpeechProcessor
    <3>1. IsFiniteSet(CallsOf(q))
      BY FS_Subset DEF CallsOf, MapsOK
    <3>2. /\ speechProcessorStatusList[q] = Cardinality(CallsOf(q))
          /\ speechProcessorStatusList[q]
               <= numberOfConcurrentCallsAllowedPerSpeechProcessor
      BY DEF CountsAreCalls
    <3>3. CASE q = p
      <4>1. t.session \in CallsOf(q)
        BY <2>1, <3>3 DEF CallsOf
      <4>2. CallsOf(q)' = CallsOf(q) \ {t.session}
        BY <2>1, <2>2 DEF CallsOf
      <4>3. Cardinality(CallsOf(q)') = Cardinality(CallsOf(q)) - 1
        BY <4>1, <4>2, <3>1, FS_RemoveElement
      <4>4. speechProcessorStatusList'[q] = speechProcessorStatusList[q] - 1
        BY <2>1, <3>3 DEF MapsOK
      <4>5. Cardinality(CallsOf(q)) \in Nat
        BY <3>1, FS_CardinalityType
      <4> QED BY <4>3, <4>4, <4>5, <3>2 DEF SizesOfDeployment
    <3>4. CASE q # p
      <4>1. CallsOf(q)' = CallsOf(q)
        BY <2>1, <2>2, <3>4 DEF CallsOf
      <4>2. speechProcessorStatusList'[q] = speechProcessorStatusList[q]
        BY <2>1, <3>4 DEF MapsOK
      <4> QED BY <4>1, <4>2, <3>2
    <3> QED BY <3>3, <3>4
  <2> QED BY <2>3, <2>4 DEF CountsAreCalls, Processor
<1> QED BY <1>1, <1>2

(* No tuple, of whatever session and kind, breaks the counts.              *)
LEMMA TupleCounted ==
  ASSUME SizesOfDeployment, NEW t, MapsOK, CountsAreCalls, OnTuple(t)
  PROVE  MapsOK' /\ CountsAreCalls'
<1>1. CASE SpeechOfNewCall(t)
  BY <1>1, NewCallCounted
<1>2. CASE SignalOfOngoingCall(t)
  BY <1>2, SignalCounted
<1>3. CASE SpeechRefused(t) \/ SpeechOfOngoingCall(t) \/ SignalIgnored(t)
  <2>1. UNCHANGED <<speechProcessorStatusList, vgwSessionIdToSpeechProcessorMap,
                    numberOfEocsNeededForVoiceCallCompletion>>
    BY <1>3 DEF SpeechRefused, SpeechOfOngoingCall, SignalIgnored
  <2> QED BY <2>1 DEF MapsOK, CountsAreCalls, Mapped, CallsOf, Processor
<1> QED BY <1>1, <1>2, <1>3 DEF OnTuple

(* The empty maps are right.                                               *)
LEMMA StartCounted ==
  ASSUME SizesOfDeployment, Init
  PROVE  MapsOK /\ CountsAreCalls
<1>1. Mapped = {}
  BY DEF Init, Mapped
<1>2. MapsOK
  BY <1>1, FS_EmptySet DEF Init, MapsOK, Processor
<1>3. ASSUME NEW p \in Processor
      PROVE  speechProcessorStatusList[p] = 0 /\ Cardinality(CallsOf(p)) = 0
  <2>1. CallsOf(p) = {}
    BY <1>1 DEF CallsOf
  <2> QED BY <2>1, FS_EmptySet DEF Init
<1>4. 0 <= numberOfConcurrentCallsAllowedPerSpeechProcessor
  BY DEF SizesOfDeployment
<1>5. CountsAreCalls
  BY <1>3, <1>4 DEF CountsAreCalls
<1> QED BY <1>2, <1>5

(* The count of every processor is the number of the calls it has, and     *)
(* never above its capacity (the status list of onTuple BSD).              *)
THEOREM PlacesCounted ==
  ASSUME SizesOfDeployment
  PROVE  Spec => []CountsAreCalls
<1>1. Init => MapsOK /\ CountsAreCalls
  BY StartCounted
<1>2. MapsOK /\ CountsAreCalls /\ [Next]_vars => (MapsOK /\ CountsAreCalls)'
  <2> SUFFICES ASSUME MapsOK, CountsAreCalls, [Next]_vars
               PROVE  MapsOK' /\ CountsAreCalls'
    OBVIOUS
  <2>1. CASE Next
    BY <2>1, TupleCounted DEF Next
  <2>2. CASE UNCHANGED vars
    BY <2>2 DEF vars, MapsOK, CountsAreCalls, Mapped, CallsOf, Processor
  <2> QED BY <2>1, <2>2
<1> QED BY <1>1, <1>2, PTL DEF Spec

-----------------------------------------------------------------------------
(* The keys of completed channels are those of calls that are still open.  *)
LEMMA TupleLeavesNoKeys ==
  ASSUME NEW t, numberOfEocsNeededForVoiceCallCompletion \in {1, 2},
         NoKeysLeft, OnTuple(t)
  PROVE  /\ numberOfEocsNeededForVoiceCallCompletion' \in {1, 2}
         /\ NoKeysLeft'
<1>1. UNCHANGED numberOfEocsNeededForVoiceCallCompletion
  BY DEF OnTuple, SpeechOfNewCall, SpeechRefused, SpeechOfOngoingCall,
         SignalOfOngoingCall, SignalIgnored
<1>2. CASE SpeechOfNewCall(t)
  <2>1. Mapped \subseteq Mapped'
    BY <1>2 DEF SpeechOfNewCall, Mapped
  <2> QED BY <2>1, <1>1, <1>2 DEF NoKeysLeft, CompletedOf, SpeechOfNewCall
<1>3. CASE SignalOfOngoingCall(t)
  <2> SUFFICES ASSUME NEW s, CompletedOf(s)' # {}
               PROVE  /\ s \in Mapped'
                      /\ numberOfEocsNeededForVoiceCallCompletion' = 2
                      /\ CompletedOf(s)' # keysOf(s)
    BY <1>1 DEF NoKeysLeft, keysOf
  <2>1. CASE s = t.session
    <3>1. ~CallCompleted(t)
      BY <1>3, <2>1 DEF SignalOfOngoingCall, CompletedOf
    <3>2. CompletedOf(s)' = keysOf(s) \intersect Completed(t)
      BY <1>3, <3>1 DEF SignalOfOngoingCall, CompletedOf, keysOf
    <3>3. s \in Mapped'
      BY <1>3, <3>1, <2>1 DEF SignalOfOngoingCall, Mapped
    <3> QED BY <3>1, <3>2, <3>3, <2>1, <1>1 DEF CallCompleted
  <2>2. CASE s # t.session
    <3>1. CompletedOf(s)' = CompletedOf(s)
      BY <1>3, <2>2 DEF SignalOfOngoingCall, CompletedOf, Completed, keysOf
    <3>2. s \in Mapped => s \in Mapped'
      BY <1>3, <2>2 DEF SignalOfOngoingCall, Mapped
    <3> QED BY <3>1, <3>2, <1>1 DEF NoKeysLeft
  <2> QED BY <2>1, <2>2
<1>4. CASE SpeechRefused(t) \/ SpeechOfOngoingCall(t) \/ SignalIgnored(t)
  BY <1>1, <1>4 DEF NoKeysLeft, CompletedOf, Mapped, SpeechRefused,
                    SpeechOfOngoingCall, SignalIgnored
<1> QED BY <1>1, <1>2, <1>3, <1>4 DEF OnTuple

(* Nothing that is remembered of a call outlives it.                       *)
THEOREM KeysEndWithCall == Spec => []NoKeysLeft
<1> DEFINE KInv == /\ numberOfEocsNeededForVoiceCallCompletion \in {1, 2}
                   /\ NoKeysLeft
<1>1. Init => KInv
  BY DEF Init, NoKeysLeft, CompletedOf
<1>2. KInv /\ [Next]_vars => KInv'
  <2> SUFFICES ASSUME KInv, [Next]_vars PROVE KInv'
    OBVIOUS
  <2>1. CASE Next
    BY <2>1, TupleLeavesNoKeys DEF Next
  <2>2. CASE UNCHANGED vars
    BY <2>2 DEF vars, NoKeysLeft, CompletedOf, Mapped
  <2> QED BY <2>1, <2>2
<1>3. KInv => NoKeysLeft
  OBVIOUS
<1> QED BY <1>1, <1>2, <1>3, PTL DEF Spec
-----------------------------------------------------------------------------
(* Places.                                                                 *)

(* With every processor full, there are as many calls as places.           *)
LEMMA AllFull ==
  ASSUME SizesOfDeployment, MapsOK, CountsAreCalls, \A p \in Processor : ~HasRoom(p)
  PROVE  totalNumberOfSpeechProcessorJobs * numberOfConcurrentCallsAllowedPerSpeechProcessor
           <= Cardinality(Mapped)
<1> DEFINE N == totalNumberOfSpeechProcessorJobs
           C == numberOfConcurrentCallsAllowedPerSpeechProcessor
<1>0. N \in Nat /\ C \in Nat
  BY DEF SizesOfDeployment
<1>1. ASSUME NEW p \in Processor PROVE Injection(1 .. C, CallsOf(p)) # {}
  <2>1. speechProcessorStatusList[p] = C
    BY <1>0 DEF HasRoom, CountsAreCalls, MapsOK
  <2>2. IsFiniteSet(CallsOf(p)) /\ Cardinality(CallsOf(p)) = C
    BY <2>1, FS_Subset DEF CallsOf, MapsOK, CountsAreCalls
  <2>3. ExistsBijection(1 .. C, CallsOf(p))
    BY <2>2, FS_CardinalityType
  <2>. QED
    BY <2>3 DEF ExistsBijection, Bijection
<1> DEFINE F    == [p \in Processor |-> CHOOSE f : f \in Injection(1 .. C, CallsOf(p))]
           Seat == [x \in Processor \X (1 .. C) |-> F[x[1]][x[2]]]
<1>2. ASSUME NEW p \in Processor
      PROVE  /\ F[p] \in [1 .. C -> CallsOf(p)]
             /\ \A i, j \in 1 .. C : F[p][i] = F[p][j] => i = j
  <2>1. F[p] \in Injection(1 .. C, CallsOf(p))
    BY <1>1
  <2>. QED
    BY <2>1 DEF Injection, IsInjective
<1> HIDE DEF F
<1>3. ASSUME NEW x \in Processor \X (1 .. C)
      PROVE  Seat[x] \in Mapped /\ vgwSessionIdToSpeechProcessorMap[Seat[x]] = x[1]
  <2>1. x[1] \in Processor /\ x[2] \in 1 .. C /\ Seat[x] = F[x[1]][x[2]]
    OBVIOUS
  <2>2. F[x[1]][x[2]] \in CallsOf(x[1])
    BY <1>2, <2>1
  <2>. QED
    BY <2>1, <2>2 DEF CallsOf
<1>4. ASSUME NEW x \in Processor \X (1 .. C), NEW y \in Processor \X (1 .. C),
             Seat[x] = Seat[y]
      PROVE  x = y
  <2>1. x[1] = y[1]
    BY <1>3, <1>4
  <2>2. F[x[1]][x[2]] = F[x[1]][y[2]]
    BY <1>4, <2>1
  <2>3. x[2] = y[2]
    BY <1>2, <2>2
  <2>. QED
    BY <2>1, <2>3
<1> HIDE DEF Seat
<1>5. Seat \in [Processor \X (1 .. C) -> Mapped]
  BY <1>3 DEF Seat
<1>6. Seat \in Injection(Processor \X (1 .. C), Mapped)
  BY <1>4, <1>5 DEF Injection, IsInjective
<1>7. Cardinality(Processor \X (1 .. C)) <= Cardinality(Mapped)
  BY <1>6, FS_Injection DEF MapsOK
<1>8. /\ IsFiniteSet(Processor) /\ Cardinality(Processor) = N
      /\ IsFiniteSet(1 .. C) /\ Cardinality(1 .. C) = C
  BY <1>0, FS_Interval DEF Processor
<1>9. Cardinality(Processor \X (1 .. C)) = N * C
  BY <1>8, FS_Product
<1>. QED
  BY <1>7, <1>9

(* The search goes round the list, so it meets every processor.            *)
LEMMA SearchIsComplete ==
  ASSUME SizesOfDeployment, recentlyChosenSpeechProcessorId \in {-1} \union Processor,
         NEW p \in Processor
  PROVE  \E k \in 0 .. totalNumberOfSpeechProcessorJobs - 1 : p = Checked(k)
<1> DEFINE N == totalNumberOfSpeechProcessorJobs
<1>1. N \in Nat \ {0} /\ p \in 1 .. N /\ firstIndex \in 0 .. N - 1
  BY DEF SizesOfDeployment, Processor, firstIndex
<1>2. \A i \in 0 .. N - 1 : i % N = i /\ (i + N) % N = i
  BY <1>1, Z3
<1>3. CASE firstIndex <= p - 1
  <2>1. p - 1 - firstIndex \in 0 .. N - 1
    BY <1>1, <1>3
  <2>2. firstIndex + (p - 1 - firstIndex) = p - 1 /\ p - 1 \in 0 .. N - 1
    BY <1>1
  <2>3. Checked(p - 1 - firstIndex) = (p - 1) + 1
    BY <1>2, <2>2 DEF Checked
  <2>. QED
    BY <1>1, <2>1, <2>3
<1>4. CASE firstIndex > p - 1
  <2>1. p - 1 - firstIndex + N \in 0 .. N - 1
    BY <1>1, <1>4
  <2>2. firstIndex + (p - 1 - firstIndex + N) = (p - 1) + N /\ p - 1 \in 0 .. N - 1
    BY <1>1
  <2>3. Checked(p - 1 - firstIndex + N) = (p - 1) + 1
    BY <1>2, <2>2 DEF Checked
  <2>. QED
    BY <1>1, <2>1, <2>3
<1>. QED
  BY <1>1, <1>3, <1>4

(* While there are fewer calls than places, a new call gets one.           *)
THEOREM PlaceFound ==
  ASSUME SizesOfDeployment, MapsOK, CountsAreCalls,
         recentlyChosenSpeechProcessorId \in {-1} \union Processor,
         Cardinality(Mapped) < totalNumberOfSpeechProcessorJobs
                                 * numberOfConcurrentCallsAllowedPerSpeechProcessor
  PROVE  \E p \in Processor : ChosenFor(p)
<1> DEFINE N == totalNumberOfSpeechProcessorJobs
           K == {k \in 0 .. N - 1 : HasRoom(Checked(k)) /\ Checked(k) \in Processor}
<1>0. N \in Nat
  BY DEF SizesOfDeployment
<1>1. PICK p \in Processor : HasRoom(p)
  <2>1. Cardinality(Mapped) \in Nat
    BY FS_CardinalityType DEF MapsOK
  <2>2. N * numberOfConcurrentCallsAllowedPerSpeechProcessor \in Nat
    BY DEF SizesOfDeployment
  <2>. QED
    BY <2>1, <2>2, AllFull
<1>2. K # {} /\ K \subseteq Nat
  BY <1>0, <1>1, SearchIsComplete
<1>3. PICK k \in K : \A j \in K : ~(<<j, k>> \in OpToRel(<, Nat))
  BY <1>2, NatLessThanWellFounded, WFMin
<1>4. \A j \in K : ~(j < k)
  BY <1>2, <1>3 DEF OpToRel
<1>5. ASSUME NEW j \in 0 .. k - 1 PROVE ~HasRoom(Checked(j))
  <2>1. j \in 0 .. N - 1 /\ j < k /\ k \in 0 .. N - 1
    BY <1>0, <1>2
  <2>2. Checked(j) \in Processor
    <3>1. firstIndex \in Nat /\ N # 0
      BY <1>0, <2>1 DEF firstIndex, Processor
    <3>2. (firstIndex + j) % N \in 0 .. N - 1
      BY <1>0, <2>1, <3>1
    <3>. QED
      BY <1>0, <3>2 DEF Checked, Processor
  <2>. QED
    BY <1>4, <2>1, <2>2
<1>. QED
  BY <1>5 DEF ChosenFor
=============================================================================
