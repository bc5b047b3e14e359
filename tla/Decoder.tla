------------------------------ MODULE Decoder ------------------------------
(***************************************************************************)
(* The decoder of the service's messages (Decoder*.hpp): pure operators    *)
(* that take the decoder's attributes and a message to the attributes      *)
(* after doWork.  A message is a record of JSON members; a member may be   *)
(* absent or of a wrong type, and the exception that this may cause leaves *)
(* the attributes as far as they were decoded.                             *)
(***************************************************************************)
EXTENDS Integers, SequencesExt

CONSTANTS
  Absent,    \* a member that the message does not have
  IllTyped,  \* a member of a wrong JSON type, or an array of a wrong size
  keywordsToBeSpotted

ASSUME AbsentIsNotIllTyped == Absent # IllTyped
ASSUME KeywordsAreListed ==
  keywordsToBeSpotted \in Seq({keywordsToBeSpotted[i] : i \in DOMAIN keywordsToBeSpotted})

(* getRequiredMember and getOptionalMember do not throw.                   *)
Required(member) == member # Absent /\ member # IllTyped
Optional(member) == member # IllTyped

Members(member) == IF member = Absent THEN <<>> ELSE member

(* A loop over an array stops at the first entry that throws.              *)
WellTyped(array) == \A i \in DOMAIN array : array[i] # IllTyped

Readable(array) ==
  IF WellTyped(array) THEN array
  ELSE SubSeq(array, 1, SelectInSeq(array, LAMBDA e : e = IllTyped) - 1)

(* A message as far as its reader knows it: a member that is neither       *)
(* absent nor ill-typed has the type that is asked for.                    *)
IsArray(a) == a \in Seq({a[i] : i \in DOMAIN a})

ArrayMember(member) == Required(member) => IsArray(member)

WellShaped(alternative) ==
  alternative # IllTyped =>
    ArrayMember(alternative.timestamps) /\ ArrayMember(alternative.word_confidence)

IsResult(r) ==
  r # IllTyped =>
    /\ Required(r.final) => r.final \in BOOLEAN
    /\ ArrayMember(r.alternatives)
    /\ Required(r.alternatives) =>
         \A i \in DOMAIN r.alternatives : WellShaped(r.alternatives[i])

IsMessage(m) ==
  /\ ArrayMember(m.results)
  /\ Required(m.results) => \A i \in DOMAIN m.results : IsResult(m.results[i])

-----------------------------------------------------------------------------
(* The attributes.  Lists that are always extended together are one list   *)
(* of records: words holds [word, start, end], labels [from, speaker], a   *)
(* speaker standing for its number and its confidence.  The number of      *)
(* results is the length of finals.                                        *)
NothingDecoded ==
  [thrown |-> FALSE, error |-> Absent, state |-> Absent, resultIndex |-> -1,
   finals |-> <<>>, confidence |-> 0, text |-> <<>>, alternatives |-> <<>>,
   words |-> <<>>, wordConfidences |-> <<>>, start |-> 0, end |-> 0,
   wordAlternatives |-> <<>>, keywords |-> <<>>, labels |-> <<>>]

Throw(d) == [d EXCEPT !.thrown = TRUE]

(* Slip: the confidences of the words are not reset.                       *)
ResetAllButConfidences(d) ==
  [NothingDecoded EXCEPT !.wordConfidences = d.wordConfidences]

(* reset() of results and speaker labels; error, state and index are       *)
(* assigned by every doWork.                                               *)
Reset(d) == NothingDecoded

(* DecoderError and DecoderState.                                          *)
DecodeErrorAndState(d, m) ==
  IF ~Optional(m.error) THEN Throw(d)
  ELSE IF ~Optional(m.state) THEN Throw([d EXCEPT !.error = m.error])
  ELSE [d EXCEPT !.error = m.error, !.state = m.state]

(* Timestamps of the first alternative of result i: the words of all       *)
(* results, the start of the first result's first word, the last end.      *)
DecodeTimestamps(d, timestamps, i) ==
  LET new == Readable(timestamps)
  IN  IF d.thrown THEN d
      ELSE [d EXCEPT !.words = @ \o new,
                     !.start = IF i = 1 /\ new # <<>> THEN new[1].start ELSE @,
                     !.end = IF new # <<>> THEN Last(new).end ELSE @,
                     !.thrown = ~WellTyped(timestamps)]

DecodeWordConfidences(d, confidences) ==
  IF d.thrown THEN d
  ELSE [d EXCEPT !.wordConfidences = @ \o Readable(confidences),
                 !.thrown = ~WellTyped(confidences)]

(* The first alternative: the confidence of the first result unless the    *)
(* results are complete, the transcript, timestamps, and word confidences  *)
(* of a final result.                                                      *)
DecodeFirst(d, alternative, i, final, complete) ==
  LET c == alternative.confidence
      confident == ~complete /\ i = 1
      d1 == IF confident THEN [d EXCEPT !.confidence = IF c = Absent THEN -1 ELSE c] ELSE d
      d2 == [d1 EXCEPT !.text = Append(@, alternative.transcript)]
      d3 == DecodeTimestamps(d2, Members(alternative.timestamps), i)
  IN  IF alternative = IllTyped \/ (confident /\ c = IllTyped) THEN Throw(d)
      ELSE IF ~Required(alternative.transcript) THEN Throw(d1)
      ELSE IF ~Optional(alternative.timestamps) THEN Throw(d2)
      ELSE IF ~final \/ d3.thrown THEN d3
      ELSE IF ~Optional(alternative.word_confidence) THEN Throw(d3)
      ELSE DecodeWordConfidences(d3, Members(alternative.word_confidence))

(* The transcripts of the other alternatives, of the first result only.    *)
DecodeOthers(d, others, i, complete) ==
  LET new == Readable(others)
  IN  IF d.thrown THEN d
      ELSE [d EXCEPT !.alternatives =
                       IF complete \/ i > 1 THEN @
                       ELSE @ \o [j \in DOMAIN new |-> new[j].transcript],
                     !.thrown = ~WellTyped(others)]

DecodeAlternatives(d, result, i, complete) ==
  LET alts == result.alternatives
  IN  IF ~Required(alts) THEN Throw(d)
      ELSE IF alts = <<>> THEN d
      ELSE DecodeOthers(DecodeFirst(d, alts[1], i, result.final, complete),
                        Tail(alts), i, complete)

DecodeWordAlternatives(d, result) ==
  LET entries == Members(result.word_alternatives)
  IN  IF d.thrown THEN d
      ELSE IF ~Optional(result.word_alternatives) THEN Throw(d)
      ELSE [d EXCEPT !.wordAlternatives = @ \o Readable(entries),
                     !.thrown = ~WellTyped(entries)]

(* The matches of every keyword that is wanted, in the order of the        *)
(* parameter; insert() keeps what the map already has for a keyword.       *)
DecodeKeywords(d, result) ==
  LET kws == result.keywords_result
      wanted == SelectSeq(keywordsToBeSpotted, LAMBDA k : k \in DOMAIN kws)
      matches == [i \in DOMAIN wanted |-> kws[wanted[i]]]
      read == {wanted[i] : i \in DOMAIN Readable(matches)}
  IN  IF d.thrown \/ kws = Absent THEN d
      ELSE IF kws = IllTyped THEN Throw(d)
      ELSE [d EXCEPT !.keywords = @ @@ [k \in read |-> kws[k]],
                     !.thrown = ~WellTyped(matches)]

(* One result: alternatives are decoded for final results and in mode      *)
(* partial, word alternatives and keywords for final results only.         *)
DecodeResult(d, result, i, mode) ==
  LET d1 == [d EXCEPT !.finals = Append(@, result.final)]
      d2 == IF result.final \/ mode = "partial"
            THEN DecodeAlternatives(d1, result, i, mode = "complete") ELSE d1
  IN  IF d.thrown THEN d
      ELSE IF result = IllTyped \/ ~Required(result.final) THEN Throw(d)
      ELSE IF result.final
      THEN DecodeKeywords(DecodeWordAlternatives(d2, result), result)
      ELSE d2

DecodeResults(d, m, mode) ==
  LET results == Members(m.results)
      decoded[i \in 0 .. Len(results)] ==
        IF i = 0 THEN d ELSE DecodeResult(decoded[i - 1], results[i], i, mode)
  IN  IF d.thrown THEN d
      ELSE IF ~Optional(m.results) THEN Throw(d)
      ELSE decoded[Len(results)]

DecodeResultIndex(d, m) ==
  IF d.thrown THEN d
  ELSE IF ~Optional(m.result_index) THEN Throw(d)
  ELSE [d EXCEPT !.resultIndex = IF m.result_index = Absent THEN -1 ELSE m.result_index]

DecodeSpeakerLabels(d, m) ==
  IF d.thrown THEN d
  ELSE IF ~Optional(m.speaker_labels) THEN Throw(d)
  ELSE LET labels == Members(m.speaker_labels)
       IN  [d EXCEPT !.labels = Readable(labels), !.thrown = ~WellTyped(labels)]

(* Decoder::doWork                                                         *)
Decode(d, m, mode) ==
  DecodeSpeakerLabels(
    DecodeResultIndex(
      DecodeResults(DecodeErrorAndState(Reset(d), m), m, mode), m), m)

-----------------------------------------------------------------------------
(* What a well-formed message says, without decoding: the reference that   *)
(* decoded attributes are compared with.  First alternatives of all        *)
(* results are joined, word confidences where the result is final; the     *)
(* other alternatives are those of the first result.                       *)
IsJoined(r, mode) == (r.final \/ mode = "partial") /\ r.alternatives # <<>>

TextOf(r, mode) ==
  IF IsJoined(r, mode) THEN <<r.alternatives[1].transcript>> ELSE <<>>

WordsOf(r, mode) ==
  IF IsJoined(r, mode) THEN Members(r.alternatives[1].timestamps) ELSE <<>>

ConfidencesOf(r, mode) ==
  IF r.final /\ IsJoined(r, mode) THEN Members(r.alternatives[1].word_confidence) ELSE <<>>

OthersOf(r, mode) ==
  IF mode = "complete" \/ ~IsJoined(r, mode) THEN <<>>
  ELSE LET others == Tail(r.alternatives)
       IN  [j \in DOMAIN others |-> others[j].transcript]

ExpectedText(m, mode) ==
  FlattenSeq([i \in DOMAIN m.results |-> TextOf(m.results[i], mode)])

ExpectedWords(m, mode) ==
  FlattenSeq([i \in DOMAIN m.results |-> WordsOf(m.results[i], mode)])

ExpectedConfidences(m, mode) ==
  FlattenSeq([i \in DOMAIN m.results |-> ConfidencesOf(m.results[i], mode)])

ExpectedAlternatives(m, mode) == OthersOf(m.results[1], mode)

ExpectedMatches(m, k) ==
  LET matches(r) ==
        IF ~r.final \/ r.keywords_result = Absent THEN <<>>
        ELSE IF k \in DOMAIN r.keywords_result THEN r.keywords_result[k] ELSE <<>>
  IN  FlattenSeq([i \in DOMAIN m.results |-> matches(m.results[i])])

=============================================================================
