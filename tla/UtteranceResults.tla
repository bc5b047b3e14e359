-------------------------- MODULE UtteranceResults --------------------------
(***************************************************************************)
(* What the receiver of WatsonSTT makes of the service's messages: the     *)
(* contents of the output tuples.  Module WatsonSTT shows which thread     *)
(* holds which tuple when; here every callback is one step, because only   *)
(* the receiver writes results, and the data are kept: the attributes of   *)
(* the decoder and of the tuples, the result that is held back until its   *)
(* speaker labels arrive, and what a callback submits.                     *)
(***************************************************************************)
EXTENDS Decoder

CONSTANTS
  Message,   \* what the service may send
  Configs,   \* settings of the parameters, see Config
  TupleId,   \* output tuples, reused when nothing refers to them
  NoTuple,   \* the null pointer
  NoMessage

ASSUME NoTupleIsNoTuple == NoTuple \notin TupleId
ASSUME NoMessageIsNoMessage == NoMessage \notin Message
ASSUME MessagesAreMessages == \A m \in Message : IsMessage(m)

VARIABLES
  configuration,
  wsState,
  dec,                         \* the attributes of the decoder
  myUtteranceWordsStartTimes,
  attributes,                  \* the attributes of every output tuple
  recentOTuple,
  oTupleUsedForSubmission,
  out,                         \* what the last callback submitted
  owed                         \* final results written to a tuple, not submitted

vars == <<configuration, wsState, dec, myUtteranceWordsStartTimes, attributes,
          recentOTuple, oTupleUsedForSubmission, out, owed>>

(* The constructor turns partial without interim results into final.       *)
Config == [sttOutputResultMode : {"partial", "final", "complete"},
           identifySpeakers : BOOLEAN,
           isTranscriptionCompletedRequested : BOOLEAN]

ASSUME ConfigsAreConfigs == Configs \subseteq Config

mode             == configuration.sttOutputResultMode
identifySpeakers == configuration.identifySpeakers

-----------------------------------------------------------------------------
(* Output tuples.                                                          *)

(* What setResultAttributes assigns, taken from the decoder.               *)
Utterance(d, final) ==
  [number |-> d.resultIndex + 1, final |-> final, confidence |-> d.confidence,
   start |-> d.start, end |-> d.end, text |-> d.text,
   alternatives |-> d.alternatives, words |-> d.words,
   wordConfidences |-> d.wordConfidences,
   wordAlternatives |-> d.wordAlternatives, keywords |-> d.keywords]

(* What it assigns to clear them, and what a new tuple holds.              *)
ClearedUtterance == Utterance([NothingDecoded EXCEPT !.confidence = -1], FALSE)
NewUtterance == [Utterance(NothingDecoded, FALSE) EXCEPT !.number = 0]

(* source, labels and due are not in the code: the message and the labels  *)
(* that the attributes come from, and whether they are a final result.     *)
NewTuple ==
  [utterance |-> NewUtterance, completed |-> FALSE, error |-> FALSE,
   speakers |-> <<>>, updates |-> {},
   source |-> NoMessage, labels |-> <<>>, due |-> FALSE]

(* A callback threads what it changes through its steps.                   *)
Entry == [attributes |-> attributes, held |-> oTupleUsedForSubmission,
          out |-> <<>>, owed |-> owed]

(* Returns is conjoined after recentOTuple'.  A tuple that nothing refers   *)
(* to any more is never read: it counts as new.                            *)
Returns(s) ==
  /\ attributes' = [t \in TupleId |-> IF t \in {recentOTuple', s.held}
                                      THEN s.attributes[t] ELSE NewTuple]
  /\ oTupleUsedForSubmission' = s.held
  /\ out' = s.out
  /\ owed' = s.owed

Submit(s, t, kind) ==
  [s EXCEPT !.out = Append(@, [kind |-> kind, tuple |-> s.attributes[t]]),
            !.owed = IF s.attributes[t].due THEN @ - 1 ELSE @]

SetResultAttributes(s, t, u, source, due) ==
  [s EXCEPT !.attributes[t].utterance = u, !.attributes[t].completed = FALSE,
            !.attributes[t].source = source, !.attributes[t].due = due,
            !.owed = IF due THEN @ + 1 ELSE @]

SetSpeakerResultAttributes(s, t, speakers, updates, labels) ==
  [s EXCEPT !.attributes[t].speakers = speakers, !.attributes[t].updates = updates,
            !.attributes[t].labels = labels]

SetError(s, t, e) == [s EXCEPT !.attributes[t].error = e]

ClearSpeakers(s, t) ==
  IF identifySpeakers THEN SetSpeakerResultAttributes(s, t, <<>>, {}, <<>>) ELSE s

ClearResults(s, t) ==
  ClearSpeakers(SetResultAttributes(s, t, ClearedUtterance, NoMessage, FALSE), t)

(* A result that is still held back goes out as it is.                     *)
SubmitHeld(s) ==
  IF s.held = NoTuple THEN s
  ELSE [Submit(s, s.held, "utterance") EXCEPT !.held = NoTuple]

-----------------------------------------------------------------------------
(* SpeakerProcessor: a speaker for every word, found by the start time of  *)
(* the word; the labels that no word takes are updates of earlier words.   *)
NoSpeaker == "-1"

(* External: the service numbers the speakers of its labels from zero.     *)
NamedLabels(labels) ==
  /\ labels \in Seq({labels[i] : i \in DOMAIN labels})
  /\ \A i \in DOMAIN labels : labels[i].speaker # NoSpeaker

ASSUME SpeakersAreNamed ==
  \A m \in Message, md \in {"partial", "final", "complete"} :
    LET d == Decode(NothingDecoded, m, md) IN d.thrown \/ NamedLabels(d.labels)

(* spkIndexMap: insert keeps the first label of a time.                    *)
LabelsAt(labels, time) == {i \in DOMAIN labels : labels[i].from = time}

LabelOf(labels, time) ==
  CHOOSE i \in LabelsAt(labels, time) : \A j \in LabelsAt(labels, time) : i <= j

(* Slip: a word without a label gets no entry.                             *)
SpeakersFound(labels, starts) ==
  [w \in DOMAIN SelectSeq(starts, LAMBDA t : LabelsAt(labels, t) # {}) |->
     labels[LabelOf(labels, SelectSeq(starts, LAMBDA t : LabelsAt(labels, t) # {})[w])].speaker]

Speakers(labels, starts) ==
  [w \in DOMAIN starts |->
     IF LabelsAt(labels, starts[w]) = {} THEN NoSpeaker
     ELSE labels[LabelOf(labels, starts[w])].speaker]

(* Slip: a label whose time is the start of a word is not an update.       *)
UpdatesAtOtherTimes(labels, starts) ==
  {labels[i] : i \in {j \in DOMAIN labels :
                        \A w \in DOMAIN starts : starts[w] # labels[j].from}}

SpeakerUpdates(labels, starts) ==
  LET used == {LabelOf(labels, starts[w]) :
                 w \in {v \in DOMAIN starts : LabelsAt(labels, starts[v]) # {}}}
  IN  {labels[i] : i \in DOMAIN labels \ used}

(* Slip: the held tuple stays held after it was submitted.                 *)
SubmitAndHold(s, labels, starts) ==
  IF ~identifySpeakers \/ s.held = NoTuple THEN s
  ELSE Submit(SetSpeakerResultAttributes(s, s.held, Speakers(labels, starts),
                                         SpeakerUpdates(labels, starts), labels),
              s.held, "utterance")

(* Labels are ignored if they are not requested or no result waits.        *)
SubmitWithSpeakers(s, labels, starts) ==
  IF ~identifySpeakers \/ s.held = NoTuple THEN s
  ELSE LET t == SetSpeakerResultAttributes(s, s.held, Speakers(labels, starts),
                                           SpeakerUpdates(labels, starts), labels)
       IN  [Submit(t, s.held, "utterance") EXCEPT !.held = NoTuple]

-----------------------------------------------------------------------------
Init ==
  /\ configuration \in Configs
  /\ wsState = "listening"
  /\ dec = NothingDecoded
  /\ myUtteranceWordsStartTimes = <<>>
  /\ attributes = [t \in TupleId |-> NewTuple]
  /\ recentOTuple = NoTuple
  /\ oTupleUsedForSubmission = NoTuple
  /\ out = <<>>
  /\ owed = 0

(* External: the sender thread publishes a tuple for its next audio, once  *)
(* the connection listens.  A result may be held in an earlier tuple.      *)
PublishTuple ==
  /\ wsState = "listening"
  /\ \E t \in TupleId \ {oTupleUsedForSubmission} :
       /\ recentOTuple' = t
       /\ Returns([Entry EXCEPT !.attributes[t] = NewTuple])
  /\ UNCHANGED <<configuration, wsState, dec, myUtteranceWordsStartTimes>>

(* ws_init after an exception of a callback: the state is crashed, the     *)
(* recent tuple forgotten.                                                 *)
Crash ==
  /\ wsState' = "crashed"
  /\ recentOTuple' = NoTuple

(* ws_init for a new connection: what was held is forgotten.               *)
Connect ==
  /\ wsState \in {"closed", "crashed"}
  /\ wsState' = "listening"
  /\ UNCHANGED <<configuration, dec, myUtteranceWordsStartTimes, recentOTuple>>
  /\ Returns([Entry EXCEPT !.held = NoTuple, !.owed = 0])

(* on_message: what was found in the message.                              *)
HasResults(d) == d.finals # <<>>
HasLabels(d)  == d.labels # <<>>
HasState(d)   == d.state # Absent
HasError(d)   == d.error # Absent

(* A decoder exception, more than one kind of contents (save results with  *)
(* their speaker labels), or a state other than listening.                 *)
Unexpected(d) ==
  \/ d.thrown
  \/ HasState(d) /\ (HasError(d) \/ HasResults(d) \/ HasLabels(d))
  \/ HasError(d) /\ (HasResults(d) \/ HasLabels(d))
  \/ HasState(d) /\ d.state # "listening"

(* External: complete results are final and may come with their speaker    *)
(* labels; if interim results are requested, results come one by one and   *)
(* apart from speaker labels.                                              *)
AsRequested(m) ==
  Required(m.results) =>
    IF mode = "complete"
    THEN \A i \in DOMAIN m.results :
           m.results[i] # IllTyped => m.results[i].final # FALSE
    ELSE Len(m.results) <= 1 /\ m.speaker_labels = Absent

Receive(m) ==
  /\ wsState = "listening"
  /\ AsRequested(m)
  /\ dec' = Decode(dec, m, mode)
  /\ UNCHANGED configuration

OnUnexpected(m) ==
  /\ Receive(m)
  /\ Unexpected(dec')
  /\ Crash
  /\ Returns(Entry)
  /\ UNCHANGED myUtteranceWordsStartTimes

(* The entry check: a message after an error message throws.               *)
OnMessageAfterError ==
  /\ wsState = "error"
  /\ Crash
  /\ Returns(Entry)
  /\ UNCHANGED <<configuration, dec, myUtteranceWordsStartTimes>>

OnNothing(m) ==
  /\ Receive(m)
  /\ ~Unexpected(dec')
  /\ ~(HasState(dec') \/ HasError(dec') \/ HasResults(dec') \/ HasLabels(dec'))
  /\ UNCHANGED <<wsState, myUtteranceWordsStartTimes, recentOTuple>>
  /\ Returns(Entry)

(* sendTranscriptionCompletedTuple and the window marker.                  *)
SendTranscriptionCompleted(s, t) ==
  IF t = NoTuple \/ ~configuration.isTranscriptionCompletedRequested THEN s
  ELSE Submit([ClearResults(s, t) EXCEPT !.attributes[t].completed = TRUE],
              t, "completed")

SubmitWindowMarker(s) ==
  [s EXCEPT !.out = Append(@, [kind |-> "window", tuple |-> NewTuple])]

(* The listening message that ends a transcription: the connection is kept *)
(* or closed, as the next conversation is queued or not.                   *)
OnListeningAgain(m) ==
  /\ Receive(m)
  /\ ~Unexpected(dec')
  /\ HasState(dec')
  /\ wsState' \in {"listening", "closed"}
  /\ recentOTuple' = NoTuple
  /\ Returns(SubmitWindowMarker(SendTranscriptionCompleted(SubmitHeld(Entry), recentOTuple)))
  /\ UNCHANGED myUtteranceWordsStartTimes

(* Slip: the error text stays in the tuple.                                *)
SendErrorTupleUncleared(s) ==
  IF s.held # NoTuple
  THEN [Submit(SetError(s, s.held, TRUE), s.held, "error") EXCEPT !.held = NoTuple]
  ELSE IF recentOTuple = NoTuple THEN s
  ELSE Submit(SetError(ClearResults(s, recentOTuple), recentOTuple, TRUE),
              recentOTuple, "error")

(* sendErrorTuple: with the held result if there is one, else alone.       *)
SendErrorTuple(s) ==
  IF s.held # NoTuple
  THEN SetError([Submit(SetError(s, s.held, TRUE), s.held, "error")
                   EXCEPT !.held = NoTuple], s.held, FALSE)
  ELSE IF recentOTuple = NoTuple THEN s
  ELSE SetError(Submit(SetError(ClearResults(s, recentOTuple), recentOTuple, TRUE),
                       recentOTuple, "error"), recentOTuple, FALSE)

OnError(m) ==
  /\ Receive(m)
  /\ ~Unexpected(dec')
  /\ HasError(dec')
  /\ wsState' = "error"
  /\ UNCHANGED <<myUtteranceWordsStartTimes, recentOTuple>>
  /\ Returns(SendErrorTuple(Entry))

(* finalUtteranceOrModeComplete                                            *)
IsFinal(d) == mode = "complete" \/ d.finals[1]

StartTimes(words) == [w \in DOMAIN words |-> words[w].start]

(* Results of an utterance: a final one is held back if speakers are       *)
(* identified, an interim one submitted in mode partial only.              *)
WriteUtterance(s, d, m) ==
  SetResultAttributes(ClearSpeakers(s, recentOTuple), recentOTuple,
                      Utterance(d, IsFinal(d)), m, IsFinal(d))

HoldOrSubmit(s, d) ==
  IF IsFinal(d) /\ identifySpeakers THEN [s EXCEPT !.held = recentOTuple]
  ELSE IF IsFinal(d) \/ mode = "partial" THEN Submit(s, recentOTuple, "utterance")
  ELSE s

OnUtterance(m) ==
  /\ Receive(m)
  /\ ~Unexpected(dec')
  /\ HasResults(dec')
  /\ recentOTuple # NoTuple
  /\ myUtteranceWordsStartTimes' = IF identifySpeakers THEN StartTimes(dec'.words)
                                   ELSE myUtteranceWordsStartTimes
  /\ UNCHANGED <<wsState, recentOTuple>>
  /\ LET s == HoldOrSubmit(WriteUtterance(SubmitHeld(Entry), dec', m), dec')
     IN  Returns(IF HasLabels(dec')
                 THEN SubmitWithSpeakers(s, dec'.labels, myUtteranceWordsStartTimes')
                 ELSE s)

OnUtteranceWithoutTuple(m) ==
  /\ Receive(m)
  /\ ~Unexpected(dec')
  /\ HasResults(dec')
  /\ recentOTuple = NoTuple
  /\ Crash
  /\ Returns(SubmitHeld(Entry))
  /\ UNCHANGED myUtteranceWordsStartTimes

OnSpeakerLabels(m) ==
  /\ Receive(m)
  /\ ~Unexpected(dec')
  /\ HasLabels(dec')
  /\ ~HasResults(dec')
  /\ UNCHANGED <<wsState, myUtteranceWordsStartTimes, recentOTuple>>
  /\ Returns(SubmitWithSpeakers(Entry, dec'.labels, myUtteranceWordsStartTimes))

(* on_close: from listening the error tuple first; from listening and from *)
(* error end tuple and window marker if a conversation was ongoing.        *)
OnClose ==
  /\ wsState \in {"listening", "error"}
  /\ wsState' = "closed"
  /\ recentOTuple' = NoTuple
  /\ LET s == IF wsState = "listening" THEN SendErrorTuple(Entry) ELSE Entry
     IN  Returns(IF recentOTuple = NoTuple THEN s
                 ELSE SubmitWindowMarker(SendTranscriptionCompleted(s, recentOTuple)))
  /\ UNCHANGED <<configuration, dec, myUtteranceWordsStartTimes>>

OnMessage(m) ==
  \/ OnUnexpected(m) \/ OnNothing(m) \/ OnListeningAgain(m) \/ OnError(m)
  \/ OnUtterance(m) \/ OnUtteranceWithoutTuple(m) \/ OnSpeakerLabels(m)

Next ==
  \/ PublishTuple
  \/ Connect
  \/ \E m \in Message : OnMessage(m)
  \/ OnMessageAfterError
  \/ OnClose

Spec == Init /\ [][Next]_vars

-----------------------------------------------------------------------------
(* Every result that is submitted shows one message, the one it was made   *)
(* from, and nothing of an earlier one, whatever exceptions came before:   *)
(* first alternatives are joined, the utterance lasts until its last word, *)
(* from its first one if the first result has words, and word confidences  *)
(* are those of final results (DecoderAlternatives.hpp).                   *)
ShowsMessage(u, m, md) ==
  /\ u.number = IF m.result_index = Absent THEN 0 ELSE m.result_index + 1
  /\ u.text = ExpectedText(m, md)
  /\ u.words = ExpectedWords(m, md)
  /\ u.alternatives = ExpectedAlternatives(m, md)
  /\ u.wordConfidences = ExpectedConfidences(m, md)
  /\ IF u.words = <<>> THEN u.start = 0 /\ u.end = 0 ELSE u.end = Last(u.words).end
  /\ WordsOf(m.results[1], md) # <<>> => u.start = Head(u.words).start
  /\ md = "partial" /\ ~u.final => u.wordConfidences = <<>> /\ u.keywords = <<>>

TuplesShowTheirMessage ==
  \A i \in DOMAIN out : out[i].kind = "utterance" =>
    /\ out[i].tuple.source # NoMessage
    /\ ShowsMessage(out[i].tuple.utterance, out[i].tuple.source, mode)

(* "Each entry in this list corresponds to the appropriate entry in the    *)
(* utterance words list" (WatsonSTT.xml): the speakers of a tuple are none *)
(* or one for each of its own words.                                       *)
OnePerWord(t) == t.speakers = <<>> \/ DOMAIN t.speakers = DOMAIN t.utterance.words

SpeakersFollowWords ==
  \A i \in DOMAIN out : OnePerWord(out[i].tuple)

(* No speaker label of the service is lost or made up: each one is the     *)
(* speaker of the word that starts at its time or is reported as an        *)
(* update, and a word has no speaker only if no label has its time.        *)
LabelOfWord(l, t, w) ==
  t.utterance.words[w].start = l.from /\ t.speakers[w] = l.speaker

LabelsAccountedFor ==
  \A i \in DOMAIN out :
    LET t == out[i].tuple
        labels == {t.labels[j] : j \in DOMAIN t.labels}
    IN  /\ t.updates \subseteq labels
        /\ \A l \in labels :
             l \in t.updates \/ \E w \in DOMAIN t.speakers : LabelOfWord(l, t, w)
        /\ \A w \in DOMAIN t.speakers :
             IF t.speakers[w] = NoSpeaker
             THEN \A l \in labels : l.from # t.utterance.words[w].start
             ELSE \E l \in labels : LabelOfWord(l, t, w)

(* A final result is submitted exactly once, with its speaker labels, with *)
(* an error, or as it is before the next result or the end of the          *)
(* conversation: unless a callback crashes, the only result that is still  *)
(* owed is the one that waits for its labels, and none waits once an error *)
(* was reported or the connection is closed.                               *)
FinalResultsOnce ==
  /\ wsState # "crashed" => owed = IF oTupleUsedForSubmission = NoTuple THEN 0 ELSE 1
  /\ wsState \in {"error", "closed"} => oTupleUsedForSubmission = NoTuple

(* Nothing is left over in a tuple that is used again: only error tuples   *)
(* carry an error, and the end tuple carries no result of the conversation *)
(* it ends: its attributes are as ClearedUtterance has them, with -1 for   *)
(* the confidence where WatsonSTT.xml speaks of the default value.         *)
NothingLeftOver ==
  \A i \in DOMAIN out :
    LET t == out[i].tuple
    IN  /\ t.error <=> out[i].kind = "error"
        /\ t.completed <=> out[i].kind = "completed"
        /\ out[i].kind = "completed" =>
             t.utterance = ClearedUtterance /\ t.speakers = <<>> /\ t.updates = {}

(* "decoding for final results only and concatenate all results"           *)
(* (DecoderResults.hpp, of DecoderKeywordsResult): the matches of a        *)
(* keyword are those of all results.                                       *)
KeywordsOfAllResults ==
  \A i \in DOMAIN out : out[i].kind = "utterance" =>
    LET t == out[i].tuple
    IN  \A k \in DOMAIN t.utterance.keywords :
          t.utterance.keywords[k] = ExpectedMatches(t.source, k)

=============================================================================
