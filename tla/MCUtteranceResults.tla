------------------------- MODULE MCUtteranceResults -------------------------
(* Messages of the service for the model checker: results with and without *)
(* words, interim and final, joined and alone, with members of a wrong     *)
(* type early and late; speaker labels that fit, miss, repeat a word's     *)
(* time, or update an earlier one.                                         *)
EXTENDS UtteranceResults

CONSTANTS k1, k2, match1, match2, t1, t2

Word(w, start) == [word |-> w, start |-> start, end |-> start + 1]
Alternative(text, timestamps, confidences) ==
  [transcript |-> text, confidence |-> 7, timestamps |-> timestamps,
   word_confidence |-> confidences]
Result(final, alternatives, keywords) ==
  [final |-> final, alternatives |-> alternatives, word_alternatives |-> Absent,
   keywords_result |-> keywords]

Two     == Alternative("t1", <<Word("a", 1), Word("b", 2)>>, <<8, 9>>)
One     == Alternative("t2", <<Word("c", 3)>>, <<6>>)
Other   == Alternative("t3", Absent, Absent)
Broken  == Alternative("t4", <<Word("d", 2)>>, <<5, IllTyped>>)
Spotted(m) == [k \in {k1} |-> <<m>>]

FinalTwo   == Result(TRUE, <<Two>>, Spotted(match1))
FinalOne   == [Result(TRUE, <<One, Other>>, Spotted(match2))
                 EXCEPT !.word_alternatives = <<"x">>]
FinalMute  == Result(TRUE, <<Alternative("t5", <<>>, <<>>)>>, Absent)
FinalPlain == Result(TRUE, <<Other>>, Absent)
FinalBad   == Result(TRUE, <<Broken>>, Absent)
KeywordBad == Result(TRUE, <<One>>,
                     [k \in {k1, k2} |-> IF k = k1 THEN <<match1>> ELSE IllTyped])
Interim    == Result(FALSE, <<[One EXCEPT !.word_confidence = Absent]>>, Absent)

MCKeywords == <<k1, k2>>

ResultLists == {Absent, <<FinalTwo>>, <<FinalOne>>, <<FinalPlain>>, <<Interim>>,
                <<FinalTwo, FinalOne>>, <<FinalOne, FinalBad>>, <<KeywordBad>>,
                <<FinalMute, FinalOne>>, <<IllTyped>>}

Label(from, speaker) == [from |-> from, speaker |-> speaker]

LabelLists == {Absent, <<Label(1, "0"), Label(2, "1")>>,
               <<Label(3, "0"), Label(0, "1")>>,
               <<Label(2, "0"), Label(2, "1")>>, <<Label(1, "0"), IllTyped>>}

Plain == [error |-> Absent, state |-> Absent, results |-> Absent,
          result_index |-> Absent, speaker_labels |-> Absent]

MCMessage ==
  {[Plain EXCEPT !.results = r, !.speaker_labels = l, !.result_index = 1] :
     r \in ResultLists, l \in LabelLists}
  \union {[Plain EXCEPT !.state = "listening"], [Plain EXCEPT !.state = "initializing"],
          [Plain EXCEPT !.error = "failed"], [Plain EXCEPT !.error = IllTyped],
          [Plain EXCEPT !.result_index = IllTyped, !.results = <<FinalTwo>>]}

(* The six settings of mode and speakers; the end tuple with half of them. *)
MCConfigs ==
  {c \in Config : c.isTranscriptionCompletedRequested =
                    (c.identifySpeakers \/ c.sttOutputResultMode = "complete")}

KeywordConfigs == {c \in MCConfigs : c.sttOutputResultMode = "complete"}

=============================================================================
