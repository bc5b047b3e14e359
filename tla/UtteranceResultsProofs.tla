----------------------- MODULE UtteranceResultsProofs -----------------------
(***************************************************************************)
(* Proofs about the contents of the output tuples, for every set of        *)
(* messages and every number of tuples.  A callback threads one record     *)
(* through its helpers; the lemmas say what each helper keeps of such a    *)
(* record, and the steps only compose them.  What the decoder makes of one *)
(* message is the matter of DecoderProofs.                                 *)
(***************************************************************************)
EXTENDS UtteranceResults, DecoderProofs

(* The labels of one tuple are accounted for, and there are none.          *)
LabelsRight(t) ==
  LET labels == {t.labels[j] : j \in DOMAIN t.labels}
  IN  /\ t.updates \subseteq labels
      /\ \A l \in labels :
           l \in t.updates \/ \E w \in DOMAIN t.speakers : LabelOfWord(l, t, w)
      /\ \A w \in DOMAIN t.speakers :
           IF t.speakers[w] = NoSpeaker
           THEN \A l \in labels : l.from # t.utterance.words[w].start
           ELSE \E l \in labels : LabelOfWord(l, t, w)

NoLabels(t) == t.speakers = <<>> /\ t.updates = {} /\ t.labels = <<>>

(* What AsRequested says of the results, for a mode that need not be the   *)
(* configured one.                                                         *)
OneUnlessComplete(m, md) ==
  md # "complete" /\ Required(m.results) => Len(m.results) <= 1

(* The utterance of a tuple is what the decoder makes of one message, of   *)
(* nothing that came before it.                                            *)
Shown(t, md) ==
  \E m \in Message :
    LET d == Decode(NothingDecoded, m, md)
    IN  /\ ~Unexpected(d) /\ HasResults(d)
        /\ OneUnlessComplete(m, md)
        /\ t.source = m
        /\ t.utterance = Utterance(d, md = "complete" \/ d.finals[1])

(* What a submitted tuple may be: the invariants to be proved, of one      *)
(* entry of out.                                                           *)
EntryOK(x) ==
  /\ x.kind = "utterance" => Shown(x.tuple, mode)
  /\ OnePerWord(x.tuple)
  /\ LabelsRight(x.tuple)
  /\ x.tuple.error <=> x.kind = "error"
  /\ x.tuple.completed <=> x.kind = "completed"
  /\ x.kind = "completed" =>
       /\ x.tuple.utterance = ClearedUtterance
       /\ x.tuple.speakers = <<>>
       /\ x.tuple.updates = {}

OutOK(o) == \E S : o \in Seq(S) /\ \A x \in S : EntryOK(x)

(* Between two callbacks no tuple is marked as erroneous or completed, and *)
(* none has speakers or labels if they are not identified.                 *)
Clean(a) ==
  /\ DOMAIN a = DOMAIN NewTuple
  /\ a.error = FALSE
  /\ a.completed = FALSE
  /\ ~identifySpeakers => NoLabels(a)

(* The tuple that is held back is a final result without speakers yet, and *)
(* the start times that were kept are those of its words.                  *)
HeldOK(s, starts) ==
  s.held # NoTuple =>
    /\ identifySpeakers
    /\ s.attributes[s.held].due = TRUE
    /\ NoLabels(s.attributes[s.held])
    /\ Shown(s.attributes[s.held], mode)
    /\ starts = StartTimes(s.attributes[s.held].utterance.words)

Balanced(s) == s.owed = IF s.held = NoTuple THEN 0 ELSE 1

Shape(s) ==
  /\ DOMAIN s = {"attributes", "held", "out", "owed"}
  /\ DOMAIN s.attributes = TupleId
  /\ s.held \in TupleId \union {NoTuple}

Sound(s) ==
  /\ Shape(s)
  /\ \A t \in TupleId : Clean(s.attributes[t])
  /\ OutOK(s.out)

(* The inductive invariant: the state seen as the record of a callback.    *)
Now == [attributes |-> attributes, held |-> oTupleUsedForSubmission,
        out |-> out, owed |-> owed]

IInv ==
  /\ wsState \in {"listening", "error", "closed", "crashed"}
  /\ recentOTuple \in TupleId \union {NoTuple}
  /\ configuration \in Config
  /\ Sound(Now)
  /\ HeldOK(Now, myUtteranceWordsStartTimes)
  /\ wsState # "crashed" => Balanced(Now)
  /\ wsState \in {"error", "closed"} => oTupleUsedForSubmission = NoTuple

-----------------------------------------------------------------------------
LEMMA NothingSubmitted == OutOK(<<>>)
  <1> DEFINE S == {}
  <1>1. <<>> \in Seq(S)
    OBVIOUS
  <1>2. \A x \in S : EntryOK(x)
    OBVIOUS
  <1> HIDE DEF S
  <1> QED BY <1>1, <1>2 DEF OutOK

LEMMA OneMoreSubmitted ==
  ASSUME NEW o, OutOK(o), NEW x, EntryOK(x)
  PROVE  OutOK(Append(o, x))
  <1>1. PICK S : o \in Seq(S) /\ \A y \in S : EntryOK(y)
    BY DEF OutOK
  <1>2. Append(o, x) \in Seq(S \union {x})
    BY <1>1
  <1>3. \A y \in S \union {x} : EntryOK(y)
    BY <1>1
  <1> QED BY <1>2, <1>3 DEF OutOK

LEMMA SubmittedOK ==
  ASSUME NEW o, OutOK(o), NEW i \in DOMAIN o
  PROVE  EntryOK(o[i])
  <1>1. PICK S : o \in Seq(S) /\ \A y \in S : EntryOK(y)
    BY DEF OutOK
  <1>2. o[i] \in S
    BY <1>1
  <1> QED BY <1>1, <1>2

-----------------------------------------------------------------------------
(* The label a word takes is the first one of its time.                    *)
LEMMA FirstLabel ==
  ASSUME NEW L, NEW labels \in Seq(L), NEW time, LabelsAt(labels, time) # {}
  PROVE  /\ LabelOf(labels, time) \in LabelsAt(labels, time)
         /\ \A j \in LabelsAt(labels, time) : LabelOf(labels, time) <= j
  <1> DEFINE at == LabelsAt(labels, time)
             less == {p \in Nat \X Nat : p[1] < p[2]}
  <1>1. at \subseteq Nat
    BY DEF LabelsAt
  <1>2. IsWellFoundedOn(less, Nat)
    BY NatLessThanWellFounded, Zenon DEF OpToRel
  <1>3. \A i, j \in at : i <= j \/ <<j, i>> \in less
    BY <1>1
  <1> HIDE DEF less, at
  <1>4. PICK i \in at : \A j \in at : <<j, i>> \notin less
    BY <1>1, <1>2, WFMin DEF at
  <1>5. \A j \in at : i <= j
    BY <1>3, <1>4
  <1> QED BY <1>4, <1>5 DEF LabelOf, at

(* Every label is the speaker of a word that starts at its time or an      *)
(* update, every word has the speaker of a label of its time if there is   *)
(* one, and updates are labels.                                            *)
Shared(labels, starts, sp, up) ==
  /\ up \subseteq {labels[i] : i \in DOMAIN labels}
  /\ \A i \in DOMAIN labels :
       \/ labels[i] \in up
       \/ \E w \in DOMAIN sp : starts[w] = labels[i].from /\ sp[w] = labels[i].speaker
  /\ \A w \in DOMAIN sp :
       IF LabelsAt(labels, starts[w]) = {} THEN sp[w] = NoSpeaker
       ELSE \E i \in LabelsAt(labels, starts[w]) : sp[w] = labels[i].speaker

(* So it is for whatever labels and words come together.                   *)
THEOREM LabelsOfWords ==
  ASSUME NEW L, NEW labels \in Seq(L), NEW starts
  PROVE  Shared(labels, starts, Speakers(labels, starts), SpeakerUpdates(labels, starts))
  <1> DEFINE sp == Speakers(labels, starts)
             up == SpeakerUpdates(labels, starts)
             fits(w) == LabelsAt(labels, starts[w]) # {}
             used == {LabelOf(labels, starts[w]) : w \in {v \in DOMAIN starts : fits(v)}}
  <1>1. up = {labels[i] : i \in DOMAIN labels \ used}
    BY DEF SpeakerUpdates
  <1>2. /\ DOMAIN sp = DOMAIN starts
        /\ \A w \in DOMAIN starts :
             sp[w] = IF LabelsAt(labels, starts[w]) = {} THEN NoSpeaker
                     ELSE labels[LabelOf(labels, starts[w])].speaker
    BY DEF Speakers
  <1> HIDE DEF sp, up
  <1>3. ASSUME NEW i \in DOMAIN labels, labels[i] \notin up
        PROVE  \E w \in DOMAIN sp : starts[w] = labels[i].from /\ sp[w] = labels[i].speaker
    <2>1. i \in used
      BY <1>1, <1>3
    <2>2. PICK w \in DOMAIN starts : fits(w) /\ i = LabelOf(labels, starts[w])
      BY <2>1
    <2>3. i \in LabelsAt(labels, starts[w])
      BY <2>2, FirstLabel
    <2>4. labels[i].from = starts[w] /\ sp[w] = labels[i].speaker
      BY <1>2, <2>2, <2>3 DEF LabelsAt
    <2> QED BY <1>2, <2>4
  <1>4. ASSUME NEW w \in DOMAIN sp, fits(w)
        PROVE  \E i \in LabelsAt(labels, starts[w]) : sp[w] = labels[i].speaker
    BY <1>2, <1>4, FirstLabel
  <1>5. up \subseteq {labels[i] : i \in DOMAIN labels}
    BY <1>1
  <1>6. \A w \in DOMAIN sp : ~fits(w) => sp[w] = NoSpeaker
    BY <1>2
  <1>7. Shared(labels, starts, sp, up)
    BY <1>3, <1>4, <1>5, <1>6 DEF Shared
  <1> QED BY <1>7 DEF sp, up

(* Hence the labels of a tuple are accounted for if no label is without a  *)
(* speaker.                                                                *)
LEMMA LabelsAttached ==
  ASSUME NEW labels, NamedLabels(labels), NEW a, a.labels = labels,
         a.speakers = Speakers(labels, StartTimes(a.utterance.words)),
         a.updates = SpeakerUpdates(labels, StartTimes(a.utterance.words))
  PROVE  OnePerWord(a) /\ LabelsRight(a)
  <1> DEFINE words == a.utterance.words
             starts == StartTimes(words)
             all == {labels[i] : i \in DOMAIN labels}
  <1>1. /\ DOMAIN starts = DOMAIN words
        /\ \A w \in DOMAIN words : starts[w] = words[w].start
    BY DEF StartTimes
  <1>2. DOMAIN a.speakers = DOMAIN words
    BY <1>1 DEF Speakers
  <1>3. labels \in Seq(all) /\ \A i \in DOMAIN labels : labels[i].speaker # NoSpeaker
    BY DEF NamedLabels
  <1>4. a.speakers = Speakers(labels, starts) /\ a.updates = SpeakerUpdates(labels, starts)
    OBVIOUS
  <1> HIDE DEF starts
  <1>5. Shared(labels, starts, a.speakers, a.updates)
    BY <1>3, <1>4, LabelsOfWords
  <1>6. ASSUME NEW l \in all, l \notin a.updates
        PROVE  \E w \in DOMAIN a.speakers : LabelOfWord(l, a, w)
    BY <1>1, <1>2, <1>5, <1>6 DEF LabelOfWord, Shared
  <1>7. ASSUME NEW w \in DOMAIN a.speakers, a.speakers[w] = NoSpeaker, NEW l \in all
        PROVE  l.from # words[w].start
    <2>1. LabelsAt(labels, starts[w]) = {}
      BY <1>3, <1>5, <1>7 DEF LabelsAt, Shared
    <2> QED BY <1>1, <1>2, <2>1 DEF LabelsAt
  <1>8. ASSUME NEW w \in DOMAIN a.speakers, a.speakers[w] # NoSpeaker
        PROVE  \E l \in all : LabelOfWord(l, a, w)
    <2>1. PICK i \in LabelsAt(labels, starts[w]) : a.speakers[w] = labels[i].speaker
      BY <1>5, <1>8 DEF Shared
    <2>2. labels[i] \in all /\ labels[i].from = words[w].start
      BY <1>1, <1>2, <2>1 DEF LabelsAt
    <2> QED BY <2>1, <2>2 DEF LabelOfWord
  <1>9. a.labels = labels
    OBVIOUS
  <1> QED BY <1>2, <1>5, <1>6, <1>7, <1>8, <1>9 DEF OnePerWord, LabelsRight, Shared

-----------------------------------------------------------------------------
(* What the helpers keep.                                                  *)
LEMMA NewTupleClean == Clean(NewTuple)
  BY DEF Clean, NewTuple, NoLabels

LEMMA NothingToAccountFor ==
  ASSUME NEW a, NoLabels(a)
  PROVE  OnePerWord(a) /\ LabelsRight(a)
  BY DEF NoLabels, OnePerWord, LabelsRight

(* The fields of an attribute record are those of NewTuple.                *)
LEMMA Fields ==
  DOMAIN NewTuple = {"utterance", "completed", "error", "speakers", "updates",
                     "source", "labels", "due"}
  BY DEF NewTuple

LEMMA SubmitKeeps ==
  ASSUME NEW s, Shape(s), OutOK(s.out), NEW t \in TupleId, NEW kind,
         EntryOK([kind |-> kind, tuple |-> s.attributes[t]])
  PROVE  LET r == Submit(s, t, kind)
         IN  /\ Shape(r) /\ OutOK(r.out)
             /\ r.attributes = s.attributes
             /\ r.held = s.held
             /\ r.owed = IF s.attributes[t].due THEN s.owed - 1 ELSE s.owed
             /\ Sound(s) => Sound(r)
  <1> DEFINE e == [kind |-> kind, tuple |-> s.attributes[t]]
             r == Submit(s, t, kind)
  <1>1. /\ DOMAIN r = DOMAIN s
        /\ r.attributes = s.attributes
        /\ r.held = s.held
        /\ r.out = Append(s.out, e)
        /\ r.owed = IF s.attributes[t].due THEN s.owed - 1 ELSE s.owed
    BY DEF Submit, Shape
  <1>2. OutOK(r.out)
    BY <1>1, OneMoreSubmitted
  <1> HIDE DEF r
  <1>3. Shape(r) /\ (Sound(s) => Sound(r))
    BY <1>1, <1>2 DEF Sound, Shape
  <1> QED BY <1>1, <1>2, <1>3 DEF r

LEMMA ResultsKeep ==
  ASSUME NEW s, Sound(s), NEW t \in TupleId, NEW u, NEW m, NEW due \in BOOLEAN
  PROVE  LET r == SetResultAttributes(s, t, u, m, due)
         IN  /\ Sound(r)
             /\ r.held = s.held
             /\ r.out = s.out
             /\ r.owed = IF due THEN s.owed + 1 ELSE s.owed
             /\ \A v \in TupleId \ {t} : r.attributes[v] = s.attributes[v]
             /\ r.attributes[t].utterance = u
             /\ r.attributes[t].due = due
             /\ r.attributes[t].source = m
             /\ r.attributes[t].speakers = s.attributes[t].speakers
             /\ r.attributes[t].updates = s.attributes[t].updates
             /\ r.attributes[t].labels = s.attributes[t].labels
  <1> DEFINE r == SetResultAttributes(s, t, u, m, due)
             a == [s.attributes[t] EXCEPT !.utterance = u, !.completed = FALSE,
                                          !.source = m, !.due = due]
  <1>1. /\ DOMAIN r = DOMAIN s
        /\ r.held = s.held
        /\ r.out = s.out
        /\ r.owed = IF due THEN s.owed + 1 ELSE s.owed
        /\ DOMAIN r.attributes = TupleId
        /\ \A v \in TupleId \ {t} : r.attributes[v] = s.attributes[v]
        /\ r.attributes[t] = a
    BY DEF SetResultAttributes, Sound, Shape
  <1>2. DOMAIN s.attributes[t] = DOMAIN NewTuple /\ Clean(s.attributes[t])
    BY DEF Sound, Clean
  <1>3. /\ DOMAIN a = DOMAIN NewTuple
        /\ a.utterance = u
        /\ a.due = due
        /\ a.source = m
        /\ a.completed = FALSE
        /\ a.error = s.attributes[t].error
        /\ a.speakers = s.attributes[t].speakers
        /\ a.updates = s.attributes[t].updates
        /\ a.labels = s.attributes[t].labels
    BY <1>2, Fields
  <1> HIDE DEF r, a
  <1>4. Clean(r.attributes[t])
    BY <1>1, <1>2, <1>3 DEF Clean, NoLabels
  <1>5. Sound(r)
    BY <1>1, <1>4 DEF Sound, Shape
  <1>6. /\ r.attributes[t].utterance = u
        /\ r.attributes[t].due = due
        /\ r.attributes[t].source = m
        /\ r.attributes[t].speakers = s.attributes[t].speakers
        /\ r.attributes[t].updates = s.attributes[t].updates
        /\ r.attributes[t].labels = s.attributes[t].labels
    BY <1>1, <1>3
  <1> QED BY <1>1, <1>5, <1>6 DEF r

LEMMA SpeakersKeep ==
  ASSUME NEW s, Sound(s), NEW t \in TupleId, NEW sp, NEW up, NEW labels,
         identifySpeakers
  PROVE  LET r == SetSpeakerResultAttributes(s, t, sp, up, labels)
         IN  /\ Sound(r)
             /\ r.held = s.held
             /\ r.out = s.out
             /\ r.owed = s.owed
             /\ r.attributes[t].speakers = sp
             /\ r.attributes[t].updates = up
             /\ r.attributes[t].labels = labels
             /\ r.attributes[t].source = s.attributes[t].source
             /\ r.attributes[t].utterance = s.attributes[t].utterance
             /\ r.attributes[t].due = s.attributes[t].due
  <1> DEFINE r == SetSpeakerResultAttributes(s, t, sp, up, labels)
             a == [s.attributes[t] EXCEPT !.speakers = sp, !.updates = up,
                                          !.labels = labels]
  <1>1. /\ DOMAIN r = DOMAIN s
        /\ r.held = s.held
        /\ r.out = s.out
        /\ r.owed = s.owed
        /\ DOMAIN r.attributes = TupleId
        /\ \A v \in TupleId \ {t} : r.attributes[v] = s.attributes[v]
        /\ r.attributes[t] = a
    BY DEF SetSpeakerResultAttributes, Sound, Shape
  <1>2. DOMAIN s.attributes[t] = DOMAIN NewTuple /\ Clean(s.attributes[t])
    BY DEF Sound, Clean
  <1>3. /\ DOMAIN a = DOMAIN NewTuple
        /\ a.utterance = s.attributes[t].utterance
        /\ a.due = s.attributes[t].due
        /\ a.completed = s.attributes[t].completed
        /\ a.error = s.attributes[t].error
        /\ a.speakers = sp
        /\ a.updates = up
        /\ a.labels = labels
        /\ a.source = s.attributes[t].source
    BY <1>2, Fields
  <1> HIDE DEF r, a
  <1>4. Clean(r.attributes[t])
    BY <1>1, <1>2, <1>3 DEF Clean
  <1>5. Sound(r)
    BY <1>1, <1>4 DEF Sound, Shape
  <1>6. /\ r.attributes[t].speakers = sp
        /\ r.attributes[t].updates = up
        /\ r.attributes[t].labels = labels
        /\ r.attributes[t].source = s.attributes[t].source
        /\ r.attributes[t].utterance = s.attributes[t].utterance
        /\ r.attributes[t].due = s.attributes[t].due
    BY <1>1, <1>3
  <1> QED BY <1>1, <1>5, <1>6 DEF r

LEMMA ClearSpeakersKeep ==
  ASSUME NEW s, Sound(s), NEW t \in TupleId
  PROVE  LET r == ClearSpeakers(s, t)
         IN  /\ Sound(r)
             /\ r.held = s.held
             /\ r.out = s.out
             /\ r.owed = s.owed
             /\ NoLabels(r.attributes[t])
             /\ r.attributes[t].utterance = s.attributes[t].utterance
             /\ r.attributes[t].due = s.attributes[t].due
  <1>1. CASE identifySpeakers
    BY <1>1, SpeakersKeep DEF ClearSpeakers, NoLabels
  <1>2. CASE ~identifySpeakers
    BY <1>2 DEF ClearSpeakers, Sound, Clean
  <1> QED BY <1>1, <1>2

LEMMA ClearResultsKeep ==
  ASSUME NEW s, Sound(s), NEW t \in TupleId
  PROVE  LET r == ClearResults(s, t)
         IN  /\ Sound(r)
             /\ r.held = s.held
             /\ r.out = s.out
             /\ r.owed = s.owed
             /\ NoLabels(r.attributes[t])
             /\ r.attributes[t].utterance = ClearedUtterance
             /\ r.attributes[t].due = FALSE
  <1> DEFINE no == FALSE
  <1>1. no \in BOOLEAN /\ ~no
    OBVIOUS
  <1> HIDE DEF no
  <1> DEFINE q == SetResultAttributes(s, t, ClearedUtterance, NoMessage, no)
  <1>2. /\ Sound(q)
        /\ q.held = s.held
        /\ q.out = s.out
        /\ q.owed = s.owed
        /\ q.attributes[t].utterance = ClearedUtterance
        /\ q.attributes[t].due = no
    BY <1>1, ResultsKeep
  <1>3. ClearResults(s, t) = ClearSpeakers(q, t)
    BY DEF ClearResults, no
  <1> HIDE DEF q
  <1>4. ClearSpeakers(q, t).attributes[t].due = no
    BY <1>2, ClearSpeakersKeep
  <1> QED BY <1>2, <1>3, <1>4, ClearSpeakersKeep DEF no

(* A clean tuple may go out as an utterance if its speakers fit.           *)
LEMMA UtteranceEntry ==
  ASSUME NEW a, Clean(a), OnePerWord(a), LabelsRight(a), Shown(a, mode)
  PROVE  EntryOK([kind |-> "utterance", tuple |-> a])
  BY DEF EntryOK, Clean

LEMMA SubmitHeldKeeps ==
  ASSUME NEW s, Sound(s), NEW starts, HeldOK(s, starts)
  PROVE  LET r == SubmitHeld(s)
         IN  /\ Sound(r)
             /\ r.held = NoTuple
             /\ Balanced(s) => Balanced(r)
  <1>1. CASE s.held = NoTuple
    BY <1>1 DEF SubmitHeld
  <1>2. CASE s.held # NoTuple
    <2> DEFINE q == Submit(s, s.held, "utterance")
               r == [q EXCEPT !.held = NoTuple]
    <2>1. s.held \in TupleId /\ s.attributes[s.held].due = TRUE
      BY <1>2 DEF Sound, Shape, HeldOK
    <2>2. EntryOK([kind |-> "utterance", tuple |-> s.attributes[s.held]])
      BY <1>2, <2>1, UtteranceEntry, NothingToAccountFor DEF HeldOK, Sound
    <2>3. Sound(q) /\ q.owed = s.owed - 1
      BY <2>1, <2>2, SubmitKeeps DEF Sound
    <2>4. SubmitHeld(s) = r
      BY <1>2 DEF SubmitHeld
    <2> HIDE DEF q
    <2>5. /\ DOMAIN r = DOMAIN q
          /\ r.held = NoTuple
          /\ r.attributes = q.attributes
          /\ r.out = q.out
          /\ r.owed = q.owed
      BY <2>3 DEF Sound, Shape
    <2> HIDE DEF r
    <2>6. Sound(r)
      BY <2>3, <2>5 DEF Sound, Shape
    <2>7. Balanced(s) => Balanced(r)
      BY <1>2, <2>3, <2>5 DEF Balanced
    <2> QED BY <2>4, <2>5, <2>6, <2>7
  <1> QED BY <1>1, <1>2

LEMMA SubmitWithSpeakersKeeps ==
  ASSUME NEW s, Sound(s), NEW starts, HeldOK(s, starts), NEW labels,
         NamedLabels(labels)
  PROVE  LET r == SubmitWithSpeakers(s, labels, starts)
         IN  /\ Sound(r)
             /\ HeldOK(r, starts)
             /\ Balanced(s) => Balanced(r)
             /\ r.held \in {s.held, NoTuple}
  <1>1. CASE ~identifySpeakers \/ s.held = NoTuple
    BY <1>1 DEF SubmitWithSpeakers
  <1>2. CASE identifySpeakers /\ s.held # NoTuple
    <2> DEFINE h == s.held
               sp == Speakers(labels, starts)
               up == SpeakerUpdates(labels, starts)
               t == SetSpeakerResultAttributes(s, h, sp, up, labels)
               q == Submit(t, h, "utterance")
               r == [q EXCEPT !.held = NoTuple]
    <2>1. /\ h \in TupleId
          /\ s.attributes[h].due = TRUE
          /\ starts = StartTimes(s.attributes[h].utterance.words)
      BY <1>2 DEF Sound, Shape, HeldOK
    <2>2. /\ sp = Speakers(labels, StartTimes(s.attributes[h].utterance.words))
          /\ up = SpeakerUpdates(labels, StartTimes(s.attributes[h].utterance.words))
      BY <2>1
    <2>3. SubmitWithSpeakers(s, labels, starts) = r
      BY <1>2 DEF SubmitWithSpeakers
    <2> HIDE DEF sp, up, h
    <2>4. /\ Sound(t)
          /\ t.owed = s.owed
          /\ t.attributes[h].due = s.attributes[h].due
          /\ t.attributes[h].speakers = sp
          /\ t.attributes[h].updates = up
          /\ t.attributes[h].labels = labels
          /\ t.attributes[h].source = s.attributes[h].source
          /\ t.attributes[h].utterance = s.attributes[h].utterance
      BY <1>2, <2>1, SpeakersKeep
    <2> HIDE DEF t
    <2>5. EntryOK([kind |-> "utterance", tuple |-> t.attributes[h]])
      <3>1. Shown(t.attributes[h], mode)
        BY <1>2, <2>4 DEF HeldOK, Shown, h
      <3> QED BY <2>1, <2>2, <2>4, <3>1, LabelsAttached, UtteranceEntry DEF Sound
    <2>6. Sound(q) /\ q.owed = t.owed - 1
      BY <2>1, <2>4, <2>5, SubmitKeeps DEF Sound
    <2> HIDE DEF q
    <2>7. /\ DOMAIN r = DOMAIN q
          /\ r.held = NoTuple
          /\ r.attributes = q.attributes
          /\ r.out = q.out
          /\ r.owed = q.owed
      BY <2>6 DEF Sound, Shape
    <2> HIDE DEF r
    <2>8. Sound(r)
      BY <2>6, <2>7 DEF Sound, Shape
    <2>9. Balanced(s) => Balanced(r)
      BY <1>2, <2>4, <2>6, <2>7 DEF Balanced, h
    <2> QED BY <2>3, <2>7, <2>8, <2>9 DEF HeldOK
  <1> QED BY <1>1, <1>2

LEMMA WindowMarkerKeeps ==
  ASSUME NEW s, Shape(s), OutOK(s.out)
  PROVE  LET r == SubmitWindowMarker(s)
         IN  /\ Shape(r)
             /\ OutOK(r.out)
             /\ r.held = s.held
             /\ r.attributes = s.attributes
             /\ r.owed = s.owed
  <1> DEFINE e == [kind |-> "window", tuple |-> NewTuple]
             r == SubmitWindowMarker(s)
  <1>1. /\ DOMAIN r = DOMAIN s
        /\ r.held = s.held
        /\ r.attributes = s.attributes
        /\ r.owed = s.owed
        /\ r.out = Append(s.out, e)
    BY DEF SubmitWindowMarker, Shape
  <1>2. EntryOK(e)
    BY NothingToAccountFor DEF EntryOK, NewTuple, NoLabels
  <1> HIDE DEF e
  <1>3. OutOK(r.out)
    BY <1>1, <1>2, OneMoreSubmitted
  <1> HIDE DEF r
  <1>4. Shape(r)
    BY <1>1 DEF Shape
  <1> QED BY <1>1, <1>3, <1>4 DEF r

(* The end tuple leaves its tuple marked; nothing refers to it afterwards. *)
LEMMA CompletedKeeps ==
  ASSUME NEW s, Sound(s), NEW t \in TupleId \union {NoTuple}
  PROVE  LET r == SendTranscriptionCompleted(s, t)
         IN  /\ Shape(r)
             /\ OutOK(r.out)
             /\ r.held = s.held
             /\ r.owed = s.owed
  <1>1. CASE t = NoTuple \/ ~configuration.isTranscriptionCompletedRequested
    BY <1>1 DEF SendTranscriptionCompleted, Sound
  <1>2. CASE t # NoTuple /\ configuration.isTranscriptionCompletedRequested
    <2> DEFINE c == ClearResults(s, t)
               a == [c.attributes[t] EXCEPT !.completed = TRUE]
               q == [c EXCEPT !.attributes[t].completed = TRUE]
    <2>0. t \in TupleId
      BY <1>2
    <2>1. /\ Sound(c)
          /\ c.held = s.held
          /\ c.owed = s.owed
          /\ NoLabels(c.attributes[t])
          /\ c.attributes[t].utterance = ClearedUtterance
          /\ c.attributes[t].due = FALSE
      BY <2>0, ClearResultsKeep
    <2>2. SendTranscriptionCompleted(s, t) = Submit(q, t, "completed")
      BY <1>2 DEF SendTranscriptionCompleted
    <2> HIDE DEF c
    <2>3. Clean(c.attributes[t])
      BY <2>0, <2>1 DEF Sound
    <2>4. /\ a.error = FALSE
          /\ a.completed = TRUE
          /\ NoLabels(a)
          /\ a.utterance = ClearedUtterance
          /\ a.due = FALSE
      BY <2>1, <2>3, Fields DEF Clean, NoLabels
    <2>5. /\ DOMAIN q = DOMAIN c
          /\ q.held = c.held
          /\ q.out = c.out
          /\ q.owed = c.owed
          /\ DOMAIN q.attributes = TupleId
          /\ q.attributes[t] = a
      BY <2>0, <2>1 DEF Sound, Shape
    <2> HIDE DEF q, a
    <2>6. Shape(q) /\ OutOK(q.out)
      BY <2>1, <2>5 DEF Sound, Shape
    <2>7. EntryOK([kind |-> "completed", tuple |-> q.attributes[t]])
      BY <2>4, <2>5, NothingToAccountFor DEF EntryOK, NoLabels
    <2>8. q.attributes[t].due = FALSE
      BY <2>4, <2>5
    <2> QED BY <2>0, <2>1, <2>2, <2>5, <2>6, <2>7, <2>8, SubmitKeeps
  <1> QED BY <1>1, <1>2

(* While an error tuple goes out, one tuple is marked.                     *)
Marked(a) ==
  /\ DOMAIN a = DOMAIN NewTuple
  /\ a.completed = FALSE
  /\ ~identifySpeakers => NoLabels(a)

MarkedAt(s, t) ==
  /\ Shape(s)
  /\ OutOK(s.out)
  /\ \A v \in TupleId \ {t} : Clean(s.attributes[v])
  /\ Marked(s.attributes[t])

LEMMA SetErrorKeeps ==
  ASSUME NEW s, NEW t \in TupleId, MarkedAt(s, t), NEW e
  PROVE  LET r == SetError(s, t, e)
         IN  /\ MarkedAt(r, t)
             /\ r.held = s.held
             /\ r.out = s.out
             /\ r.owed = s.owed
             /\ r.attributes[t].error = e
             /\ NoLabels(s.attributes[t]) => NoLabels(r.attributes[t])
             /\ r.attributes[t].utterance = s.attributes[t].utterance
             /\ r.attributes[t].due = s.attributes[t].due
  <1> DEFINE r == SetError(s, t, e)
             a == [s.attributes[t] EXCEPT !.error = e]
  <1>1. /\ DOMAIN r = DOMAIN s
        /\ r.held = s.held
        /\ r.out = s.out
        /\ r.owed = s.owed
        /\ DOMAIN r.attributes = TupleId
        /\ \A v \in TupleId \ {t} : r.attributes[v] = s.attributes[v]
        /\ r.attributes[t] = a
    BY DEF SetError, MarkedAt, Shape
  <1>2. DOMAIN s.attributes[t] = DOMAIN NewTuple /\ Marked(s.attributes[t])
    BY DEF MarkedAt, Marked
  <1>3. /\ DOMAIN a = DOMAIN NewTuple
        /\ a.completed = s.attributes[t].completed
        /\ a.error = e
        /\ a.speakers = s.attributes[t].speakers
        /\ a.updates = s.attributes[t].updates
        /\ a.labels = s.attributes[t].labels
        /\ a.utterance = s.attributes[t].utterance
        /\ a.due = s.attributes[t].due
    BY <1>2, Fields
  <1> HIDE DEF r, a
  <1>4. Marked(r.attributes[t])
    BY <1>1, <1>2, <1>3 DEF Marked, NoLabels
  <1>5. MarkedAt(r, t)
    BY <1>1, <1>4 DEF MarkedAt, Shape
  <1>6. /\ r.attributes[t].error = e
        /\ NoLabels(s.attributes[t]) => NoLabels(r.attributes[t])
        /\ r.attributes[t].utterance = s.attributes[t].utterance
        /\ r.attributes[t].due = s.attributes[t].due
    BY <1>1, <1>3 DEF NoLabels
  <1> QED BY <1>1, <1>5, <1>6 DEF r

(* The error text is taken back after the submission.                      *)
LEMMA ErrorSubmitted ==
  ASSUME NEW s, NEW t \in TupleId, Sound(s), NoLabels(s.attributes[t])
  PROVE  LET q == Submit(SetError(s, t, TRUE), t, "error")
         IN  /\ MarkedAt(q, t)
             /\ q.held = s.held
             /\ q.owed = IF s.attributes[t].due THEN s.owed - 1 ELSE s.owed
  <1> DEFINE yes == TRUE
  <1>1. yes = TRUE
    OBVIOUS
  <1> HIDE DEF yes
  <1> DEFINE e == SetError(s, t, yes)
             q == Submit(e, t, "error")
  <1>2. MarkedAt(s, t)
    BY DEF Sound, MarkedAt, Clean, Marked
  <1>3. /\ MarkedAt(e, t)
        /\ e.held = s.held
        /\ e.owed = s.owed
        /\ e.attributes[t].error = yes
        /\ NoLabels(e.attributes[t])
        /\ e.attributes[t].utterance = s.attributes[t].utterance
        /\ e.attributes[t].due = s.attributes[t].due
    BY <1>2, SetErrorKeeps
  <1> HIDE DEF e
  <1>4. EntryOK([kind |-> "error", tuple |-> e.attributes[t]])
    BY <1>1, <1>3, NothingToAccountFor DEF EntryOK, MarkedAt, Marked
  <1>5. /\ Shape(q) /\ OutOK(q.out)
        /\ q.attributes = e.attributes
        /\ q.held = e.held
        /\ q.owed = IF e.attributes[t].due THEN e.owed - 1 ELSE e.owed
    BY <1>3, <1>4, SubmitKeeps DEF MarkedAt
  <1> HIDE DEF q
  <1>6. MarkedAt(q, t)
    BY <1>3, <1>5 DEF MarkedAt
  <1>7. q.owed = IF s.attributes[t].due THEN s.owed - 1 ELSE s.owed
    BY <1>3, <1>5
  <1> QED BY <1>1, <1>3, <1>5, <1>6, <1>7 DEF q, e

LEMMA ErrorTakenBack ==
  ASSUME NEW s, NEW t \in TupleId, MarkedAt(s, t)
  PROVE  LET r == SetError(s, t, FALSE)
         IN  Sound(r) /\ r.held = s.held /\ r.owed = s.owed
  <1> DEFINE no == FALSE
  <1>1. no = FALSE
    OBVIOUS
  <1> HIDE DEF no
  <1> DEFINE r == SetError(s, t, no)
  <1>2. /\ MarkedAt(r, t)
        /\ r.held = s.held
        /\ r.owed = s.owed
        /\ r.attributes[t].error = no
    BY SetErrorKeeps
  <1> HIDE DEF r
  <1>3. Sound(r)
    BY <1>1, <1>2 DEF MarkedAt, Marked, Sound, Clean
  <1> QED BY <1>1, <1>2, <1>3 DEF r

LEMMA ErrorTupleKeeps ==
  ASSUME NEW s, Sound(s), NEW starts, HeldOK(s, starts),
         recentOTuple \in TupleId \union {NoTuple}
  PROVE  LET r == SendErrorTuple(s)
         IN  /\ Sound(r)
             /\ r.held = NoTuple
             /\ Balanced(s) => Balanced(r)
  <1>1. CASE s.held # NoTuple
    <2> DEFINE h == s.held
               q == Submit(SetError(s, h, TRUE), h, "error")
               p == [q EXCEPT !.held = NoTuple]
               r == SetError(p, h, FALSE)
    <2>1. h \in TupleId /\ s.attributes[h].due = TRUE /\ NoLabels(s.attributes[h])
      BY <1>1 DEF Sound, Shape, HeldOK
    <2>2. SendErrorTuple(s) = r
      BY <1>1 DEF SendErrorTuple
    <2> HIDE DEF h
    <2>3. MarkedAt(q, h) /\ q.owed = s.owed - 1
      BY <2>1, ErrorSubmitted
    <2> HIDE DEF q
    <2>4. /\ DOMAIN p = DOMAIN q
          /\ p.held = NoTuple
          /\ p.attributes = q.attributes
          /\ p.out = q.out
          /\ p.owed = q.owed
      BY <2>3 DEF MarkedAt, Shape
    <2> HIDE DEF p
    <2>5. MarkedAt(p, h)
      BY <2>3, <2>4 DEF MarkedAt, Shape
    <2>6. Sound(r) /\ r.held = NoTuple /\ r.owed = s.owed - 1
      BY <2>1, <2>3, <2>4, <2>5, ErrorTakenBack
    <2> HIDE DEF r
    <2>7. Balanced(s) => Balanced(r)
      BY <1>1, <2>6 DEF Balanced
    <2> QED BY <2>2, <2>6, <2>7
  <1>2. CASE s.held = NoTuple /\ recentOTuple = NoTuple
    BY <1>2 DEF SendErrorTuple
  <1>3. CASE s.held = NoTuple /\ recentOTuple # NoTuple
    <2> DEFINE c == ClearResults(s, recentOTuple)
               q == Submit(SetError(c, recentOTuple, TRUE), recentOTuple, "error")
               r == SetError(q, recentOTuple, FALSE)
    <2>1. recentOTuple \in TupleId
      BY <1>3
    <2>2. /\ Sound(c)
          /\ c.held = s.held
          /\ c.owed = s.owed
          /\ NoLabels(c.attributes[recentOTuple])
          /\ c.attributes[recentOTuple].due = FALSE
      BY <2>1, ClearResultsKeep
    <2>3. SendErrorTuple(s) = r
      BY <1>3 DEF SendErrorTuple
    <2> HIDE DEF c
    <2>5. MarkedAt(q, recentOTuple) /\ q.held = c.held /\ q.owed = c.owed
      BY <2>1, <2>2, ErrorSubmitted
    <2> HIDE DEF q
    <2>6. Sound(r) /\ r.held = s.held /\ r.owed = s.owed
      BY <2>1, <2>2, <2>5, ErrorTakenBack
    <2> HIDE DEF r
    <2>7. Balanced(s) => Balanced(r)
      BY <1>3, <2>6 DEF Balanced
    <2> QED BY <1>3, <2>3, <2>6, <2>7
  <1> QED BY <1>1, <1>2, <1>3

(* A result is written while nothing is held, and then held or submitted.  *)
LEMMA UtteranceKeeps ==
  ASSUME NEW s, Sound(s), s.held = NoTuple, Balanced(s),
         NEW m \in Message, NEW d, d = Decode(NothingDecoded, m, mode),
         ~Unexpected(d), HasResults(d), OneUnlessComplete(m, mode),
         recentOTuple \in TupleId
  PROVE  LET r == HoldOrSubmit(WriteUtterance(s, d, m), d)
         IN  /\ Sound(r)
             /\ Balanced(r)
             /\ HeldOK(r, StartTimes(d.words))
  <1> DEFINE t == recentOTuple
             final == IsFinal(d)
             u == Utterance(d, final)
             c == ClearSpeakers(s, t)
             w == SetResultAttributes(c, t, u, m, final)
             r == HoldOrSubmit(w, d)
  <1>1. /\ final \in BOOLEAN /\ u.words = d.words
        /\ u = Utterance(d, mode = "complete" \/ d.finals[1])
    BY DEF IsFinal, Utterance
  <1>2. w = WriteUtterance(s, d, m)
    BY DEF WriteUtterance
  <1>3. r = IF final /\ identifySpeakers THEN [w EXCEPT !.held = t]
            ELSE IF final \/ mode = "partial" THEN Submit(w, t, "utterance")
            ELSE w
    BY DEF HoldOrSubmit
  <1>4. /\ Sound(c)
        /\ c.held = s.held
        /\ c.owed = s.owed
        /\ NoLabels(c.attributes[t])
    BY ClearSpeakersKeep
  <1> HIDE DEF c, u, final
  <1>5. /\ Sound(w)
        /\ w.held = c.held
        /\ w.owed = IF final THEN c.owed + 1 ELSE c.owed
        /\ w.attributes[t].utterance = u
        /\ w.attributes[t].due = final
        /\ w.attributes[t].source = m
        /\ NoLabels(w.attributes[t])
    BY <1>1, <1>4, ResultsKeep DEF NoLabels
  <1>10. Shown(w.attributes[t], mode)
    BY <1>1, <1>5 DEF Shown
  <1> HIDE DEF w
  <1>6. w.owed = IF final THEN 1 ELSE 0
    BY <1>4, <1>5 DEF Balanced
  <1>7. CASE final /\ identifySpeakers
    <2> DEFINE h == [w EXCEPT !.held = t]
    <2>1. r = h
      BY <1>3, <1>7
    <2>2. /\ DOMAIN h = DOMAIN w
          /\ h.held = t
          /\ h.attributes = w.attributes
          /\ h.out = w.out
          /\ h.owed = w.owed
      BY <1>5 DEF Sound, Shape
    <2> HIDE DEF h
    <2>3. Sound(h)
      BY <1>5, <2>2 DEF Sound, Shape
    <2>4. Balanced(h)
      BY <1>6, <1>7, <2>2, NoTupleIsNoTuple DEF Balanced
    <2>5. HeldOK(h, StartTimes(d.words))
      BY <1>1, <1>4, <1>5, <1>7, <1>10, <2>2 DEF HeldOK
    <2> QED BY <1>2, <2>1, <2>3, <2>4, <2>5
  <1>8. CASE ~(final /\ identifySpeakers) /\ (final \/ mode = "partial")
    <2> DEFINE q == Submit(w, t, "utterance")
    <2>1. r = q
      BY <1>3, <1>8
    <2>2. Clean(w.attributes[t])
      BY <1>5 DEF Sound
    <2>3. EntryOK([kind |-> "utterance", tuple |-> w.attributes[t]])
      BY <1>5, <1>10, <2>2, UtteranceEntry, NothingToAccountFor
    <2>4. /\ Sound(q)
          /\ q.held = w.held
          /\ q.owed = IF w.attributes[t].due THEN w.owed - 1 ELSE w.owed
      BY <1>5, <2>3, SubmitKeeps DEF Sound
    <2> HIDE DEF q
    <2>5. q.held = NoTuple /\ q.owed = 0
      BY <1>1, <1>4, <1>5, <1>6, <2>4
    <2> QED BY <1>2, <2>1, <2>4, <2>5 DEF Balanced, HeldOK
  <1>9. CASE ~final /\ mode # "partial"
    <2>1. r = w
      BY <1>3, <1>9
    <2>2. w.held = NoTuple /\ w.owed = 0
      BY <1>4, <1>5, <1>6, <1>9
    <2> QED BY <1>2, <1>5, <2>1, <2>2 DEF Balanced, HeldOK
  <1> QED BY <1>7, <1>8, <1>9

-----------------------------------------------------------------------------
(* What a callback returns is what the invariant says of the next state.   *)
LEMMA EntrySound ==
  ASSUME IInv
  PROVE  /\ Sound(Entry)
         /\ HeldOK(Entry, myUtteranceWordsStartTimes)
         /\ wsState # "crashed" => Balanced(Entry)
         /\ Entry.held = oTupleUsedForSubmission
  <1>1. Shape(Entry) /\ OutOK(Entry.out)
    BY NothingSubmitted DEF IInv, Sound, Shape, Entry, Now
  <1>2. \A t \in TupleId : Clean(Entry.attributes[t])
    BY DEF IInv, Sound, Entry, Now
  <1>3. /\ HeldOK(Entry, myUtteranceWordsStartTimes)
        /\ wsState # "crashed" => Balanced(Entry)
    BY DEF IInv, HeldOK, Balanced, Entry, Now
  <1> QED BY <1>1, <1>2, <1>3 DEF Sound, Entry

(* What may be submitted may be so in the next state: the mode stays.      *)
LEMMA SubmittedStays ==
  ASSUME UNCHANGED configuration, OutOK(out')
  PROVE  OutOK(out)'
  <1>1. PICK S : out' \in Seq(S) /\ \A x \in S : EntryOK(x)
    BY DEF OutOK
  <1>2. ASSUME NEW x \in S PROVE EntryOK(x)'
    <2>1. x.kind = "utterance" => Shown(x.tuple, mode)'
      BY <1>1 DEF EntryOK, Shown, mode
    <2>2. OnePerWord(x.tuple)' /\ LabelsRight(x.tuple)'
      BY <1>1 DEF EntryOK, OnePerWord, LabelsRight, LabelOfWord, NoSpeaker
    <2> QED
      BY <1>1, <2>1, <2>2 DEF EntryOK, ClearedUtterance, Utterance, NothingDecoded
  <1> QED BY <1>1, <1>2 DEF OutOK

LEMMA Returned ==
  ASSUME NEW s, Returns(s), IInv,
         Shape(s), OutOK(s.out),
         \A t \in TupleId : t \in {recentOTuple', s.held} => Clean(s.attributes[t]),
         HeldOK(s, myUtteranceWordsStartTimes'),
         wsState' \in {"listening", "error", "closed", "crashed"},
         wsState' # "crashed" => Balanced(s),
         wsState' \in {"error", "closed"} => s.held = NoTuple,
         recentOTuple' \in TupleId \union {NoTuple},
         UNCHANGED configuration
  PROVE  IInv'
  <1>1. /\ attributes' = [t \in TupleId |-> IF t \in {recentOTuple', s.held}
                                           THEN s.attributes[t] ELSE NewTuple]
        /\ oTupleUsedForSubmission' = s.held
        /\ out' = s.out
        /\ owed' = s.owed
    BY DEF Returns
  <1>2. Shape(Now)'
    BY <1>1 DEF Shape, Now
  <1>3. OutOK(Now.out)'
    BY <1>1, SubmittedStays DEF Now
  <1>4. ASSUME NEW t \in TupleId
        PROVE  Clean(Now.attributes[t])'
    <2>1. attributes'[t] \in {s.attributes[t], NewTuple} /\ Clean(attributes'[t])
      BY <1>1, NewTupleClean
    <2> QED BY <2>1 DEF Clean, Now, identifySpeakers, NewTuple, NoLabels
  <1>5. s.held # NoTuple => attributes'[s.held] = s.attributes[s.held]
    BY <1>1 DEF Shape
  <1>6. HeldOK(Now, myUtteranceWordsStartTimes)'
    BY <1>1, <1>5 DEF HeldOK, Now, identifySpeakers, StartTimes, NoLabels, Shown, mode
  <1>7. (wsState # "crashed" => Balanced(Now))'
    BY <1>1 DEF Balanced, Now
  <1> QED BY <1>1, <1>2, <1>3, <1>4, <1>6, <1>7 DEF IInv, Sound

-----------------------------------------------------------------------------
LEMMA IInvInit == Init => IInv
  <1> SUFFICES ASSUME Init PROVE IInv
    OBVIOUS
  <1>1. configuration \in Config
    BY ConfigsAreConfigs DEF Init
  <1>2. Shape(Now) /\ OutOK(Now.out)
    BY NothingSubmitted DEF Init, Shape, Now
  <1>3. \A t \in TupleId : Clean(Now.attributes[t])
    BY NewTupleClean DEF Init, Now
  <1>4. HeldOK(Now, myUtteranceWordsStartTimes) /\ Balanced(Now)
    BY DEF Init, HeldOK, Balanced, Now
  <1> QED BY <1>1, <1>2, <1>3, <1>4 DEF Init, IInv, Sound

LEMMA PublishKeeps == ASSUME IInv, PublishTuple PROVE IInv'
  <1>1. PICK t \in TupleId \ {oTupleUsedForSubmission} :
          /\ recentOTuple' = t
          /\ Returns([Entry EXCEPT !.attributes[t] = NewTuple])
    BY DEF PublishTuple
  <1> DEFINE r == [Entry EXCEPT !.attributes[t] = NewTuple]
  <1>2. /\ Sound(Entry)
        /\ HeldOK(Entry, myUtteranceWordsStartTimes)
        /\ Balanced(Entry)
        /\ Entry.held = oTupleUsedForSubmission
    BY EntrySound DEF PublishTuple
  <1> HIDE DEF IInv
  <1>3. /\ DOMAIN r = DOMAIN Entry
        /\ r.held = Entry.held
        /\ r.out = Entry.out
        /\ r.owed = Entry.owed
        /\ DOMAIN r.attributes = TupleId
        /\ r.attributes[t] = NewTuple
        /\ \A v \in TupleId \ {t} : r.attributes[v] = Entry.attributes[v]
    BY <1>2 DEF Sound, Shape
  <1>4. Returns(r)
    BY <1>1
  <1> HIDE DEF r
  <1>5. Shape(r) /\ OutOK(r.out) /\ \A v \in TupleId : Clean(r.attributes[v])
    BY <1>2, <1>3, NewTupleClean DEF Sound, Shape
  <1>6. HeldOK(r, myUtteranceWordsStartTimes) /\ Balanced(r)
    BY <1>1, <1>2, <1>3 DEF HeldOK, Balanced, Sound, Shape
  <1> QED BY <1>1, <1>4, <1>5, <1>6, Returned DEF PublishTuple

LEMMA ConnectKeeps == ASSUME IInv, Connect PROVE IInv'
  <1> DEFINE r == [Entry EXCEPT !.held = NoTuple, !.owed = 0]
  <1>1. Sound(Entry)
    BY EntrySound
  <1>2. /\ DOMAIN r = DOMAIN Entry
        /\ r.held = NoTuple
        /\ r.out = Entry.out
        /\ r.owed = 0
        /\ r.attributes = Entry.attributes
    BY <1>1 DEF Sound, Shape
  <1>3. Returns(r)
    BY DEF Connect
  <1> HIDE DEF r
  <1>4. Shape(r) /\ OutOK(r.out) /\ \A v \in TupleId : Clean(r.attributes[v])
    BY <1>1, <1>2 DEF Sound, Shape
  <1>5. HeldOK(r, myUtteranceWordsStartTimes') /\ Balanced(r)
    BY <1>2 DEF HeldOK, Balanced
  <1>6. recentOTuple \in TupleId \union {NoTuple}
    BY DEF IInv
  <1> QED BY <1>2, <1>3, <1>4, <1>5, <1>6, Returned DEF Connect

LEMMA CrashKeeps ==
  ASSUME IInv, Crash, Returns(Entry),
         UNCHANGED <<configuration, myUtteranceWordsStartTimes>>
  PROVE  IInv'
  BY EntrySound, Returned DEF Crash, Sound

LEMMA NothingKeeps == ASSUME IInv, NEW m, OnNothing(m) PROVE IInv'
  <1>1. recentOTuple \in TupleId \union {NoTuple}
    BY DEF IInv
  <1>2. wsState = "listening" /\ wsState' = wsState
    BY DEF OnNothing, Receive
  <1> QED BY <1>1, <1>2, EntrySound, Returned DEF OnNothing, Receive, Sound

(* The end of a conversation, in both callbacks that report it.            *)
LEMMA EndKeeps ==
  ASSUME IInv, NEW s, Sound(s), s.held = NoTuple, wsState' # "crashed" => Balanced(s),
         Returns(SubmitWindowMarker(SendTranscriptionCompleted(s, recentOTuple))),
         recentOTuple' = NoTuple, wsState' \in {"listening", "closed"},
         UNCHANGED configuration
  PROVE  IInv'
  <1> DEFINE c == SendTranscriptionCompleted(s, recentOTuple)
             r == SubmitWindowMarker(c)
  <1>1. recentOTuple \in TupleId \union {NoTuple}
    BY DEF IInv
  <1>2. Shape(c) /\ OutOK(c.out) /\ c.held = NoTuple /\ c.owed = s.owed
    BY <1>1, CompletedKeeps
  <1> HIDE DEF c
  <1>3. Shape(r) /\ OutOK(r.out) /\ r.held = NoTuple /\ r.owed = s.owed
    BY <1>2, WindowMarkerKeeps
  <1>4. Returns(r)
    BY DEF c
  <1> HIDE DEF r
  <1>5. /\ \A t \in TupleId : t \notin {recentOTuple', r.held}
        /\ HeldOK(r, myUtteranceWordsStartTimes')
        /\ wsState' # "crashed" => Balanced(r)
    BY <1>3, NoTupleIsNoTuple DEF HeldOK, Balanced
  <1> QED BY <1>3, <1>4, <1>5, Returned

LEMMA ListeningKeeps == ASSUME IInv, NEW m, OnListeningAgain(m) PROVE IInv'
  <1>1. wsState = "listening"
    BY DEF OnListeningAgain, Receive
  <1>2. /\ Sound(SubmitHeld(Entry))
        /\ SubmitHeld(Entry).held = NoTuple
        /\ Balanced(SubmitHeld(Entry))
    BY <1>1, EntrySound, SubmitHeldKeeps
  <1> QED BY <1>2, EndKeeps DEF OnListeningAgain, Receive

LEMMA ErrorKeeps == ASSUME IInv, NEW m, OnError(m) PROVE IInv'
  <1>1. wsState = "listening" /\ recentOTuple \in TupleId \union {NoTuple}
    BY DEF OnError, Receive, IInv
  <1> DEFINE r == SendErrorTuple(Entry)
  <1>2. Sound(r) /\ r.held = NoTuple /\ Balanced(r)
    BY <1>1, EntrySound, ErrorTupleKeeps
  <1>3. Returns(r)
    BY DEF OnError
  <1> HIDE DEF r
  <1>4. HeldOK(r, myUtteranceWordsStartTimes')
    BY <1>2 DEF HeldOK
  <1> QED BY <1>1, <1>2, <1>3, <1>4, Returned DEF OnError, Receive, Sound

(* The labels of a message that is no surprise have speakers.              *)
LEMMA LabelsNamed ==
  ASSUME IInv, NEW m \in Message, Receive(m), ~Unexpected(dec')
  PROVE  NamedLabels(dec'.labels)
  <1>1. dec' = Decode(NothingDecoded, m, mode)
    BY DEF Receive, Decode, Reset
  <1>2. mode \in {"partial", "final", "complete"}
    BY DEF IInv, Config, mode
  <1>3. ~dec'.thrown
    BY DEF Unexpected
  <1> QED BY <1>1, <1>2, <1>3, SpeakersAreNamed

LEMMA UtteranceStepKeeps ==
  ASSUME IInv, NEW m \in Message, OnUtterance(m)
  PROVE  IInv'
  <1> DEFINE h == SubmitHeld(Entry)
             s == HoldOrSubmit(WriteUtterance(h, dec', m), dec')
             starts == StartTimes(dec'.words)
             r == IF HasLabels(dec')
                  THEN SubmitWithSpeakers(s, dec'.labels, myUtteranceWordsStartTimes')
                  ELSE s
  <1>0. NamedLabels(dec'.labels)
    BY LabelsNamed DEF OnUtterance
  <1>1. wsState = "listening" /\ recentOTuple \in TupleId
    BY DEF OnUtterance, Receive, IInv
  <1>2. Sound(h) /\ h.held = NoTuple /\ Balanced(h)
    BY <1>1, EntrySound, SubmitHeldKeeps
  <1>3. Returns(r)
    BY DEF OnUtterance
  <1> HIDE DEF h
  <1>4. Sound(s) /\ Balanced(s) /\ HeldOK(s, starts)
    <2>1. /\ dec' = Decode(NothingDecoded, m, mode)
          /\ ~Unexpected(dec') /\ HasResults(dec')
      BY DEF OnUtterance, Receive, Decode, Reset
    <2>2. OneUnlessComplete(m, mode)
      BY DEF OnUtterance, Receive, AsRequested, OneUnlessComplete
    <2> QED BY <1>1, <1>2, <2>1, <2>2, UtteranceKeeps
  <1>5. identifySpeakers => myUtteranceWordsStartTimes' = starts
    BY DEF OnUtterance
  <1> HIDE DEF s, starts
  <1>6. HeldOK(s, myUtteranceWordsStartTimes')
    BY <1>4, <1>5 DEF HeldOK
  <1>7. Sound(r) /\ Balanced(r) /\ HeldOK(r, myUtteranceWordsStartTimes')
    BY <1>0, <1>4, <1>6, SubmitWithSpeakersKeeps
  <1> HIDE DEF r
  <1> QED BY <1>1, <1>3, <1>7, Returned DEF OnUtterance, Receive, Sound

LEMMA WithoutTupleKeeps == ASSUME IInv, NEW m, OnUtteranceWithoutTuple(m) PROVE IInv'
  <1> DEFINE r == SubmitHeld(Entry)
  <1>1. Sound(r) /\ r.held = NoTuple
    BY EntrySound, SubmitHeldKeeps
  <1>2. Returns(r)
    BY DEF OnUtteranceWithoutTuple
  <1> HIDE DEF r
  <1>3. HeldOK(r, myUtteranceWordsStartTimes')
    BY <1>1 DEF HeldOK
  <1> QED BY <1>1, <1>2, <1>3, Returned DEF OnUtteranceWithoutTuple, Receive, Crash, Sound

LEMMA LabelsKeep ==
  ASSUME IInv, NEW m \in Message, OnSpeakerLabels(m)
  PROVE  IInv'
  <1> DEFINE r == SubmitWithSpeakers(Entry, dec'.labels, myUtteranceWordsStartTimes)
  <1>0. NamedLabels(dec'.labels)
    BY LabelsNamed DEF OnSpeakerLabels
  <1>1. wsState = "listening" /\ recentOTuple \in TupleId \union {NoTuple}
    BY DEF OnSpeakerLabels, Receive, IInv
  <1>2. Sound(r) /\ Balanced(r) /\ HeldOK(r, myUtteranceWordsStartTimes)
    BY <1>0, <1>1, EntrySound, SubmitWithSpeakersKeeps
  <1>3. Returns(r)
    BY DEF OnSpeakerLabels
  <1> HIDE DEF r
  <1> QED BY <1>1, <1>2, <1>3, Returned DEF OnSpeakerLabels, Receive, Sound

LEMMA CloseKeeps == ASSUME IInv, OnClose PROVE IInv'
  <1> DEFINE s == IF wsState = "listening" THEN SendErrorTuple(Entry) ELSE Entry
  <1>1. recentOTuple \in TupleId \union {NoTuple}
    BY DEF IInv
  <1>2. Sound(s) /\ s.held = NoTuple /\ Balanced(s)
    <2>1. CASE wsState = "listening"
      BY <1>1, <2>1, EntrySound, ErrorTupleKeeps
    <2>2. CASE wsState = "error"
      BY <2>2, EntrySound DEF IInv
    <2> QED BY <2>1, <2>2 DEF OnClose
  <1>3. /\ wsState' = "closed"
        /\ recentOTuple' = NoTuple
        /\ UNCHANGED configuration
        /\ Returns(IF recentOTuple = NoTuple THEN s
                   ELSE SubmitWindowMarker(SendTranscriptionCompleted(s, recentOTuple)))
    BY DEF OnClose
  <1> HIDE DEF s
  <1>4. CASE recentOTuple = NoTuple
    BY <1>2, <1>3, <1>4, Returned DEF Sound, HeldOK
  <1>5. CASE recentOTuple # NoTuple
    BY <1>2, <1>3, <1>5, EndKeeps
  <1> QED BY <1>4, <1>5

LEMMA IInvStep == IInv /\ [Next]_vars => IInv'
  <1> SUFFICES ASSUME IInv, [Next]_vars PROVE IInv'
    OBVIOUS
  <1>1. CASE PublishTuple
    BY <1>1, PublishKeeps
  <1>2. CASE Connect
    BY <1>2, ConnectKeeps
  <1>3. CASE OnMessageAfterError
    BY <1>3, CrashKeeps DEF OnMessageAfterError
  <1>4. CASE OnClose
    BY <1>4, CloseKeeps
  <1>5. ASSUME NEW m \in Message, OnMessage(m) PROVE IInv'
    <2>1. CASE OnUnexpected(m)
      BY <2>1, CrashKeeps DEF OnUnexpected, Receive
    <2>2. CASE OnNothing(m)
      BY <2>2, NothingKeeps
    <2>3. CASE OnListeningAgain(m)
      BY <2>3, ListeningKeeps
    <2>4. CASE OnError(m)
      BY <2>4, ErrorKeeps
    <2>5. CASE OnUtterance(m)
      BY <2>5, UtteranceStepKeeps
    <2>6. CASE OnUtteranceWithoutTuple(m)
      BY <2>6, WithoutTupleKeeps
    <2>7. CASE OnSpeakerLabels(m)
      BY <2>7, LabelsKeep
    <2> QED BY <1>5, <2>1, <2>2, <2>3, <2>4, <2>5, <2>6, <2>7 DEF OnMessage
  <1>6. CASE UNCHANGED vars
    <2>1. OutOK(Now.out)'
      BY <1>6, SubmittedStays DEF vars, IInv, Sound, Now
    <2>2. \A t \in TupleId : Clean(Now.attributes[t])'
      BY <1>6 DEF vars, IInv, Sound, Clean, Now, identifySpeakers, NoLabels, NewTuple
    <2>3. HeldOK(Now, myUtteranceWordsStartTimes)'
      BY <1>6 DEF vars, IInv, HeldOK, Now, identifySpeakers, NoLabels, StartTimes,
                  Shown, mode
    <2>4. (wsState # "crashed" => Balanced(Now))' /\ Shape(Now)'
      BY <1>6 DEF vars, IInv, Sound, Shape, Balanced, Now
    <2> QED BY <1>6, <2>1, <2>2, <2>3, <2>4 DEF vars, IInv, Sound
  <1> QED BY <1>1, <1>2, <1>3, <1>4, <1>5, <1>6 DEF Next

(* The invariant of the held result and of the attributes of all tuples.   *)
THEOREM IInvCorrect == Spec => []IInv
  <1> QED BY IInvInit, IInvStep, PTL DEF Spec

(* The speakers of a submitted tuple are none or one for each of its own   *)
(* words, for every order of results, labels, errors and closes.           *)
THEOREM SpeakersCorrect == Spec => []SpeakersFollowWords
  <1>1. IInv => SpeakersFollowWords
    BY SubmittedOK DEF IInv, Sound, Now, EntryOK, SpeakersFollowWords
  <1> QED BY <1>1, IInvCorrect, PTL

(* Unless a callback crashes, a final result that was received is          *)
(* submitted exactly once or is the one that waits for its labels, and     *)
(* none waits after an error or once the connection is closed.             *)
THEOREM ResultsSubmittedOnce == Spec => []FinalResultsOnce
  <1>1. IInv => FinalResultsOnce
    BY DEF IInv, Balanced, Now, FinalResultsOnce
  <1> QED BY <1>1, IInvCorrect, PTL

(* A submitted result is what the decoder makes of one message alone: it   *)
(* has nothing of an earlier message, whatever exceptions, errors and      *)
(* closes came in between, and nothing was written over it while it        *)
(* waited for its labels.                                                  *)
TuplesAreDecoded ==
  \A i \in DOMAIN out : out[i].kind = "utterance" => Shown(out[i].tuple, mode)

THEOREM ResultsAsDecoded == Spec => []TuplesAreDecoded
  <1>1. IInv => TuplesAreDecoded
    BY SubmittedOK DEF IInv, Sound, Now, EntryOK, TuplesAreDecoded
  <1> QED BY <1>1, IInvCorrect, PTL

(* The decoder shows the message: the utterance of a tuple is what the     *)
(* reference reads off the message, however many results it has.           *)
THEOREM DecodedShows ==
  ASSUME NEW m, IsMessage(m), NEW md, OneUnlessComplete(m, md),
         ~Decode(NothingDecoded, m, md).thrown,
         HasResults(Decode(NothingDecoded, m, md))
  PROVE  LET d == Decode(NothingDecoded, m, md)
         IN  ShowsMessage(Utterance(d, md = "complete" \/ d.finals[1]), m, md)
  <1> DEFINE d0 == DecodeErrorAndState(NothingDecoded, m)
             d1 == DecodeResults(d0, m, md)
             d == Decode(NothingDecoded, m, md)
             u == Utterance(d, md = "complete" \/ d.finals[1])
             n == Len(m.results)
  <1>1. d = DecodeSpeakerLabels(DecodeResultIndex(d1, m), m)
    BY DEF Decode, Reset
  <1>2. Decoded(NothingDecoded)
    BY NothingIsSeq DEF Decoded, NothingDecoded
  <1>3. /\ DOMAIN d0 = DOMAIN NothingDecoded
        /\ \A f \in DOMAIN NothingDecoded \ {"error", "state", "thrown"} :
             d0[f] = NothingDecoded[f]
    <2> DEFINE Same(w) ==
                 /\ DOMAIN w = DOMAIN NothingDecoded
                 /\ \A f \in DOMAIN NothingDecoded \ {"error", "state", "thrown"} :
                      w[f] = NothingDecoded[f]
    <2>1. \A x, y : Same([NothingDecoded EXCEPT !.error = x, !.state = y])
      BY AttributeNames
    <2>2. Same(NothingDecoded) /\ \A x : Same([NothingDecoded EXCEPT !.error = x])
      BY AttributeNames
    <2>3. \A w : Same(w) => Same(Throw(w))
      BY AttributeNames DEF Throw
    <2>4. Same(d0)
      <3> HIDE DEF Same
      <3> QED BY <2>1, <2>2, <2>3 DEF DecodeErrorAndState
    <2> QED BY <2>4
  <1>4. Prefix(d0, Members(m.results), 0, md, <<>>, <<>>, <<>>)
    <2>1. \A f \in {"finals", "text", "alternatives", "words", "wordConfidences",
                    "start", "end", "keywords"} : d0[f] = NothingDecoded[f]
      BY <1>3, AttributeNames
    <2> HIDE DEF d0
    <2>2. Decoded(d0)
      BY <1>2, <1>3, <2>1 DEF Decoded
    <2> QED BY <2>1, <2>2 DEF Prefix, NothingDecoded
  <1> HIDE DEF d0
  <1>5. ~d0.thrown /\ ~d1.thrown /\ Decoded(d1)
    <2>1. d1.thrown => d = d1
      BY <1>1 DEF DecodeResultIndex, DecodeSpeakerLabels
    <2>2. d0.thrown => d1 = d0
      BY DEF DecodeResults
    <2>3. ~d0.thrown /\ ~d1.thrown
      BY <2>1, <2>2
    <2> QED BY <1>4, <2>3, AllDecoded
  <1> DEFINE rs == m.results
  <1>6. /\ d.resultIndex = IF m.result_index = Absent THEN -1 ELSE m.result_index
        /\ \A f \in DOMAIN NothingDecoded \ {"thrown", "resultIndex", "labels"} : d[f] = d1[f]
    BY <1>1, <1>5, IndexAndLabelsDecoded DEF Decoded
  <1>7. \A f \in {"finals", "confidence", "text", "alternatives", "words", "start", "end",
                 "wordConfidences", "wordAlternatives", "keywords"} : d[f] = d1[f]
    BY <1>6, AttributeNames
  <1> HIDE DEF d, d1
  <1>8. d1.finals # <<>>
    BY <1>7 DEF HasResults, d
  <1>9. /\ n \in Nat \ {0} /\ Required(rs) /\ rs[1].final \in BOOLEAN
        /\ Prefix(d1, rs, n, md, ExpectedText(m, md), ExpectedWords(m, md),
                  ExpectedConfidences(m, md))
    BY <1>4, <1>5, <1>8, AllDecoded DEF d1
  <1>10. n > 0 /\ (md # "complete" => n = 1)
    <2>1. n \in Nat \ {0} /\ (md # "complete" => n <= 1)
      BY <1>9 DEF OneUnlessComplete
    <2> HIDE DEF n
    <2> QED BY <2>1
  <1>11. /\ u.number = d.resultIndex + 1
         /\ u.final = (md = "complete" \/ d.finals[1])
         /\ u.text = d1.text /\ u.words = d1.words /\ u.alternatives = d1.alternatives
         /\ u.wordConfidences = d1.wordConfidences
         /\ u.start = d1.start /\ u.end = d1.end
         /\ u.keywords = d1.keywords
    BY <1>7 DEF Utterance
  <1>12. u.number = IF m.result_index = Absent THEN 0 ELSE m.result_index + 1
    BY <1>6, <1>11
  <1> HIDE DEF u, n
  <1>13. /\ u.text = ExpectedText(m, md)
         /\ u.words = ExpectedWords(m, md)
         /\ u.alternatives = ExpectedAlternatives(m, md)
         /\ u.wordConfidences = ExpectedConfidences(m, md)
    BY <1>9, <1>10, <1>11 DEF Prefix, ExpectedAlternatives
  <1>14. IF u.words = <<>> THEN u.start = 0 /\ u.end = 0 ELSE u.end = Last(u.words).end
    BY <1>9, <1>10, <1>11 DEF Prefix
  <1>15. WordsOf(rs[1], md) # <<>> => u.start = Head(u.words).start
    BY <1>9, <1>10, <1>11 DEF Prefix
  <1>16. ASSUME md = "partial", ~u.final
         PROVE  u.wordConfidences = <<>> /\ u.keywords = <<>>
    <2>1. n = 1 /\ ~d.finals[1]
      BY <1>10, <1>11, <1>16
    <2>2. d.finals[1] = rs[1].final
      BY <1>7, <1>9, <1>10 DEF Prefix
    <2> QED BY <1>9, <1>11, <2>1, <2>2 DEF Prefix
  <1>17. ShowsMessage(u, m, md)
    BY <1>12, <1>13, <1>14, <1>15, <1>16 DEF ShowsMessage
  <1> QED BY <1>17 DEF u, d

(* Every result that is submitted shows the message it was made from and   *)
(* nothing else, for every list of results in it, whatever exceptions,     *)
(* errors and closes came before.                                          *)
THEOREM MessagesShown == Spec => []TuplesShowTheirMessage
  <1>1. ASSUME NEW t, Shown(t, mode)
        PROVE  t.source # NoMessage /\ ShowsMessage(t.utterance, t.source, mode)
    <2>1. PICK m \in Message :
            LET d == Decode(NothingDecoded, m, mode)
            IN  /\ ~Unexpected(d) /\ HasResults(d)
                /\ OneUnlessComplete(m, mode)
                /\ t.source = m
                /\ t.utterance = Utterance(d, mode = "complete" \/ d.finals[1])
      BY <1>1 DEF Shown
    <2>2. m # NoMessage /\ IsMessage(m)
      BY NoMessageIsNoMessage, MessagesAreMessages
    <2>3. ~Decode(NothingDecoded, m, mode).thrown
      BY <2>1 DEF Unexpected
    <2> QED BY <2>1, <2>2, <2>3, DecodedShows
  <1>2. IInv => TuplesShowTheirMessage
    BY <1>1, SubmittedOK DEF IInv, Sound, Now, EntryOK, TuplesShowTheirMessage
  <1> QED BY <1>2, IInvCorrect, PTL

(* No label of the service is lost or made up, and a word is without a     *)
(* speaker only if no label has its time, for every order of results,      *)
(* labels, errors and closes.                                              *)
THEOREM LabelsCorrect == Spec => []LabelsAccountedFor
  <1>1. IInv => LabelsAccountedFor
    BY SubmittedOK DEF IInv, Sound, Now, EntryOK, LabelsRight, LabelsAccountedFor
  <1> QED BY <1>1, IInvCorrect, PTL

(* Only error tuples carry an error, and end tuples carry no result.       *)
THEOREM TuplesCarryNothingOld == Spec => []NothingLeftOver
  <1>1. IInv => NothingLeftOver
    BY SubmittedOK DEF IInv, Sound, Now, EntryOK, NothingLeftOver
  <1> QED BY <1>1, IInvCorrect, PTL
=============================================================================
