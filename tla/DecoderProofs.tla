--------------------------- MODULE DecoderProofs ---------------------------
(***************************************************************************)
(* What the decoder makes of a message, for every message however many     *)
(* results it has: if doWork does not throw, text, words and confidences   *)
(* are those of all results, joined, start and end those of the words, and *)
(* the alternatives those of the first result.  The recursive functions of *)
(* the decoder and of FlattenSeq are followed index by index; induction is *)
(* over a set of indices, from the least index outside it.                 *)
(***************************************************************************)
EXTENDS Decoder, WellFoundedInduction, TLAPS

(* Induction with a set for the predicate.                                 *)
LEMMA Induction ==
  ASSUME NEW P \in SUBSET Nat, 0 \in P, \A n \in P : n + 1 \in P
  PROVE  P = Nat
  <1> DEFINE less == {p \in Nat \X Nat : p[1] < p[2]}
             Rest == Nat \ P
  <1>1. IsWellFoundedOn(less, Nat)
    BY NatLessThanWellFounded, Zenon DEF OpToRel
  <1>2. \A i \in Nat : i + 1 \in Nat /\ <<i, i + 1>> \in less
    OBVIOUS
  <1>3. \A n \in Nat \ {0} : \E i \in Nat : n = i + 1
    <2> TAKE n \in Nat \ {0}
    <2> WITNESS n - 1 \in Nat
    <2> QED OBVIOUS
  <1>4. Rest \subseteq Nat
    OBVIOUS
  <1> HIDE DEF less
  <1>5. ASSUME Rest # {} PROVE FALSE
    <2>1. PICK n \in Rest : \A j \in Rest : <<j, n>> \notin less
      BY <1>1, <1>4, <1>5, WFMin
    <2>2. PICK i \in Nat : n = i + 1
      BY <1>3, <2>1
    <2> QED BY <1>2, <2>1, <2>2
  <1> QED BY <1>5

(* Sequences of anything.                                                  *)
IsSeq(s) == \E S : s \in Seq(S)

LEMMA NothingIsSeq == IsSeq(<<>>)
  <1>1. <<>> \in Seq({})
    OBVIOUS
  <1>2. \E S : <<>> \in Seq(S)
    BY <1>1, Zenon
  <1>3. IsSeq(<<>>)
    BY <1>2, Zenon DEF IsSeq
  <1> QED BY <1>3

LEMMA JoinedSeqs ==
  ASSUME NEW s, NEW t, IsSeq(s), IsSeq(t)
  PROVE  /\ IsSeq(s \o t)
         /\ s \o <<>> = s
         /\ <<>> \o t = t
         /\ Len(s \o t) = Len(s) + Len(t)
         /\ \A i \in 1 .. Len(s) : (s \o t)[i] = s[i]
         /\ \A i \in 1 .. Len(t) : (s \o t)[Len(s) + i] = t[i]
  <1>1. PICK A : s \in Seq(A)
    BY DEF IsSeq
  <1>2. PICK B : t \in Seq(B)
    BY DEF IsSeq
  <1>3. s \in Seq(A \union B) /\ t \in Seq(A \union B)
    BY <1>1, <1>2
  <1>4. s \o t \in Seq(A \union B)
    BY <1>3
  <1> QED BY <1>3, <1>4 DEF IsSeq

LEMMA LongerSeq ==
  ASSUME NEW s, NEW e, IsSeq(s)
  PROVE  /\ IsSeq(Append(s, e))
         /\ Append(s, e) = s \o <<e>>
         /\ Len(Append(s, e)) = Len(s) + 1
         /\ Append(s, e)[Len(s) + 1] = e
         /\ \A i \in 1 .. Len(s) : Append(s, e)[i] = s[i]
  <1>1. PICK A : s \in Seq(A)
    BY DEF IsSeq
  <1>2. s \in Seq(A \union {e}) /\ Append(s, e) \in Seq(A \union {e})
    BY <1>1
  <1> QED BY <1>2 DEF IsSeq

(* The recursive function of FlattenSeq, with the empty prefix.            *)
Joins(F, ss) ==
  /\ F[0] = <<>>
  /\ \A i \in 1 .. Len(ss) : F[i] = F[i - 1] \o ss[i]

LEMMA Flattened ==
  ASSUME NEW ss, IsSeq(ss), \A i \in 1 .. Len(ss) : IsSeq(ss[i])
  PROVE  \E F : /\ Joins(F, ss)
                /\ \A i \in 0 .. Len(ss) : IsSeq(F[i])
                /\ FlattenSeq(ss) = F[Len(ss)]
  <1> DEFINE link(g, i) == IF i = 1 THEN ss[i] ELSE g[i - 1] \o ss[i]
             Fits(g, n) == g = [i \in 1 .. n |-> link(g, i)]
             P == {n \in Nat : \E g : Fits(g, n)}
             n == Len(ss)
  <1>1. 0 \in P
    <2>1. Fits(<<>>, 0)
      OBVIOUS
    <2> QED BY <2>1
  <1>2. ASSUME NEW k \in P PROVE k + 1 \in P
    <2>1. PICK g : Fits(g, k)
      OBVIOUS
    <2> DEFINE h == [i \in 1 .. k + 1 |-> IF i = k + 1 THEN link(g, i) ELSE g[i]]
    <2>0. k \in Nat
      OBVIOUS
    <2> HIDE DEF P
    <2>2. \A i \in 1 .. k : g[i] = link(g, i)
      BY <2>1
    <2>3. h[k + 1] = link(g, k + 1) /\ \A i \in 1 .. k : h[i] = g[i]
      <3> HIDE DEF link
      <3> QED BY <2>0
    <2>4. \A i \in 1 .. k + 1 : h[i] = link(h, i)
      <3> HIDE DEF h
      <3> TAKE i \in 1 .. k + 1
      <3>1. (i = 1 \/ i - 1 \in 1 .. k) /\ (i = k + 1 \/ i \in 1 .. k)
        BY <2>0
      <3> QED BY <2>2, <2>3, <3>1
    <2>5. Fits(h, k + 1)
      <3> HIDE DEF link
      <3> QED BY <2>4
    <2> HIDE DEF Fits, h
    <2>6. \E f : Fits(f, k + 1)
      BY <2>5
    <2> QED BY <2>0, <2>6 DEF P
  <1>3. P \in SUBSET Nat
    OBVIOUS
  <1> HIDE DEF P
  <1>4. n \in P
    <2>1. P = Nat
      BY <1>1, <1>2, <1>3, Induction
    <2>2. n \in Nat
      BY DEF IsSeq
    <2> QED BY <2>1, <2>2
  <1>5. PICK g : Fits(g, n)
    BY <1>4 DEF P
  <1> DEFINE flatten == CHOOSE f : Fits(f, n)
  <1>6. Fits(flatten, n)
    BY <1>5
  <1>7. FlattenSeq(ss) = IF n = 0 THEN ss ELSE flatten[n]
    BY DEF FlattenSeq
  <1> HIDE DEF flatten
  <1> DEFINE F == [i \in 0 .. n |-> IF i = 0 THEN <<>> ELSE flatten[i]]
  <1>8. n \in Nat /\ (n = 0 => ss = <<>>)
    BY DEF IsSeq
  <1>16. /\ \A i \in 1 .. n : flatten[i] = link(flatten, i)
         /\ F[0] = <<>>
         /\ \A i \in 1 .. n : F[i] = flatten[i]
    <2> HIDE DEF link, n
    <2>1. flatten = [i \in 1 .. n |-> link(flatten, i)]
      BY <1>6
    <2> QED BY <1>8, <2>1
  <1>9. \A i \in 1 .. n : F[i] = IF i = 1 THEN ss[i] ELSE F[i - 1] \o ss[i]
    <2> HIDE DEF F, n
    <2> TAKE i \in 1 .. n
    <2>1. i = 1 \/ i - 1 \in 1 .. n
      BY <1>8
    <2> QED BY <1>16, <2>1
  <1> HIDE DEF F
  <1>10. ASSUME NEW i \in 1 .. n PROVE F[i] = F[i - 1] \o ss[i]
    <2>1. i = 1 => F[i] = <<>> \o ss[i] /\ F[i - 1] = <<>>
      BY <1>9, <1>16, NothingIsSeq, JoinedSeqs
    <2> QED BY <1>9, <2>1
  <1> DEFINE Q == {i \in Nat : i \in 0 .. n => IsSeq(F[i])}
  <1>11. 0 \in Q
    BY <1>16, NothingIsSeq
  <1>12. ASSUME NEW k \in Q PROVE k + 1 \in Q
    <2>1. k \in Nat /\ (k \in 0 .. n => IsSeq(F[k]))
      OBVIOUS
    <2>2. ASSUME NEW j \in 0 .. n, j = k + 1 PROVE IsSeq(F[j])
      <3>1. k \in 0 .. n /\ j \in 1 .. n /\ j - 1 = k
        BY <1>8, <2>1, <2>2
      <3>2. F[j] = F[j - 1] \o ss[j]
        BY <1>10, <3>1
      <3>3. F[j] = F[k] \o ss[j] /\ IsSeq(ss[j])
        BY <3>1, <3>2
      <3> QED BY <2>1, <3>1, <3>3, JoinedSeqs
    <2> QED BY <2>1, <2>2
  <1>13. Q \in SUBSET Nat
    OBVIOUS
  <1>14. \A i \in 0 .. n : IsSeq(F[i])
    <2> HIDE DEF Q
    <2>1. Q = Nat
      BY <1>11, <1>12, <1>13, Induction
    <2> QED BY <2>1 DEF Q
  <1>15. FlattenSeq(ss) = F[n]
    BY <1>6, <1>7, <1>8 DEF F
  <1> QED BY <1>10, <1>14, <1>15, <1>16 DEF Joins

-----------------------------------------------------------------------------
(* What every step of the decoder keeps of its attributes.                 *)
Decoded(d) ==
  /\ DOMAIN d = DOMAIN NothingDecoded
  /\ IsSeq(d.finals) /\ IsSeq(d.text) /\ IsSeq(d.alternatives)
  /\ IsSeq(d.words) /\ IsSeq(d.wordConfidences)

LEMMA AttributeNames ==
  DOMAIN NothingDecoded =
    {"thrown", "error", "state", "resultIndex", "finals", "confidence", "text",
     "alternatives", "words", "wordConfidences", "start", "end",
     "wordAlternatives", "keywords", "labels"}
  BY DEF NothingDecoded

LEMMA MembersIsSeq ==
  ASSUME NEW a, ArrayMember(a), Optional(a)
  PROVE  IsSeq(Members(a)) /\ DOMAIN Members(a) = 1 .. Len(Members(a))
  <1>1. CASE a = Absent
    BY <1>1, NothingIsSeq DEF Members
  <1>2. CASE a # Absent
    <2>1. IsArray(a) /\ Members(a) = a
      BY <1>2 DEF ArrayMember, Required, Optional, Members
    <2> QED BY <2>1 DEF IsArray, IsSeq
  <1> QED BY <1>1, <1>2

LEMMA TimestampsDecoded ==
  ASSUME NEW d, Decoded(d), NEW new, IsSeq(new), NEW i,
         ~DecodeTimestamps(d, new, i).thrown
  PROVE  LET e == DecodeTimestamps(d, new, i)
         IN  /\ Decoded(e) /\ ~d.thrown
             /\ e.words = d.words \o new
             /\ e.start = IF i = 1 /\ new # <<>> THEN new[1].start ELSE d.start
             /\ e.end = IF new # <<>> THEN Last(new).end ELSE d.end
             /\ \A f \in DOMAIN d \ {"words", "start", "end", "thrown"} : e[f] = d[f]
  <1> DEFINE r == Readable(new)
             ok == WellTyped(new)
             h == [d EXCEPT !.words = @ \o r,
                            !.start = IF i = 1 /\ r # <<>> THEN r[1].start ELSE @,
                            !.end = IF r # <<>> THEN Last(r).end ELSE @,
                            !.thrown = ~ok]
             e == DecodeTimestamps(d, new, i)
  <1>1. ~d.thrown /\ e = h
    BY DEF DecodeTimestamps
  <1>2. IsSeq(d.words \o new)
    BY JoinedSeqs DEF Decoded
  <1>3. ok => r = new
    BY DEF Readable
  <1> HIDE DEF r, ok, e
  <1>4. h.thrown = ~ok
    BY AttributeNames DEF Decoded
  <1>5. ok
    BY <1>1, <1>4 DEF e
  <1>6. /\ DOMAIN h = DOMAIN d
        /\ h.words = d.words \o new
        /\ h.start = IF i = 1 /\ new # <<>> THEN new[1].start ELSE d.start
        /\ h.end = IF new # <<>> THEN Last(new).end ELSE d.end
        /\ \A f \in DOMAIN d \ {"words", "start", "end", "thrown"} : h[f] = d[f]
    BY <1>3, <1>5, AttributeNames DEF Decoded
  <1> HIDE DEF h
  <1>7. Decoded(h)
    BY <1>2, <1>6, AttributeNames DEF Decoded
  <1> QED BY <1>1, <1>6, <1>7 DEF e

LEMMA WordConfidencesDecoded ==
  ASSUME NEW d, Decoded(d), NEW new, IsSeq(new),
         ~DecodeWordConfidences(d, new).thrown
  PROVE  LET e == DecodeWordConfidences(d, new)
         IN  /\ Decoded(e) /\ ~d.thrown
             /\ e.wordConfidences = d.wordConfidences \o new
             /\ \A f \in DOMAIN d \ {"wordConfidences", "thrown"} : e[f] = d[f]
  <1> DEFINE r == Readable(new)
             ok == WellTyped(new)
             h == [d EXCEPT !.wordConfidences = @ \o r, !.thrown = ~ok]
             e == DecodeWordConfidences(d, new)
  <1>1. ~d.thrown /\ e = h
    BY DEF DecodeWordConfidences
  <1>2. IsSeq(d.wordConfidences \o new)
    BY JoinedSeqs DEF Decoded
  <1>3. ok => r = new
    BY DEF Readable
  <1> HIDE DEF r, ok, e
  <1>4. h.thrown = ~ok
    BY AttributeNames DEF Decoded
  <1>5. ok
    BY <1>1, <1>4 DEF e
  <1>6. /\ DOMAIN h = DOMAIN d
        /\ h.wordConfidences = d.wordConfidences \o new
        /\ \A f \in DOMAIN d \ {"wordConfidences", "thrown"} : h[f] = d[f]
    BY <1>3, <1>5, AttributeNames DEF Decoded
  <1> HIDE DEF h
  <1>7. Decoded(h)
    BY <1>2, <1>6, AttributeNames DEF Decoded
  <1> QED BY <1>1, <1>6, <1>7 DEF e

LEMMA OthersDecoded ==
  ASSUME NEW d, Decoded(d), NEW others, IsSeq(others), NEW i, NEW complete,
         ~DecodeOthers(d, others, i, complete).thrown
  PROVE  LET e == DecodeOthers(d, others, i, complete)
         IN  /\ Decoded(e) /\ ~d.thrown
             /\ e.alternatives = IF complete \/ i > 1 THEN d.alternatives
                  ELSE d.alternatives \o [j \in DOMAIN others |-> others[j].transcript]
             /\ \A f \in DOMAIN d \ {"alternatives", "thrown"} : e[f] = d[f]
  <1> DEFINE r == Readable(others)
             ok == WellTyped(others)
             texts(o) == [j \in DOMAIN o |-> o[j].transcript]
             h == [d EXCEPT !.alternatives = IF complete \/ i > 1 THEN @ ELSE @ \o texts(r),
                            !.thrown = ~ok]
             e == DecodeOthers(d, others, i, complete)
  <1>1. ~d.thrown /\ e = h
    BY DEF DecodeOthers
  <1>2. IsSeq(texts(others))
    <2>1. PICK S : others \in Seq(S)
      BY DEF IsSeq
    <2>2. texts(others) \in Seq({others[j].transcript : j \in DOMAIN others})
      BY <2>1
    <2> HIDE DEF texts
    <2> QED BY <2>2 DEF IsSeq
  <1>3. ok => r = others
    BY DEF Readable
  <1> HIDE DEF r, ok, e, texts
  <1>8. IsSeq(d.alternatives \o texts(others))
    BY <1>2, JoinedSeqs DEF Decoded
  <1>4. h.thrown = ~ok
    BY AttributeNames DEF Decoded
  <1>5. ok
    BY <1>1, <1>4 DEF e
  <1>6. /\ DOMAIN h = DOMAIN d
        /\ h.alternatives = IF complete \/ i > 1 THEN d.alternatives
                            ELSE d.alternatives \o texts(others)
        /\ \A f \in DOMAIN d \ {"alternatives", "thrown"} : h[f] = d[f]
    BY <1>3, <1>5, AttributeNames DEF Decoded
  <1> HIDE DEF h
  <1>7. Decoded(h)
    BY <1>6, <1>8, AttributeNames DEF Decoded
  <1> QED BY <1>1, <1>6, <1>7 DEF e, texts

-----------------------------------------------------------------------------
(* What result i adds: its text, words and confidences of words.           *)
Adds(d, e, i, text, words, confidences) ==
  /\ Decoded(e)
  /\ IsSeq(words) /\ IsSeq(confidences)
  /\ e.text = d.text \o text
  /\ e.words = d.words \o words
  /\ e.start = IF i = 1 /\ words # <<>> THEN words[1].start ELSE d.start
  /\ e.end = IF words # <<>> THEN Last(words).end ELSE d.end
  /\ e.wordConfidences = d.wordConfidences \o confidences

LEMMA FirstDecoded ==
  ASSUME NEW d, Decoded(d), ~d.thrown, NEW a, WellShaped(a), NEW i, NEW final,
         NEW complete, ~DecodeFirst(d, a, i, final, complete).thrown,
         NEW confidences,
         confidences = IF final THEN Members(a.word_confidence) ELSE <<>>
  PROVE  LET e == DecodeFirst(d, a, i, final, complete)
         IN  /\ Adds(d, e, i, <<a.transcript>>, Members(a.timestamps), confidences)
             /\ e.finals = d.finals
             /\ e.alternatives = d.alternatives
             /\ e.keywords = d.keywords
  <1> DEFINE c == a.confidence
             confident == ~complete /\ i = 1
             d1 == IF confident
                   THEN [d EXCEPT !.confidence = IF c = Absent THEN -1 ELSE c] ELSE d
             d2 == [d1 EXCEPT !.text = Append(@, a.transcript)]
             words == Members(a.timestamps)
             d3 == DecodeTimestamps(d2, words, i)
             new == Members(a.word_confidence)
             d4 == DecodeWordConfidences(d3, new)
             e == DecodeFirst(d, a, i, final, complete)
  <1>1. e = IF a = IllTyped \/ (confident /\ c = IllTyped) THEN Throw(d)
            ELSE IF ~Required(a.transcript) THEN Throw(d1)
            ELSE IF ~Optional(a.timestamps) THEN Throw(d2)
            ELSE IF ~final \/ d3.thrown THEN d3
            ELSE IF ~Optional(a.word_confidence) THEN Throw(d3)
            ELSE d4
    BY DEF DecodeFirst
  <1>2. /\ DOMAIN d1 = DOMAIN d
        /\ \A f \in DOMAIN d \ {"confidence"} : d1[f] = d[f]
    BY AttributeNames DEF Decoded
  <1> HIDE DEF d1, d4, e, c, confident
  <1>3. /\ DOMAIN d2 = DOMAIN d
        /\ d2.text = Append(d.text, a.transcript)
        /\ \A f \in DOMAIN d \ {"text", "confidence"} : d2[f] = d[f]
    BY <1>2, AttributeNames DEF Decoded
  <1> HIDE DEF d2
  <1>4. Decoded(d2)
    <2>3. IsSeq(Append(d.text, a.transcript))
      BY LongerSeq, Zenon DEF Decoded
    <2>1. IsSeq(d2.text)
      BY <1>3, <2>3
    <2>2. \A f \in {"finals", "alternatives", "words", "wordConfidences"} : d2[f] = d[f]
      BY <1>3, AttributeNames DEF Decoded
    <2> QED BY <1>3, <2>1, <2>2 DEF Decoded
  <1> HIDE DEF d3
  <1>5. \A x : DOMAIN x = DOMAIN NothingDecoded => Throw(x).thrown
    BY AttributeNames DEF Throw
  <1>6. /\ a # IllTyped /\ Optional(a.timestamps)
        /\ ~d3.thrown
        /\ final => Optional(a.word_confidence) /\ e = d4
        /\ ~final => e = d3
    <2>1. Throw(d).thrown /\ Throw(d1).thrown /\ Throw(d2).thrown
      BY <1>2, <1>4, <1>5 DEF Decoded
    <2>2. ~e.thrown
      BY DEF e
    <2>3. a # IllTyped /\ Optional(a.timestamps) /\ e = IF ~final \/ d3.thrown THEN d3
            ELSE IF ~Optional(a.word_confidence) THEN Throw(d3) ELSE d4
      BY <1>1, <2>1, <2>2
    <2>4. ~d3.thrown
      BY <2>2, <2>3
    <2>5. IsSeq(words)
      BY <2>3, MembersIsSeq DEF WellShaped
    <2>6. Decoded(d3)
      BY <1>4, <2>4, <2>5, TimestampsDecoded DEF d3
    <2>7. Throw(d3).thrown
      BY <1>5, <2>6 DEF Decoded
    <2> QED BY <2>2, <2>3, <2>4, <2>7
  <1>7. IsSeq(words) /\ (final => IsSeq(new))
    BY <1>6, MembersIsSeq DEF WellShaped
  <1> HIDE DEF words, new
  <1>8. /\ Decoded(d3)
        /\ d3.words = d2.words \o words
        /\ d3.start = IF i = 1 /\ words # <<>> THEN words[1].start ELSE d2.start
        /\ d3.end = IF words # <<>> THEN Last(words).end ELSE d2.end
        /\ \A f \in DOMAIN d2 \ {"words", "start", "end", "thrown"} : d3[f] = d2[f]
    BY <1>4, <1>6, <1>7, TimestampsDecoded DEF d3
  <1>9. /\ Decoded(d3)
        /\ d3.text = d.text \o <<a.transcript>>
        /\ d3.words = d.words \o words
        /\ d3.start = IF i = 1 /\ words # <<>> THEN words[1].start ELSE d.start
        /\ d3.end = IF words # <<>> THEN Last(words).end ELSE d.end
        /\ d3.wordConfidences = d.wordConfidences
        /\ \A f \in {"finals", "alternatives", "keywords"} : d3[f] = d[f]
    <2>1. d2.text = d.text \o <<a.transcript>>
      BY <1>3, LongerSeq DEF Decoded
    <2> QED BY <1>3, <1>8, <2>1, AttributeNames DEF Decoded
  <1>10. CASE final
    <2>0. ~DecodeWordConfidences(d3, new).thrown /\ e = DecodeWordConfidences(d3, new)
      BY <1>6, <1>10 DEF d4, e
    <2>1. /\ Decoded(e)
          /\ e.wordConfidences = d3.wordConfidences \o new
          /\ \A f \in DOMAIN d3 \ {"wordConfidences", "thrown"} : e[f] = d3[f]
      BY <1>7, <1>8, <1>10, <2>0, WordConfidencesDecoded
    <2>2. /\ e.text = d3.text /\ e.words = d3.words /\ e.start = d3.start
          /\ e.end = d3.end
          /\ \A f \in {"finals", "alternatives", "keywords"} : e[f] = d3[f]
      BY <1>9, <2>1, AttributeNames DEF Decoded
    <2> QED BY <1>7, <1>9, <1>10, <2>1, <2>2 DEF e, words, new, Adds
  <1>11. CASE ~final
    <2>1. d.wordConfidences = d.wordConfidences \o <<>>
      BY NothingIsSeq, JoinedSeqs DEF Decoded
    <2> QED BY <1>6, <1>7, <1>9, <1>11, <2>1, NothingIsSeq DEF e, words, Adds
  <1> QED BY <1>10, <1>11

LEMMA OthersIsSeq ==
  ASSUME NEW r, IsSeq(r.alternatives), NEW md
  PROVE  IsSeq(OthersOf(r, md))
  <1> DEFINE others == Tail(r.alternatives)
             texts == [j \in DOMAIN others |-> others[j].transcript]
  <1>1. CASE md = "complete" \/ ~IsJoined(r, md)
    BY <1>1, NothingIsSeq DEF OthersOf
  <1>2. CASE md # "complete" /\ IsJoined(r, md)
    <2>1. PICK S : r.alternatives \in Seq(S)
      BY DEF IsSeq
    <2>2. r.alternatives # <<>>
      BY <1>2 DEF IsJoined
    <2>3. others \in Seq(S)
      BY <2>1, <2>2
    <2> HIDE DEF others
    <2>4. texts \in Seq({others[j].transcript : j \in DOMAIN others})
      BY <2>3
    <2>5. OthersOf(r, md) = texts
      BY <1>2 DEF OthersOf, others
    <2> HIDE DEF texts
    <2> QED BY <2>4, <2>5 DEF IsSeq
  <1> QED BY <1>1, <1>2

(* The alternatives of a result, as far as the reference looks at it.      *)
LEMMA AlternativesDecoded ==
  ASSUME NEW d, Decoded(d), ~d.thrown, NEW r, IsResult(r), r # IllTyped,
         r.final \in BOOLEAN, NEW i \in Nat \ {0},
         NEW md, r.final \/ md = "partial",
         ~DecodeAlternatives(d, r, i, md = "complete").thrown
  PROVE  LET e == DecodeAlternatives(d, r, i, md = "complete")
         IN  /\ Adds(d, e, i, TextOf(r, md), WordsOf(r, md), ConfidencesOf(r, md))
             /\ e.alternatives = IF i > 1 THEN d.alternatives
                                 ELSE d.alternatives \o OthersOf(r, md)
             /\ i = 1 => IsSeq(OthersOf(r, md))
             /\ e.finals = d.finals
             /\ e.keywords = d.keywords
  <1> DEFINE alts == r.alternatives
             complete == md = "complete"
             f == DecodeFirst(d, alts[1], i, r.final, complete)
             e == DecodeAlternatives(d, r, i, complete)
             o == DecodeOthers(f, Tail(alts), i, complete)
  <1>1. e = IF ~Required(alts) THEN Throw(d) ELSE IF alts = <<>> THEN d ELSE o
    BY DEF DecodeAlternatives
  <1>2. Required(alts)
    <2>1. Throw(d).thrown
      BY AttributeNames DEF Throw, Decoded
    <2> QED BY <1>1, <2>1
  <1>3. /\ alts \in Seq({alts[j] : j \in DOMAIN alts})
        /\ \A j \in DOMAIN alts : WellShaped(alts[j])
    BY <1>2 DEF IsResult, ArrayMember, IsArray
  <1>6. IsSeq(OthersOf(r, md))
    BY <1>3, OthersIsSeq DEF IsSeq
  <1> HIDE DEF complete
  <1>4. CASE alts = <<>>
    <2>1. TextOf(r, md) = <<>> /\ WordsOf(r, md) = <<>> /\ ConfidencesOf(r, md) = <<>>
          /\ OthersOf(r, md) = <<>>
      BY <1>4 DEF IsJoined, TextOf, WordsOf, ConfidencesOf, OthersOf
    <2>2. \A s : IsSeq(s) => s \o <<>> = s
      BY JoinedSeqs, NothingIsSeq
    <2>3. e = d
      BY <1>1, <1>2, <1>4
    <2> HIDE DEF e
    <2> QED BY <1>6, <2>1, <2>2, <2>3, NothingIsSeq DEF Decoded, Adds, e, complete
  <1>5. CASE alts # <<>>
    <2> DEFINE a == alts[1]
               others == Tail(alts)
    <2>1. IsSeq(others) /\ WellShaped(a)
      BY <1>3, <1>5 DEF IsSeq
    <2>2. IsJoined(r, md)
      BY <1>5 DEF IsJoined
    <2>3. /\ TextOf(r, md) = <<a.transcript>>
          /\ WordsOf(r, md) = Members(a.timestamps)
          /\ ConfidencesOf(r, md) = IF r.final THEN Members(a.word_confidence) ELSE <<>>
          /\ OthersOf(r, md) = IF complete THEN <<>>
                               ELSE [j \in DOMAIN others |-> others[j].transcript]
      BY <2>2 DEF TextOf, WordsOf, ConfidencesOf, OthersOf, complete
    <2>4. e = o
      BY <1>1, <1>2, <1>5
    <2>5. ~o.thrown
      BY <2>4 DEF complete
    <2> HIDE DEF o, e, others, a
    <2>6. ~f.thrown
      BY <2>5 DEF o, DecodeOthers
    <2>7. /\ Adds(d, f, i, TextOf(r, md), WordsOf(r, md), ConfidencesOf(r, md))
          /\ f.finals = d.finals
          /\ f.alternatives = d.alternatives
          /\ f.keywords = d.keywords
      <3> DEFINE final == r.final
                 confidences == ConfidencesOf(r, md)
      <3>1. f = DecodeFirst(d, a, i, final, complete)
        BY DEF f, a
      <3>2. confidences = IF final THEN Members(a.word_confidence) ELSE <<>>
        BY <2>3
      <3> HIDE DEF f, final, confidences
      <3>3. ~DecodeFirst(d, a, i, final, complete).thrown
        BY <2>6, <3>1
      <3>4. /\ Adds(d, f, i, <<a.transcript>>, Members(a.timestamps), confidences)
            /\ f.finals = d.finals
            /\ f.alternatives = d.alternatives
            /\ f.keywords = d.keywords
        BY <2>1, <3>1, <3>2, <3>3, FirstDecoded
      <3> QED BY <2>3, <3>4 DEF confidences
    <2> HIDE DEF f
    <2>8. /\ Decoded(o)
          /\ o.alternatives = IF complete \/ i > 1 THEN f.alternatives
               ELSE f.alternatives \o [j \in DOMAIN others |-> others[j].transcript]
          /\ \A x \in DOMAIN f \ {"alternatives", "thrown"} : o[x] = f[x]
      <3>1. o = DecodeOthers(f, others, i, complete)
        BY DEF o, others
      <3>2. ~DecodeOthers(f, others, i, complete).thrown
        BY <2>5, <3>1
      <3> QED BY <2>1, <2>7, <3>1, <3>2, OthersDecoded DEF Adds
    <2>9. /\ o.text = f.text /\ o.words = f.words /\ o.start = f.start /\ o.end = f.end
          /\ o.wordConfidences = f.wordConfidences
          /\ o.finals = f.finals /\ o.keywords = f.keywords
      BY <2>7, <2>8, AttributeNames DEF Decoded, Adds
    <2>11. o.alternatives = IF i > 1 THEN d.alternatives
                            ELSE d.alternatives \o OthersOf(r, md)
      <3>1. d.alternatives \o <<>> = d.alternatives
        BY JoinedSeqs, NothingIsSeq DEF Decoded
      <3> QED BY <2>3, <2>7, <2>8, <3>1
    <2> QED BY <1>6, <2>4, <2>7, <2>8, <2>9, <2>11 DEF e, complete, Adds
  <1> QED BY <1>4, <1>5

(* The last members of a result leave alone what the ones before decoded.  *)
LEMMA LastMembersDecoded ==
  ASSUME NEW d, DOMAIN d = DOMAIN NothingDecoded, NEW r,
         ~DecodeKeywords(DecodeWordAlternatives(d, r), r).thrown
  PROVE  LET e == DecodeKeywords(DecodeWordAlternatives(d, r), r)
         IN  /\ ~d.thrown
             /\ DOMAIN e = DOMAIN d
             /\ \A f \in DOMAIN d \ {"wordAlternatives", "keywords", "thrown"} : e[f] = d[f]
  <1> DEFINE Same(x) ==
               /\ DOMAIN x = DOMAIN d
               /\ \A f \in DOMAIN d \ {"wordAlternatives", "keywords", "thrown"} : x[f] = d[f]
             w == DecodeWordAlternatives(d, r)
             e == DecodeKeywords(w, r)
  <1>1. \A x : Same(x) => Same(Throw(x))
    BY DEF Throw
  <1>2. Same(d)
    OBVIOUS
  <1>3. Same(w) /\ (d.thrown => w = d)
    <2>1. \A a, b : Same([d EXCEPT !.wordAlternatives = a, !.thrown = b])
      BY AttributeNames
    <2> HIDE DEF Same
    <2> QED BY <1>1, <1>2, <2>1 DEF DecodeWordAlternatives
  <1>4. Same(e) /\ (w.thrown => e = w)
    <2> HIDE DEF w
    <2>1. \A a, b : Same([w EXCEPT !.keywords = a, !.thrown = b])
      BY <1>3, AttributeNames
    <2> HIDE DEF Same
    <2> QED BY <1>1, <1>3, <2>1 DEF DecodeKeywords
  <1> QED BY <1>3, <1>4

LEMMA ResultDecoded ==
  ASSUME NEW d, Decoded(d), NEW r, IsResult(r), NEW i \in Nat \ {0}, NEW md,
         ~DecodeResult(d, r, i, md).thrown
  PROVE  LET e == DecodeResult(d, r, i, md)
         IN  /\ r # IllTyped /\ r.final \in BOOLEAN
             /\ Adds(d, e, i, TextOf(r, md), WordsOf(r, md), ConfidencesOf(r, md))
             /\ e.alternatives = IF i > 1 THEN d.alternatives
                                 ELSE d.alternatives \o OthersOf(r, md)
             /\ i = 1 => IsSeq(OthersOf(r, md))
             /\ e.finals = Append(d.finals, r.final)
             /\ ~r.final => e.keywords = d.keywords /\ ConfidencesOf(r, md) = <<>>
  <1> DEFINE d1 == [d EXCEPT !.finals = Append(@, r.final)]
             a == DecodeAlternatives(d1, r, i, md = "complete")
             d2 == IF r.final \/ md = "partial" THEN a ELSE d1
             k == DecodeKeywords(DecodeWordAlternatives(d2, r), r)
             e == DecodeResult(d, r, i, md)
             joined == r.final \/ md = "partial"
  <1>1. e = IF d.thrown THEN d
            ELSE IF r = IllTyped \/ ~Required(r.final) THEN Throw(d)
            ELSE IF r.final THEN k ELSE d2
    BY DEF DecodeResult
  <1>2. /\ ~d.thrown /\ r # IllTyped /\ r.final \in BOOLEAN
        /\ e = IF r.final THEN k ELSE d2
    <2>1. Throw(d).thrown
      BY AttributeNames DEF Throw, Decoded
    <2> QED BY <1>1, <2>1 DEF IsResult
  <1>3. /\ DOMAIN d1 = DOMAIN d
        /\ d1.finals = Append(d.finals, r.final)
        /\ \A f \in DOMAIN d \ {"finals"} : d1[f] = d[f]
    BY AttributeNames DEF Decoded
  <1> HIDE DEF d1, k, e
  <1>4. Decoded(d1) /\ ~d1.thrown
    <2>1. IsSeq(Append(d.finals, r.final))
      BY LongerSeq, Zenon DEF Decoded
    <2>2. IsSeq(d1.finals)
      BY <1>3, <2>1
    <2>3. \A f \in {"text", "alternatives", "words", "wordConfidences", "thrown"} :
            d1[f] = d[f]
      BY <1>3, AttributeNames DEF Decoded
    <2> QED BY <1>2, <1>3, <2>2, <2>3 DEF Decoded
  <1>5. ~e.thrown
    BY DEF e
  <1>6. ASSUME joined, ~a.thrown
        PROVE  /\ Adds(d, a, i, TextOf(r, md), WordsOf(r, md), ConfidencesOf(r, md))
               /\ a.alternatives = IF i > 1 THEN d.alternatives
                                   ELSE d.alternatives \o OthersOf(r, md)
               /\ i = 1 => IsSeq(OthersOf(r, md))
               /\ a.finals = d1.finals
               /\ a.keywords = d.keywords
    <2>1. /\ Adds(d1, a, i, TextOf(r, md), WordsOf(r, md), ConfidencesOf(r, md))
          /\ a.alternatives = IF i > 1 THEN d1.alternatives
                              ELSE d1.alternatives \o OthersOf(r, md)
          /\ i = 1 => IsSeq(OthersOf(r, md))
          /\ a.finals = d1.finals
          /\ a.keywords = d1.keywords
      BY <1>2, <1>4, <1>6, AlternativesDecoded
    <2>2. /\ d1.text = d.text /\ d1.words = d.words /\ d1.start = d.start
          /\ d1.end = d.end /\ d1.wordConfidences = d.wordConfidences
          /\ d1.alternatives = d.alternatives /\ d1.keywords = d.keywords
      BY <1>3, AttributeNames DEF Decoded
    <2> QED BY <2>1, <2>2 DEF Adds
  <1>7. CASE r.final
    <2>1. joined /\ e = k /\ d2 = a
      BY <1>2, <1>7
    <2>2. a.thrown => k = a
      BY <2>1 DEF k, DecodeWordAlternatives, DecodeKeywords
    <2>3. ~a.thrown /\ ~k.thrown
      BY <1>5, <2>1, <2>2
    <2>4. DOMAIN a = DOMAIN NothingDecoded
      BY <1>6, <2>1, <2>3 DEF Adds, Decoded
    <2>5. /\ DOMAIN k = DOMAIN a
          /\ \A f \in DOMAIN a \ {"wordAlternatives", "keywords", "thrown"} : k[f] = a[f]
      <3>1. k = DecodeKeywords(DecodeWordAlternatives(a, r), r)
        BY <2>1 DEF k
      <3> HIDE DEF a
      <3> QED BY <2>3, <2>4, <3>1, LastMembersDecoded
    <2>6. /\ k.finals = a.finals /\ k.text = a.text /\ k.words = a.words
          /\ k.start = a.start /\ k.end = a.end
          /\ k.wordConfidences = a.wordConfidences
          /\ k.alternatives = a.alternatives
      BY <2>4, <2>5, AttributeNames
    <2> HIDE DEF a
    <2>7. Decoded(k)
      BY <1>6, <2>1, <2>3, <2>4, <2>5, <2>6 DEF Decoded, Adds
    <2> QED BY <1>2, <1>3, <1>6, <1>7, <2>1, <2>3, <2>6, <2>7 DEF Adds, e
  <1>8. CASE ~r.final /\ joined
    <2>1. e = a /\ ~a.thrown
      BY <1>2, <1>5, <1>8
    <2>2. ConfidencesOf(r, md) = <<>>
      BY <1>8 DEF ConfidencesOf
    <2> HIDE DEF a
    <2> QED BY <1>2, <1>3, <1>6, <1>8, <2>1, <2>2 DEF e
  <1>9. CASE ~joined
    <2>1. e = d1 /\ i \in Nat
      BY <1>2, <1>9
    <2>2. /\ TextOf(r, md) = <<>> /\ WordsOf(r, md) = <<>> /\ ConfidencesOf(r, md) = <<>>
          /\ OthersOf(r, md) = <<>>
      BY <1>9 DEF IsJoined, TextOf, WordsOf, ConfidencesOf, OthersOf
    <2>3. \A s : IsSeq(s) => s \o <<>> = s
      BY JoinedSeqs, NothingIsSeq
    <2>4. /\ d1.text = d.text /\ d1.words = d.words /\ d1.start = d.start
          /\ d1.end = d.end /\ d1.wordConfidences = d.wordConfidences
          /\ d1.alternatives = d.alternatives /\ d1.keywords = d.keywords
      BY <1>3, AttributeNames DEF Decoded
    <2>5. Adds(d, d1, i, TextOf(r, md), WordsOf(r, md), ConfidencesOf(r, md))
      BY <1>4, <2>2, <2>3, <2>4, NothingIsSeq DEF Adds, Decoded
    <2>6. d1.alternatives = d.alternatives \o OthersOf(r, md)
      BY <2>2, <2>3, <2>4 DEF Decoded
    <2> QED BY <1>2, <1>3, <1>9, <2>1, <2>2, <2>4, <2>5, <2>6, NothingIsSeq DEF e
  <1> QED BY <1>7, <1>8, <1>9

-----------------------------------------------------------------------------
(* The recursive function of DecodeResults: decoded[i] is what is decoded  *)
(* of the first i results.                                                 *)
DecodesInTurn(decoded, d, results, md) ==
  /\ decoded[0] = d
  /\ \A i \in 1 .. Len(results) :
       decoded[i] = DecodeResult(decoded[i - 1], results[i], i, md)

LEMMA ResultsInTurn ==
  ASSUME NEW d, ~d.thrown, NEW m, ArrayMember(m.results), Optional(m.results), NEW md
  PROVE  \E decoded : /\ DecodesInTurn(decoded, d, Members(m.results), md)
                      /\ DecodeResults(d, m, md) = decoded[Len(Members(m.results))]
  <1> DEFINE rs == Members(m.results)
             n == Len(rs)
             link(g, i) == IF i = 0 THEN d ELSE DecodeResult(g[i - 1], rs[i], i, md)
             Fits(g, k) == g = [i \in 0 .. k |-> link(g, i)]
             P == {k \in Nat : \E g : Fits(g, k)}
  <1>1. 0 \in P
    <2>1. Fits([i \in 0 .. 0 |-> d], 0)
      OBVIOUS
    <2> HIDE DEF Fits
    <2> QED BY <2>1
  <1>2. ASSUME NEW k \in P PROVE k + 1 \in P
    <2>1. PICK g : Fits(g, k)
      OBVIOUS
    <2> DEFINE h == [i \in 0 .. k + 1 |-> IF i = k + 1 THEN link(g, i) ELSE g[i]]
    <2>0. k \in Nat
      OBVIOUS
    <2> HIDE DEF P
    <2>2. \A i \in 0 .. k : g[i] = link(g, i)
      <3> HIDE DEF link
      <3> QED BY <2>1
    <2>3. h[k + 1] = link(g, k + 1) /\ \A i \in 0 .. k : h[i] = g[i]
      <3> HIDE DEF link
      <3> QED BY <2>0
    <2>4. \A i \in 0 .. k + 1 : h[i] = link(h, i)
      <3> HIDE DEF h
      <3> TAKE i \in 0 .. k + 1
      <3>1. (i = 0 \/ i - 1 \in 0 .. k) /\ (i = k + 1 \/ i \in 0 .. k)
        BY <2>0
      <3> QED BY <2>2, <2>3, <3>1
    <2>5. Fits(h, k + 1)
      <3> HIDE DEF link
      <3> QED BY <2>4
    <2> HIDE DEF Fits, h
    <2>6. \E f : Fits(f, k + 1)
      BY <2>5
    <2> QED BY <2>0, <2>6 DEF P
  <1>3. P \in SUBSET Nat
    OBVIOUS
  <1>4. n \in Nat
    BY MembersIsSeq DEF IsSeq
  <1> HIDE DEF P
  <1>5. n \in P
    BY <1>1, <1>2, <1>3, <1>4, Induction
  <1>6. PICK g : Fits(g, n)
    BY <1>5 DEF P
  <1> DEFINE decoded == CHOOSE f : Fits(f, n)
  <1>7. Fits(decoded, n)
    BY <1>6
  <1>8. DecodeResults(d, m, md) = decoded[n]
    BY DEF DecodeResults
  <1> HIDE DEF decoded
  <1>9. \A i \in 0 .. n : decoded[i] = link(decoded, i)
    <2> HIDE DEF link
    <2> QED BY <1>7
  <1>10. /\ decoded[0] = d
         /\ \A i \in 1 .. n : decoded[i] = DecodeResult(decoded[i - 1], rs[i], i, md)
    BY <1>4, <1>9
  <1> QED BY <1>8, <1>10 DEF DecodesInTurn

(* If the last result does not throw, no result does.                      *)
LEMMA NoneThrown ==
  ASSUME NEW rs, IsSeq(rs), NEW decoded, NEW d, NEW md, DecodesInTurn(decoded, d, rs, md),
         ~decoded[Len(rs)].thrown
  PROVE  \A i \in 0 .. Len(rs) : ~decoded[i].thrown
  <1> DEFINE n == Len(rs)
             Q == {k \in Nat : k \in 0 .. n => ~decoded[n - k].thrown}
  <1>1. n \in Nat
    BY DEF IsSeq
  <1> HIDE DEF n
  <1>2. 0 \in Q
    <2>1. n - 0 = n /\ ~decoded[n].thrown
      BY <1>1 DEF n
    <2> QED BY <2>1
  <1>3. ASSUME NEW k \in Q PROVE k + 1 \in Q
    <2>1. k \in Nat /\ (k \in 0 .. n => ~decoded[n - k].thrown)
      OBVIOUS
    <2>2. ASSUME NEW j \in 0 .. n, j = k + 1 PROVE ~decoded[n - j].thrown
      <3> DEFINE i == n - k
      <3>1. k \in 0 .. n /\ i \in 1 .. n /\ i - 1 = n - j
        BY <1>1, <2>1, <2>2
      <3> HIDE DEF i
      <3>2. decoded[i] = DecodeResult(decoded[i - 1], rs[i], i, md)
        BY <3>1 DEF DecodesInTurn, n
      <3>3. decoded[i - 1].thrown => decoded[i] = decoded[i - 1]
        BY <3>2 DEF DecodeResult
      <3>4. ~decoded[i].thrown
        BY <2>1, <3>1 DEF i
      <3>5. ~decoded[i - 1].thrown
        BY <3>3, <3>4
      <3> QED BY <3>1, <3>5
    <2> QED BY <2>1, <2>2
  <1>4. Q \in SUBSET Nat
    OBVIOUS
  <1> HIDE DEF Q
  <1>5. Q = Nat
    BY <1>2, <1>3, <1>4, Induction
  <1>6. ASSUME NEW i \in 0 .. n PROVE ~decoded[i].thrown
    <2>1. n - i \in 0 .. n /\ n - (n - i) = i /\ n - i \in Q
      BY <1>1, <1>5
    <2> QED BY <2>1 DEF Q
  <1> QED BY <1>6 DEF n

-----------------------------------------------------------------------------
(* What is decoded of the first i results: text, words and confidences are *)
(* the parts of these results, joined.                                     *)
Prefix(e, rs, i, md, text, words, confidences) ==
  /\ Decoded(e)
  /\ Len(e.finals) = i
  /\ e.text = text /\ e.words = words /\ e.wordConfidences = confidences
  /\ IF e.words = <<>> THEN e.end = 0 ELSE e.end = Last(e.words).end
  /\ i = 0 => /\ e.alternatives = <<>> /\ e.words = <<>> /\ e.wordConfidences = <<>>
              /\ e.start = 0 /\ e.keywords = <<>>
  /\ i > 0 =>
       /\ e.finals[1] = rs[1].final
       /\ e.alternatives = OthersOf(rs[1], md)
       /\ IF WordsOf(rs[1], md) = <<>> THEN e.start = 0
          ELSE /\ e.words # <<>>
               /\ Head(e.words) = WordsOf(rs[1], md)[1]
               /\ e.start = WordsOf(rs[1], md)[1].start
  /\ i = 1 /\ ~rs[1].final => e.wordConfidences = <<>> /\ e.keywords = <<>>

LEMMA LastJoined ==
  ASSUME NEW s, NEW t, IsSeq(s), IsSeq(t)
  PROVE  /\ t # <<>> => s \o t # <<>> /\ Last(s \o t) = Last(t)
         /\ t = <<>> => s \o t = s
         /\ s # <<>> => s \o t # <<>> /\ Head(s \o t) = Head(s)
         /\ s = <<>> => s \o t = t
         /\ s # <<>> => Head(s) = s[1]
  <1>1. PICK A : s \in Seq(A)
    BY DEF IsSeq
  <1>2. PICK B : t \in Seq(B)
    BY DEF IsSeq
  <1>3. s \in Seq(A \union B) /\ t \in Seq(A \union B) /\ s \o t \in Seq(A \union B)
    BY <1>1, <1>2
  <1>4. t = <<>> => s \o t = s
    BY <1>3
  <1>5. s = <<>> => s \o t = t
    BY <1>3
  <1>6. t # <<>> => Len(t) > 0 /\ Len(s \o t) = Len(s) + Len(t)
    BY <1>3
  <1>7. s # <<>> => Len(s) > 0 /\ Len(s \o t) = Len(s) + Len(t)
    BY <1>3
  <1>8. \A i \in 1 .. Len(t) : (s \o t)[Len(s) + i] = t[i]
    BY <1>3
  <1>9. \A i \in 1 .. Len(s) : (s \o t)[i] = s[i]
    BY <1>3
  <1> QED BY <1>3, <1>4, <1>5, <1>6, <1>7, <1>8, <1>9 DEF Last

LEMMA PrefixGrows ==
  ASSUME NEW rs, NEW i \in Nat \ {0}, NEW md, NEW d, NEW e,
         NEW text, NEW words, NEW confidences, IsSeq(text), IsSeq(words),
         IsSeq(confidences), Prefix(d, rs, i - 1, md, text, words, confidences),
         IsResult(rs[i]), e = DecodeResult(d, rs[i], i, md), ~e.thrown
  PROVE  Prefix(e, rs, i, md, text \o TextOf(rs[i], md), words \o WordsOf(rs[i], md),
                confidences \o ConfidencesOf(rs[i], md))
  <1> DEFINE r == rs[i]
             new == WordsOf(r, md)
  <1>0. Decoded(d) /\ Len(d.finals) = i - 1
    BY DEF Prefix
  <1>1. /\ Adds(d, e, i, TextOf(r, md), new, ConfidencesOf(r, md))
        /\ e.alternatives = IF i > 1 THEN d.alternatives
                            ELSE d.alternatives \o OthersOf(r, md)
        /\ i = 1 => IsSeq(OthersOf(r, md))
        /\ e.finals = Append(d.finals, r.final)
        /\ ~r.final => e.keywords = d.keywords /\ ConfidencesOf(r, md) = <<>>
    BY <1>0, ResultDecoded
  <1> HIDE DEF new
  <1>2. Decoded(e) /\ Len(e.finals) = i
    BY <1>0, <1>1, LongerSeq DEF Adds, Decoded
  <1>3. /\ e.text = text \o TextOf(r, md)
        /\ e.words = words \o new
        /\ e.wordConfidences = confidences \o ConfidencesOf(r, md)
    BY <1>1 DEF Prefix, Adds
  <1>4. d.words = words /\ IsSeq(words) /\ IsSeq(new)
    BY <1>1 DEF Prefix, Adds
  <1>5. IF e.words = <<>> THEN e.end = 0 ELSE e.end = Last(e.words).end
    <2>1. e.end = IF new # <<>> THEN Last(new).end ELSE d.end
      BY <1>1 DEF Adds
    <2>2. IF words = <<>> THEN d.end = 0 ELSE d.end = Last(words).end
      BY <1>4 DEF Prefix
    <2>3. new # <<>> => e.words # <<>> /\ Last(e.words) = Last(new)
      BY <1>3, <1>4, LastJoined
    <2>4. new = <<>> => e.words = words
      BY <1>3, <1>4, LastJoined
    <2> QED BY <2>1, <2>2, <2>3, <2>4
  <1>6. e.start = IF i = 1 /\ new # <<>> THEN new[1].start ELSE d.start
    BY <1>1 DEF Adds
  <1>7. CASE i = 1
    <2>1. /\ d.alternatives = <<>> /\ words = <<>> /\ confidences = <<>>
          /\ d.start = 0 /\ d.keywords = <<>>
      BY <1>7 DEF Prefix
    <2>2. e.finals[1] = r.final
      BY <1>0, <1>1, <1>7, LongerSeq DEF Decoded
    <2>3. e.alternatives = OthersOf(r, md)
      <3>1. e.alternatives = <<>> \o OthersOf(r, md)
        BY <1>1, <1>7, <2>1
      <3> QED BY <1>1, <1>7, <3>1, NothingIsSeq, JoinedSeqs
    <2>4. e.words = new
      BY <1>3, <1>4, <2>1, JoinedSeqs
    <2>5. new # <<>> => Head(new) = new[1]
      BY <1>4, LastJoined
    <2>6. ~r.final => e.wordConfidences = <<>> /\ e.keywords = <<>>
      <3>1. <<>> \o <<>> = <<>>
        BY NothingIsSeq, JoinedSeqs
      <3> QED BY <1>1, <1>3, <2>1, <3>1
    <2> QED BY <1>2, <1>3, <1>5, <1>6, <1>7, <2>2, <2>3, <2>4, <2>5, <2>6 DEF Prefix, new
  <1>8. CASE i > 1
    <2>1. e.finals[1] = d.finals[1]
      BY <1>0, <1>1, <1>8, LongerSeq DEF Decoded
    <2>2. e.alternatives = d.alternatives /\ e.start = d.start
      BY <1>1, <1>6, <1>8
    <2>3. words # <<>> => e.words # <<>> /\ Head(e.words) = Head(words)
      BY <1>3, <1>4, LastJoined
    <2>4. i - 1 > 0 /\ i # 1 /\ i # 0
      BY <1>8
    <2>5. /\ d.finals[1] = rs[1].final
          /\ d.alternatives = OthersOf(rs[1], md)
          /\ IF WordsOf(rs[1], md) = <<>> THEN d.start = 0
             ELSE /\ d.words # <<>>
                  /\ Head(d.words) = WordsOf(rs[1], md)[1]
                  /\ d.start = WordsOf(rs[1], md)[1].start
      BY <2>4 DEF Prefix
    <2>6. WordsOf(rs[1], md) # <<>> => /\ e.words # <<>>
                                      /\ Head(e.words) = WordsOf(rs[1], md)[1]
      BY <1>4, <2>3, <2>5
    <2> QED BY <1>2, <1>3, <1>5, <2>1, <2>2, <2>4, <2>5, <2>6 DEF Prefix, new
  <1>9. i = 1 \/ i > 1
    OBVIOUS
  <1> QED BY <1>7, <1>8, <1>9

(* A function of the indices of a sequence is a sequence.                  *)
LEMMA OverIndices ==
  ASSUME NEW rs, IsSeq(rs), NEW ss, ss = [i \in DOMAIN rs |-> ss[i]]
  PROVE  IsSeq(ss) /\ Len(ss) = Len(rs)
  <1>1. PICK S : rs \in Seq(S)
    BY DEF IsSeq
  <1>2. DOMAIN rs = 1 .. Len(rs) /\ Len(rs) \in Nat
    BY <1>1
  <1>3. ss \in Seq({ss[i] : i \in DOMAIN rs})
    BY <1>2
  <1>4. Len(ss) = Len(rs)
    BY <1>2, <1>3
  <1> QED BY <1>3, <1>4 DEF IsSeq

LEMMA AllDecoded ==
  ASSUME NEW d, ~d.thrown, NEW m, IsMessage(m), NEW md,
         Prefix(d, Members(m.results), 0, md, <<>>, <<>>, <<>>),
         ~DecodeResults(d, m, md).thrown
  PROVE  LET n == Len(m.results)
             e == DecodeResults(d, m, md)
         IN  /\ Decoded(e)
             /\ e.finals # <<>> =>
                  /\ Required(m.results) /\ n \in Nat \ {0}
                  /\ m.results[1].final \in BOOLEAN
                  /\ Prefix(e, m.results, n, md, ExpectedText(m, md),
                            ExpectedWords(m, md), ExpectedConfidences(m, md))
  <1> DEFINE rs == Members(m.results)
             n == Len(rs)
             e == DecodeResults(d, m, md)
  <1>1. Optional(m.results) /\ ArrayMember(m.results)
    <2>1. Throw(d).thrown
      BY AttributeNames DEF Throw, Prefix, Decoded
    <2>2. ~Optional(m.results) => DecodeResults(d, m, md) = Throw(d)
      BY DEF DecodeResults
    <2> QED BY <2>1, <2>2 DEF IsMessage
  <1>2. IsSeq(rs) /\ DOMAIN rs = 1 .. n /\ n \in Nat
    <2>1. IsSeq(rs) /\ DOMAIN rs = 1 .. n
      BY <1>1, MembersIsSeq
    <2> QED BY <2>1 DEF IsSeq
  <1>3. PICK decoded : DecodesInTurn(decoded, d, rs, md) /\ e = decoded[n]
    BY <1>1, ResultsInTurn
  <1>4. \A i \in 0 .. n : ~decoded[i].thrown
    BY <1>2, <1>3, NoneThrown
  <1>5. \A i \in 1 .. n : IsResult(rs[i])
    <2>1. CASE m.results = Absent
      <3>1. rs = <<>> /\ Len(<<>>) = 0
        BY <2>1 DEF Members
      <3> QED BY <3>1
    <2>2. CASE m.results # Absent
      <3>1. rs = m.results /\ Required(m.results)
        BY <1>1, <2>2 DEF Members, Optional, Required
      <3> QED BY <1>2, <3>1 DEF IsMessage
    <2> QED BY <2>1, <2>2
  <1> HIDE DEF rs, n, e
  <1>6. e.finals # <<>> => n # 0
    <2>1. ASSUME n = 0 PROVE e.finals = <<>>
      <3>1. e = d
        BY <1>3, <2>1 DEF DecodesInTurn
      <3>2. IsSeq(d.finals) /\ Len(d.finals) = 0
        BY DEF Prefix, Decoded
      <3> QED BY <3>1, <3>2 DEF IsSeq
    <2> QED BY <2>1
  <1>7. n # 0 => Required(m.results) /\ rs = m.results
    <2>1. m.results = Absent => rs = <<>>
      BY DEF rs, Members
    <2>2. Len(<<>>) = 0
      OBVIOUS
    <2> QED BY <1>1, <2>1, <2>2 DEF Required, Optional, rs, n, Members
  <1> DEFINE st == [i \in DOMAIN rs |-> TextOf(rs[i], md)]
             sw == [i \in DOMAIN rs |-> WordsOf(rs[i], md)]
             sc == [i \in DOMAIN rs |-> ConfidencesOf(rs[i], md)]
  <1>8. n # 0 => /\ ExpectedText(m, md) = FlattenSeq(st)
                 /\ ExpectedWords(m, md) = FlattenSeq(sw)
                 /\ ExpectedConfidences(m, md) = FlattenSeq(sc)
    BY <1>7 DEF ExpectedText, ExpectedWords, ExpectedConfidences
  <1>9. /\ IsSeq(st) /\ Len(st) = n
        /\ IsSeq(sw) /\ Len(sw) = n
        /\ IsSeq(sc) /\ Len(sc) = n
    <2>1. ASSUME NEW ss, ss = [i \in DOMAIN rs |-> ss[i]]
          PROVE  IsSeq(ss) /\ Len(ss) = n
      BY <1>2, <2>1, OverIndices DEF n
    <2> QED BY <2>1
  <1>10. \A i \in 0 .. n : Decoded(decoded[i])
    <2> DEFINE Q == {k \in Nat : k \in 0 .. n => Decoded(decoded[k])}
    <2>1. 0 \in Q
      BY <1>3 DEF DecodesInTurn, Prefix
    <2>2. ASSUME NEW k \in Q PROVE k + 1 \in Q
      <3>1. k \in Nat /\ (k \in 0 .. n => Decoded(decoded[k]))
        OBVIOUS
      <3>2. ASSUME NEW i \in 0 .. n, i = k + 1 PROVE Decoded(decoded[i])
        <4>1. k \in 0 .. n /\ i \in 1 .. n /\ i - 1 = k /\ i \in Nat \ {0}
          BY <1>2, <3>1, <3>2
        <4>2. decoded[i] = DecodeResult(decoded[k], rs[i], i, md)
          BY <1>3, <4>1 DEF DecodesInTurn, n
        <4> QED BY <1>4, <1>5, <3>1, <4>1, <4>2, ResultDecoded DEF Adds
      <3> QED BY <3>1, <3>2
    <2>3. Q \in SUBSET Nat
      OBVIOUS
    <2> HIDE DEF Q
    <2>4. Q = Nat
      BY <2>1, <2>2, <2>3, Induction
    <2> QED BY <1>2, <2>4 DEF Q
  <1>11. ASSUME NEW i \in 1 .. n
         PROVE  /\ i \in Nat \ {0} /\ i - 1 \in 0 .. n /\ i \in 0 .. n
                /\ decoded[i] = DecodeResult(decoded[i - 1], rs[i], i, md)
                /\ rs[i].final \in BOOLEAN
                /\ IsSeq(st[i]) /\ st[i] = TextOf(rs[i], md)
                /\ IsSeq(sw[i]) /\ sw[i] = WordsOf(rs[i], md)
                /\ IsSeq(sc[i]) /\ sc[i] = ConfidencesOf(rs[i], md)
    <2>1. i \in Nat \ {0} /\ i - 1 \in 0 .. n /\ i \in 0 .. n /\ i \in DOMAIN rs
      BY <1>2
    <2>2. decoded[i] = DecodeResult(decoded[i - 1], rs[i], i, md)
      BY <1>3 DEF DecodesInTurn, n
    <2>3. /\ rs[i].final \in BOOLEAN
          /\ IsSeq(WordsOf(rs[i], md)) /\ IsSeq(ConfidencesOf(rs[i], md))
      BY <1>4, <1>5, <1>10, <2>1, <2>2, ResultDecoded DEF Adds
    <2>4. IsSeq(TextOf(rs[i], md))
      <3>1. \A x : IsSeq(<<x>>)
        <4> TAKE x
        <4>1. <<x>> \in Seq({x})
          OBVIOUS
        <4> QED BY <4>1 DEF IsSeq
      <3> QED BY <3>1, NothingIsSeq DEF TextOf
    <2> QED BY <2>1, <2>2, <2>3, <2>4
  <1> HIDE DEF st, sw, sc
  <1>12. PICK FT : /\ Joins(FT, st) /\ FlattenSeq(st) = FT[n]
                   /\ \A i \in 0 .. n : IsSeq(FT[i])
    BY <1>9, <1>11, Flattened
  <1>13. PICK FW : /\ Joins(FW, sw) /\ FlattenSeq(sw) = FW[n]
                   /\ \A i \in 0 .. n : IsSeq(FW[i])
    BY <1>9, <1>11, Flattened
  <1>14. PICK FC : /\ Joins(FC, sc) /\ FlattenSeq(sc) = FC[n]
                   /\ \A i \in 0 .. n : IsSeq(FC[i])
    BY <1>9, <1>11, Flattened
  <1> DEFINE Upto(i) == Prefix(decoded[i], rs, i, md, FT[i], FW[i], FC[i])
             Q == {k \in Nat : k \in 0 .. n => Upto(k)}
  <1>15. 0 \in Q
    <2>1. decoded[0] = d /\ FT[0] = <<>> /\ FW[0] = <<>> /\ FC[0] = <<>>
      BY <1>3, <1>12, <1>13, <1>14 DEF DecodesInTurn, Joins
    <2> QED BY <2>1 DEF rs
  <1>16. ASSUME NEW k \in Q PROVE k + 1 \in Q
    <2>1. k \in Nat /\ (k \in 0 .. n => Upto(k))
      OBVIOUS
    <2>2. ASSUME NEW i \in 0 .. n, i = k + 1 PROVE Upto(i)
      <3>1. k \in 0 .. n /\ i \in 1 .. n /\ i - 1 = k
        BY <1>2, <2>1, <2>2
      <3>2. /\ FT[i] = FT[k] \o TextOf(rs[i], md)
            /\ FW[i] = FW[k] \o WordsOf(rs[i], md)
            /\ FC[i] = FC[k] \o ConfidencesOf(rs[i], md)
        BY <1>9, <1>11, <1>12, <1>13, <1>14, <3>1 DEF Joins
      <3>3. IsSeq(FT[k]) /\ IsSeq(FW[k]) /\ IsSeq(FC[k])
        BY <1>12, <1>13, <1>14, <3>1
      <3>4. /\ i \in Nat \ {0} /\ IsResult(rs[i]) /\ ~decoded[i].thrown
            /\ decoded[i] = DecodeResult(decoded[k], rs[i], i, md)
        BY <1>4, <1>5, <1>11, <3>1
      <3>5. Prefix(decoded[k], rs, i - 1, md, FT[k], FW[k], FC[k])
        BY <2>1, <3>1
      <3>6. Prefix(decoded[i], rs, i, md, FT[k] \o TextOf(rs[i], md),
                   FW[k] \o WordsOf(rs[i], md), FC[k] \o ConfidencesOf(rs[i], md))
        BY <3>3, <3>4, <3>5, PrefixGrows
      <3> QED BY <3>2, <3>6
    <2> QED BY <2>1, <2>2
  <1>17. Q \in SUBSET Nat
    OBVIOUS
  <1>18. Upto(n)
    <2> HIDE DEF Q
    <2>1. Q = Nat
      BY <1>15, <1>16, <1>17, Induction
    <2> QED BY <1>2, <2>1 DEF Q
  <1>19. n # 0 => rs[1].final \in BOOLEAN /\ n \in Nat \ {0}
    BY <1>2, <1>11
  <1>20. Decoded(e)
    BY <1>3, <1>18 DEF Prefix, e
  <1>21. ASSUME e.finals # <<>>
         PROVE  /\ Required(m.results) /\ rs = m.results
                /\ n \in Nat \ {0} /\ rs[1].final \in BOOLEAN
                /\ Prefix(e, rs, n, md, ExpectedText(m, md), ExpectedWords(m, md),
                          ExpectedConfidences(m, md))
    BY <1>3, <1>6, <1>7, <1>8, <1>12, <1>13, <1>14, <1>18, <1>19, <1>21
  <1> QED BY <1>20, <1>21 DEF e, n

(* The members that are decoded after the results.                         *)
LEMMA IndexAndLabelsDecoded ==
  ASSUME NEW d, Decoded(d), NEW m,
         ~DecodeSpeakerLabels(DecodeResultIndex(d, m), m).thrown
  PROVE  LET e == DecodeSpeakerLabels(DecodeResultIndex(d, m), m)
         IN  /\ ~d.thrown
             /\ DOMAIN e = DOMAIN d
             /\ e.resultIndex = IF m.result_index = Absent THEN -1 ELSE m.result_index
             /\ \A f \in DOMAIN d \ {"thrown", "resultIndex", "labels"} : e[f] = d[f]
  <1> DEFINE i == IF m.result_index = Absent THEN -1 ELSE m.result_index
             d1 == [d EXCEPT !.resultIndex = i]
             x == DecodeResultIndex(d, m)
             labels == Members(m.speaker_labels)
             new == Readable(labels)
             ok == WellTyped(labels)
             d2 == [x EXCEPT !.labels = new, !.thrown = ~ok]
             e == DecodeSpeakerLabels(x, m)
  <1>1. x = IF d.thrown THEN d ELSE IF ~Optional(m.result_index) THEN Throw(d) ELSE d1
    BY DEF DecodeResultIndex
  <1>2. e = IF x.thrown THEN x ELSE IF ~Optional(m.speaker_labels) THEN Throw(x) ELSE d2
    BY DEF DecodeSpeakerLabels
  <1> HIDE DEF i, x, e, new, ok
  <1>3. ~e.thrown
    BY DEF e, x
  <1>4. ~x.thrown
    BY <1>2, <1>3
  <1>5. ~d.thrown /\ x = d1
    <2>1. Throw(d).thrown
      BY AttributeNames DEF Throw, Decoded
    <2> HIDE DEF d1
    <2> QED BY <1>1, <1>4, <2>1
  <1>6. /\ DOMAIN x = DOMAIN d
        /\ x.resultIndex = i
        /\ \A f \in DOMAIN d \ {"resultIndex"} : x[f] = d[f]
    BY <1>5, AttributeNames DEF Decoded
  <1>7. e = d2
    <2>1. Throw(x).thrown
      BY <1>6, AttributeNames DEF Throw, Decoded
    <2> HIDE DEF d2
    <2> QED BY <1>2, <1>3, <1>4, <2>1
  <1>8. /\ DOMAIN e = DOMAIN x
        /\ \A f \in DOMAIN x \ {"labels", "thrown"} : e[f] = x[f]
    BY <1>6, <1>7, AttributeNames DEF Decoded
  <1>9. e.resultIndex = i
    BY <1>6, <1>8, AttributeNames DEF Decoded
  <1>10. \A f \in DOMAIN d \ {"thrown", "resultIndex", "labels"} : e[f] = d[f]
    BY <1>6, <1>8
  <1> QED BY <1>5, <1>6, <1>8, <1>9, <1>10 DEF e, i, x

=============================================================================
