---------------------- MODULE VoiceDataSimulatorProofs ----------------------
(***************************************************************************)
(* The simulator plays its call right for any file and block size, and     *)
(* whatever its connections do: no audio before both sessions have         *)
(* started, and every byte sent once, in order, on one of the channels.    *)
(***************************************************************************)
EXTENDS VoiceDataSimulator, SequenceTheorems, TLAPS

Message == {Start, Stop} \union {Audio(b, n) : b, n \in Nat}

TypeOK ==
  /\ main \in {"stat", "connect", "checkOpen", "start", "checkListening", "audio",
               "stop", "close", "destroy", "join", "exit"}
  /\ channel \in Channel
  /\ bufSize \in 0 .. FileSize
  /\ sendItToFirstChannel \in BOOLEAN
  /\ m_status \in [Channel -> {"none", "refused", "Connecting", "Open", "Failed", "Closed"}]
  /\ m_recent \in [Channel -> BOOLEAN]
  /\ link \in [Channel -> {"none", "connecting", "up", "closing", "gone"}]
  /\ wire \in [Channel -> Seq(Message)]
  /\ answers \in [Channel -> Nat]
  /\ received \in [Channel -> Seq(Message)]
  /\ faults \in Nat

-----------------------------------------------------------------------------
(* What may be said of the messages of one connection.                     *)
Orderly(q) ==
  \A i \in DOMAIN q : /\ q[i] = Start <=> i = 1
                      /\ q[i] = Stop => i = Len(q)

NoStop(q) == \A i \in DOMAIN q : q[i] # Stop

(* The blocks of q come one after the other, and before byte end.          *)
BlocksUpTo(q, end) ==
  /\ \A i \in DOMAIN q : q[i].kind = "audio" => q[i].from + q[i].size <= end
  /\ \A i, j \in DOMAIN q :
       i < j /\ q[i].kind = "audio" /\ q[j].kind = "audio"
         => q[i].from + q[i].size <= q[j].from

AudioIn(q) == {j \in DOMAIN q : q[j].kind = "audio"}

BytesIn(q) == UNION {Bytes(q[i]) : i \in AudioIn(q)}

-----------------------------------------------------------------------------
(* What main knows of the connections: while no connection broke, both are *)
(* up from the check on to the closing.                                    *)
Opened(c) ==
  \/ main \in {"start", "checkListening", "audio", "stop"}
  \/ main \in {"connect", "checkOpen"} /\ channel > c

LinksWhileSending ==
  \A c \in Channel :
    /\ m_status[c] = "Open" => link[c] \in {"up", "closing"}
    /\ link[c] = "closing" => main \in {"close", "destroy", "join", "exit"}
    /\ faults = 0 /\ Opened(c) => link[c] = "up"

(* A connection carries its messages in order; an answer, or the memory of *)
(* one, means that the server has read a start; audio comes after both.    *)
Session(c) ==
  /\ Orderly(Sent(c))
  /\ answers[c] > 0 \/ m_recent[c] => HasStarted(c)
  /\ AudioIn(Sent(c)) # {} => HasStarted(1) /\ HasStarted(2)

(* What was sent and heard so far, as main goes on.                        *)
Turns ==
  /\ \A c \in Channel :
       /\ main \in {"stat", "connect", "checkOpen"} => Sent(c) = <<>>
       /\ main = "start" /\ c >= channel => Sent(c) = <<>>
       /\ main \in {"start", "checkListening", "audio"} => NoStop(Sent(c))
       /\ main = "stop" /\ c >= channel => NoStop(Sent(c))
       /\ main \in {"audio", "stop"} => m_recent[c]
  /\ main = "checkListening" /\ channel = 2 => m_recent[1]

Sessions == Turns /\ \A c \in Channel : Session(c)

(* The bytes that were taken from the file, and where they went.           *)
Shares ==
  /\ \A c \in Channel : BlocksUpTo(Sent(c), FileSize - bufSize)
  /\ BytesIn(Sent(1)) \intersect BytesIn(Sent(2)) = {}
  /\ faults = 0 => BytesIn(Sent(1)) \union BytesIn(Sent(2)) = 0 .. FileSize - bufSize - 1

-----------------------------------------------------------------------------
(* Messages and sequences of them.                                         *)
LEMMA Kinds ==
  /\ Start \in Message /\ Stop \in Message /\ Start # Stop
  /\ Start.kind # "audio" /\ Stop.kind # "audio"
  /\ \A b, n \in Nat :
       /\ Audio(b, n) \in Message
       /\ Audio(b, n).kind = "audio" /\ Audio(b, n).from = b /\ Audio(b, n).size = n
       /\ Audio(b, n) # Start /\ Audio(b, n) # Stop
  /\ \A m \in Message : m.kind = "audio" => m.from \in Nat /\ m.size \in Nat
<1>1. Start.kind = "start" /\ Stop.kind = "stop"
  BY DEF Start, Stop
<1>2. \A b, n : Audio(b, n).kind = "audio" /\ Audio(b, n).from = b /\ Audio(b, n).size = n
  BY DEF Audio
<1>3. \A m \in Message : m = Start \/ m = Stop \/ \E b, n \in Nat : m = Audio(b, n)
  BY DEF Message
<1>4. Start \in Message /\ Stop \in Message /\ \A b, n \in Nat : Audio(b, n) \in Message
  BY DEF Message
<1>. QED
  BY <1>1, <1>2, <1>3, <1>4

LEMMA AppendKeepsOrder ==
  ASSUME NEW q \in Seq(Message), NEW m \in Message, Orderly(q), NoStop(q),
         m = Start <=> q = <<>>
  PROVE  /\ Orderly(Append(q, m))
         /\ m # Stop => NoStop(Append(q, m))
<1>1. /\ Len(Append(q, m)) = Len(q) + 1
      /\ DOMAIN Append(q, m) = 1 .. Len(q) + 1
      /\ DOMAIN q = 1 .. Len(q) /\ Len(q) \in Nat
      /\ \A i \in 1 .. Len(q) : Append(q, m)[i] = q[i]
      /\ Append(q, m)[Len(q) + 1] = m
  OBVIOUS
<1>2. q = <<>> <=> Len(q) = 0
  OBVIOUS
<1>. QED
  BY <1>1, <1>2 DEF Orderly, NoStop

LEMMA AppendAddsBytes ==
  ASSUME NEW q \in Seq(Message), NEW m \in Message
  PROVE  /\ m.kind = "audio" => BytesIn(Append(q, m)) = BytesIn(q) \union Bytes(m)
         /\ m.kind # "audio" => /\ AudioIn(Append(q, m)) = AudioIn(q)
                                /\ BytesIn(Append(q, m)) = BytesIn(q)
<1>1. /\ DOMAIN Append(q, m) = DOMAIN q \union {Len(q) + 1}
      /\ \A i \in DOMAIN q : Append(q, m)[i] = q[i]
      /\ Append(q, m)[Len(q) + 1] = m
      /\ Len(q) + 1 \notin DOMAIN q
  OBVIOUS
<1>2. m.kind = "audio" => AudioIn(Append(q, m)) = AudioIn(q) \union {Len(q) + 1}
  BY <1>1 DEF AudioIn
<1>3. m.kind # "audio" => AudioIn(Append(q, m)) = AudioIn(q)
  BY <1>1 DEF AudioIn
<1>4. \A i \in AudioIn(q) : Append(q, m)[i] = q[i]
  BY <1>1 DEF AudioIn
<1> HIDE <1>1
<1>5. CASE m.kind = "audio"
  <2>1. ASSUME NEW x \in BytesIn(Append(q, m)) PROVE x \in BytesIn(q) \union Bytes(m)
    <3>1. PICK i \in AudioIn(q) \union {Len(q) + 1} : x \in Bytes(Append(q, m)[i])
      BY <1>2, <1>5 DEF BytesIn
    <3>. QED
      BY <1>1, <1>4, <3>1 DEF BytesIn
  <2>2. BytesIn(q) \subseteq BytesIn(Append(q, m))
    BY <1>2, <1>4, <1>5 DEF BytesIn
  <2>3. Bytes(m) \subseteq BytesIn(Append(q, m))
    BY <1>1, <1>2, <1>5 DEF BytesIn
  <2>. QED
    BY <1>5, <2>1, <2>2, <2>3
<1>6. CASE m.kind # "audio"
  BY <1>3, <1>4, <1>6 DEF BytesIn
<1>. QED
  BY <1>5, <1>6

LEMMA AppendKeepsBlocks ==
  ASSUME NEW q \in Seq(Message), NEW b \in Nat, NEW n \in Nat, BlocksUpTo(q, b)
  PROVE  /\ BlocksUpTo(q, b + n)
         /\ BlocksUpTo(Append(q, Audio(b, n)), b + n)
<1> DEFINE a == Append(q, Audio(b, n))
<1>1. /\ DOMAIN a = 1 .. Len(q) + 1
      /\ DOMAIN q = 1 .. Len(q) /\ Len(q) \in Nat
      /\ \A i \in 1 .. Len(q) : a[i] = q[i] /\ q[i] \in Message
      /\ a[Len(q) + 1].kind = "audio"
      /\ a[Len(q) + 1].from = b /\ a[Len(q) + 1].size = n
  BY Kinds
<1> HIDE DEF a
<1>2. \A i \in DOMAIN q : q[i].kind = "audio" => q[i].from \in Nat /\ q[i].size \in Nat
  BY <1>1, Kinds
<1>3. BlocksUpTo(q, b + n)
  BY <1>2 DEF BlocksUpTo
<1>4. \A i \in DOMAIN a : a[i].kind = "audio" => a[i].from + a[i].size <= b + n
  BY <1>1, <1>2 DEF BlocksUpTo
<1>5. ASSUME NEW i \in DOMAIN a, NEW j \in DOMAIN a, i < j,
             a[i].kind = "audio", a[j].kind = "audio"
      PROVE  a[i].from + a[i].size <= a[j].from
  <2>1. i \in DOMAIN q
    BY <1>1, <1>5
  <2>2. CASE j \in DOMAIN q
    BY <1>1, <1>5, <2>1, <2>2 DEF BlocksUpTo
  <2>3. CASE j = Len(q) + 1
    BY <1>1, <1>5, <2>1, <2>3 DEF BlocksUpTo
  <2>. QED
    BY <1>1, <1>5, <2>2, <2>3
<1>6. BlocksUpTo(a, b + n)
  BY <1>4, <1>5 DEF BlocksUpTo
<1>. QED
  BY <1>3, <1>6 DEF a

LEMMA OtherAppendKeepsBlocks ==
  ASSUME NEW q \in Seq(Message), NEW m \in Message, m.kind # "audio", NEW b,
         BlocksUpTo(q, b)
  PROVE  BlocksUpTo(Append(q, m), b)
<1>1. /\ DOMAIN Append(q, m) = DOMAIN q \union {Len(q) + 1}
      /\ \A i \in DOMAIN q : Append(q, m)[i] = q[i]
      /\ Append(q, m)[Len(q) + 1] = m
  OBVIOUS
<1>. QED
  BY <1>1 DEF BlocksUpTo

(* What holds of the messages of a connection holds of the first of them.  *)
LEMMA PrefixKeeps ==
  ASSUME NEW q \in Seq(Message), NEW p \in Seq(Message), NEW b,
         Len(p) <= Len(q), \A i \in DOMAIN p : p[i] = q[i]
  PROVE  /\ Orderly(q) => Orderly(p)
         /\ NoStop(q) => NoStop(p)
         /\ BlocksUpTo(q, b) => BlocksUpTo(p, b)
         /\ AudioIn(p) \subseteq AudioIn(q)
         /\ BytesIn(p) \subseteq BytesIn(q)
<1>1. DOMAIN p = 1 .. Len(p) /\ DOMAIN q = 1 .. Len(q) /\ Len(p) \in Nat /\ Len(q) \in Nat
  OBVIOUS
<1>2. /\ DOMAIN p \subseteq DOMAIN q
      /\ \A i \in DOMAIN p : i = Len(q) => i = Len(p)
  BY <1>1
<1>3. Orderly(q) => Orderly(p)
  BY <1>2 DEF Orderly
<1>4. AudioIn(p) \subseteq AudioIn(q)
  BY <1>2 DEF AudioIn
<1>5. BytesIn(p) \subseteq BytesIn(q)
  BY <1>4 DEF BytesIn, AudioIn
<1>. QED
  BY <1>2, <1>3, <1>4, <1>5 DEF NoStop, BlocksUpTo

LEMMA BytesBelow ==
  ASSUME NEW q \in Seq(Message), NEW end \in Nat, BlocksUpTo(q, end)
  PROVE  BytesIn(q) \subseteq 0 .. end - 1
<1>1. ASSUME NEW i \in AudioIn(q) PROVE Bytes(q[i]) \subseteq 0 .. end - 1
  <2>1. q[i] \in Message /\ q[i].kind = "audio" /\ q[i].from + q[i].size <= end
    BY <1>1 DEF AudioIn, BlocksUpTo
  <2>2. q[i].from \in Nat /\ q[i].size \in Nat
    BY <2>1, Kinds
  <2>. QED
    BY <2>1, <2>2 DEF Bytes
<1>. QED
  BY <1>1 DEF BytesIn

-----------------------------------------------------------------------------
(* Queues in a row: appending to the second, moving the first element of   *)
(* the second to the first, and leaving the second away.                   *)
LEMMA AppendToSecond ==
  ASSUME NEW S, NEW p \in Seq(S), NEW q \in Seq(S), NEW m \in S
  PROVE  p \o Append(q, m) = Append(p \o q, m)
<1>1. p \o q \in Seq(S) /\ <<m>> \in Seq(S)
  BY ConcatProperties
<1>2. Append(q, m) = q \o <<m>>
  BY AppendIsConcat
<1>3. Append(p \o q, m) = (p \o q) \o <<m>>
  BY <1>1, AppendIsConcat
<1>4. (p \o q) \o <<m>> = p \o (q \o <<m>>)
  BY <1>1, ConcatAssociative
<1>. QED
  BY <1>2, <1>3, <1>4

LEMMA MoveFirst ==
  ASSUME NEW S, NEW p \in Seq(S), NEW q \in Seq(S), q # <<>>
  PROVE  /\ Append(p, Head(q)) \o Tail(q) = p \o q
         /\ Head(q) = (p \o q)[Len(p) + 1]
         /\ Len(p) + 1 \in DOMAIN (p \o q)
<1>1. /\ Len(p) \in Nat /\ Len(q) \in Nat /\ Len(q) # 0
      /\ Head(q) = q[1] /\ q[1] \in S /\ Tail(q) \in Seq(S)
  OBVIOUS
<1>2. /\ p \o q \in Seq(S)
      /\ Len(p \o q) = Len(p) + Len(q)
      /\ \A i \in 1 .. Len(p) + Len(q) :
           (p \o q)[i] = IF i <= Len(p) THEN p[i] ELSE q[i - Len(p)]
  BY ConcatProperties
<1>3. (p \o q)[Len(p) + 1] = q[1]
  <2>1. /\ Len(p) + 1 \in 1 .. Len(p) + Len(q)
        /\ ~(Len(p) + 1 <= Len(p))
        /\ Len(p) + 1 - Len(p) = 1
    BY <1>1
  <2>. QED
    BY <1>2, <2>1
<1>4. Len(p) + 1 \in DOMAIN (p \o q)
  <2>1. DOMAIN (p \o q) = 1 .. Len(p) + Len(q)
    BY <1>2, LenProperties
  <2>. QED
    BY <1>1, <2>1
<1>5. <<q[1]>> \in Seq(S)
  BY <1>1
<1>6. Append(p, q[1]) = p \o <<q[1]>>
  BY <1>1, AppendIsConcat
<1>7. q = <<q[1]>> \o Tail(q)
  <2>1. Len(q) \in 1 .. Len(q) /\ 1 \in 1 .. Len(q)
    BY <1>1
  <2>2. SubSeq(q, 1, Len(q)) = <<q[1]>> \o SubSeq(q, 1 + 1, Len(q))
    BY <2>1, SubSeqRecursiveFirst
  <2>3. SubSeq(q, 1, Len(q)) = q
    BY SubSeqFull
  <2>4. Tail(q) = SubSeq(q, 2, Len(q))
    BY TailIsSubSeq
  <2>5. 1 + 1 = 2
    OBVIOUS
  <2>. QED
    BY <2>2, <2>3, <2>4, <2>5
<1>8. (p \o <<q[1]>>) \o Tail(q) = p \o (<<q[1]>> \o Tail(q))
  BY <1>1, <1>5, ConcatAssociative
<1>. QED
  BY <1>1, <1>3, <1>4, <1>6, <1>7, <1>8

LEMMA FirstOfTwo ==
  ASSUME NEW S, NEW p \in Seq(S), NEW q \in Seq(S)
  PROVE  /\ p \o q \in Seq(S)
         /\ Len(p) <= Len(p \o q)
         /\ \A i \in DOMAIN p : p[i] = (p \o q)[i]
<1>1. Len(p) \in Nat /\ Len(q) \in Nat /\ DOMAIN p = 1 .. Len(p)
  OBVIOUS
<1>2. /\ p \o q \in Seq(S)
      /\ Len(p \o q) = Len(p) + Len(q)
      /\ \A i \in 1 .. Len(p) + Len(q) :
           (p \o q)[i] = IF i <= Len(p) THEN p[i] ELSE q[i - Len(p)]
  BY ConcatProperties
<1>3. Len(p) <= Len(p \o q)
  BY <1>1, <1>2
<1>4. ASSUME NEW i \in DOMAIN p PROVE p[i] = (p \o q)[i]
  <2>1. i \in 1 .. Len(p) + Len(q) /\ i <= Len(p)
    BY <1>1
  <2>. QED
    BY <1>2, <2>1
<1>. QED
  BY <1>2, <1>3, <1>4

(* What the steps do to the messages of the connections.                   *)
LEMMA SentAfterSend ==
  ASSUME TypeOK, NEW c \in Channel, NEW m \in Message, Send(c, m), UNCHANGED received
  PROVE  /\ wire' \in [Channel -> Seq(Message)]
         /\ \A d \in Channel \ {c} : Sent(d)' = Sent(d)
         /\ IF link[c] = "up" THEN Sent(c)' = Append(Sent(c), m) ELSE Sent(c)' = Sent(c)
<1>1. /\ wire \in [Channel -> Seq(Message)]
      /\ wire[c] \in Seq(Message) /\ received[c] \in Seq(Message)
  BY DEF TypeOK
<1>2. CASE link[c] = "up"
  <2>1. wire' = [wire EXCEPT ![c] = Append(@, m)]
    BY <1>2 DEF Send
  <2>2. wire'[c] = Append(wire[c], m) /\ \A d \in Channel \ {c} : wire'[d] = wire[d]
    BY <1>1, <2>1
  <2>3. received[c] \o Append(wire[c], m) = Append(received[c] \o wire[c], m)
    <3>1. \A p, q \in Seq(Message) : p \o Append(q, m) = Append(p \o q, m)
      BY AppendToSecond
    <3>. QED
      BY <1>1, <3>1
  <2>4. wire' \in [Channel -> Seq(Message)]
    BY <1>1, <2>1
  <2>. QED
    BY <1>2, <2>2, <2>3, <2>4 DEF Sent
<1>3. CASE link[c] # "up"
  BY <1>3 DEF Send, TypeOK, Sent
<1>. QED
  BY <1>2, <1>3

LEMMA SentAfterRead ==
  ASSUME TypeOK, NEW c \in Channel, ServerReads(c)
  PROVE  /\ wire' \in [Channel -> Seq(Message)]
         /\ received' \in [Channel -> Seq(Message)]
         /\ \A d \in Channel : Sent(d)' = Sent(d)
         /\ received'[c] = Append(received[c], Head(wire[c]))
         /\ Head(wire[c]) = Sent(c)[Len(received[c]) + 1]
         /\ Len(received[c]) + 1 \in DOMAIN Sent(c)
         /\ \A d \in Channel \ {c} : received'[d] = received[d]
<1>1. /\ wire[c] \in Seq(Message) /\ received[c] \in Seq(Message) /\ wire[c] # <<>>
      /\ wire' = [wire EXCEPT ![c] = Tail(@)]
      /\ received' = [received EXCEPT ![c] = Append(@, Head(wire[c]))]
  BY DEF TypeOK, ServerReads
<1>2. /\ wire'[c] = Tail(wire[c]) /\ received'[c] = Append(received[c], Head(wire[c]))
      /\ \A d \in Channel \ {c} : wire'[d] = wire[d] /\ received'[d] = received[d]
  BY <1>1 DEF TypeOK
<1>3. Head(wire[c]) \in Message /\ Tail(wire[c]) \in Seq(Message)
  BY <1>1, HeadTailProperties
<1>4. /\ Append(received[c], Head(wire[c])) \o Tail(wire[c]) = received[c] \o wire[c]
      /\ Head(wire[c]) = (received[c] \o wire[c])[Len(received[c]) + 1]
      /\ Len(received[c]) + 1 \in DOMAIN (received[c] \o wire[c])
  BY <1>1, MoveFirst
<1>6. wire' \in [Channel -> Seq(Message)] /\ received' \in [Channel -> Seq(Message)]
  BY <1>1, <1>3 DEF TypeOK
<1>. QED
  BY <1>2, <1>4, <1>6 DEF Sent

LEMMA SentAfterClosed ==
  ASSUME TypeOK, NEW c \in Channel, Closed(c)
  PROVE  /\ wire' \in [Channel -> Seq(Message)]
         /\ \A d \in Channel \ {c} : Sent(d)' = Sent(d)
         /\ Sent(c) \in Seq(Message) /\ Sent(c)' \in Seq(Message)
         /\ Len(Sent(c)') <= Len(Sent(c))
         /\ \A i \in DOMAIN Sent(c)' : Sent(c)'[i] = Sent(c)[i]
         /\ wire[c] = <<>> => Sent(c)' = Sent(c)
<1>1. /\ wire[c] \in Seq(Message) /\ received[c] \in Seq(Message)
      /\ wire' = [wire EXCEPT ![c] = <<>>]
      /\ received' = received
  BY DEF TypeOK, Closed
<1>2. wire'[c] = <<>> /\ \A d \in Channel \ {c} : wire'[d] = wire[d]
  BY <1>1 DEF TypeOK
<1>3. received[c] \o <<>> = received[c]
  BY <1>1
<1>4. Sent(c)' = received[c]
  BY <1>1, <1>2, <1>3 DEF Sent
<1>5. /\ Len(received[c]) <= Len(received[c] \o wire[c])
      /\ \A i \in DOMAIN received[c] : received[c][i] = (received[c] \o wire[c])[i]
      /\ received[c] \o wire[c] \in Seq(Message)
  BY <1>1, FirstOfTwo
<1>6. wire' \in [Channel -> Seq(Message)]
  BY <1>1 DEF TypeOK
<1>. QED
  BY <1>1, <1>2, <1>3, <1>4, <1>5, <1>6 DEF Sent
-----------------------------------------------------------------------------
(* Everything main does, by what it leaves alone.                          *)
Checks == CheckFile \/ CheckOpen \/ CheckListening \/ AudioSent \/ Join

Closes == Close \/ Destroy

LEMMA SimulatorTypeStep ==
  ASSUME TypeOK, [Next]_vars
  PROVE  TypeOK'
<1> USE DEF TypeOK, Channel
<1>1. CASE Checks
  <2>1. UNCHANGED <<bufSize, sendItToFirstChannel, m_status, m_recent, netVars>>
    BY <1>1 DEF Checks, CheckFile, CheckOpen, CheckListening, AudioSent, Join
  <2>2. /\ main' \in {"connect", "start", "audio", "stop", "destroy", "checkListening", "exit"}
        /\ channel' \in Channel
    BY <1>1 DEF Checks, CheckFile, CheckOpen, CheckListening, AudioSent, Join, Return,
                Goto, Then
  <2>. QED
    BY <2>1, <2>2 DEF netVars
<1>2. CASE Closes
  BY <1>2 DEF Closes, Close, Destroy, Goto, Return, StartClosing
<1>3. CASE Connect
  BY <1>3 DEF Connect, Goto
<1>4. CASE SendStart
  <2>1. wire' \in [Channel -> Seq(Message)]
    BY <1>4, Kinds, SentAfterSend DEF SendStart
  <2>. QED
    BY <1>4, <2>1 DEF SendStart, Then, Goto
<1>5. CASE SendStop
  <2>1. wire' \in [Channel -> Seq(Message)]
    BY <1>5, Kinds, SentAfterSend DEF SendStop
  <2>. QED
    BY <1>5, <2>1 DEF SendStop, Then, Goto
<1>6. CASE SendAudio
  <2>1. Block \in 0 .. bufSize /\ FileSize - bufSize \in Nat
    BY SizesArePositive DEF Block
  <2>2. Audio(FileSize - bufSize, Block) \in Message
    BY <2>1, Kinds
  <2>3. wire' \in [Channel -> Seq(Message)]
    BY <1>6, <2>2, SentAfterSend DEF SendAudio
  <2>. QED
    BY <1>6, <2>1, <2>3, SizesArePositive DEF SendAudio
<1>7. ASSUME NEW c \in Channel, Handler(c) \/ OnBreak(c) PROVE TypeOK'
  <2>1. CASE OnOpen(c)
    BY <2>1 DEF OnOpen, mainVars
  <2>2. CASE OnFail(c)
    BY <2>2 DEF OnFail, mainVars
  <2>3. CASE OnMessage(c)
    <3>1. answers' \in [Channel -> Nat] /\ m_recent' \in [Channel -> BOOLEAN]
      BY <2>3 DEF OnMessage
    <3>. QED
      BY <2>3, <3>1 DEF OnMessage, mainVars
  <2>4. CASE Closed(c) /\ faults' \in Nat
    <3>1. wire' \in [Channel -> Seq(Message)]
      BY <2>4, SentAfterClosed
    <3>2. /\ link' \in [Channel -> {"none", "connecting", "up", "closing", "gone"}]
          /\ m_status' \in [Channel -> {"none", "refused", "Connecting", "Open", "Failed",
                                       "Closed"}]
          /\ answers' \in [Channel -> Nat]
      BY <2>4 DEF Closed
    <3>. QED
      BY <2>4, <3>1, <3>2 DEF Closed, mainVars
  <2>. QED
    BY <1>7, <2>1, <2>2, <2>3, <2>4 DEF Handler, OnClose, OnBreak
<1>8. ASSUME NEW c \in Channel, ServerReads(c) PROVE TypeOK'
  <2>1. wire' \in [Channel -> Seq(Message)] /\ received' \in [Channel -> Seq(Message)]
    BY <1>8, SentAfterRead
  <2>2. answers' \in [Channel -> Nat]
    BY <1>8 DEF ServerReads
  <2>. QED
    BY <1>8, <2>1, <2>2 DEF ServerReads, mainVars
<1>9. CASE UNCHANGED vars
  BY <1>9 DEF vars, mainVars, netVars
<1>. QED
  BY <1>1, <1>2, <1>3, <1>4, <1>5, <1>6, <1>7, <1>8, <1>9
  DEF Next, Main, Checks, Closes

THEOREM SimulatorTypeCorrect == Spec => []TypeOK
<1>1. Init => TypeOK
  BY SizesArePositive, EmptySeq DEF Init, TypeOK, Channel
<1>2. TypeOK /\ [Next]_vars => TypeOK'
  BY SimulatorTypeStep
<1>. QED
  BY <1>1, <1>2, PTL DEF Spec

-----------------------------------------------------------------------------
LEMMA LinksStep ==
  ASSUME TypeOK, LinksWhileSending, [Next]_vars
  PROVE  LinksWhileSending'
<1> USE DEF TypeOK, LinksWhileSending, Opened, Channel
<1>1. CASE CheckFile \/ CheckListening \/ AudioSent \/ Join \/ CheckOpen
  BY <1>1 DEF CheckFile, CheckOpen, CheckListening, AudioSent, Join, Return, Goto,
              Then, netVars
<1>2. CASE Closes
  BY <1>2 DEF Closes, Close, Destroy, Goto, Return, StartClosing
<1>3. CASE Connect
  BY <1>3 DEF Connect, Goto
<1>4. CASE SendStart \/ SendStop \/ SendAudio
  <2>1. /\ main' = main \/ main' \in {"checkListening", "close"}
        /\ main \in {"start", "stop", "audio"}
        /\ UNCHANGED <<m_status, link, faults>>
    BY <1>4 DEF SendStart, SendStop, SendAudio, Then, Goto
  <2>. QED
    BY <2>1
<1>5. ASSUME NEW c \in Channel, Handler(c) PROVE LinksWhileSending'
  BY <1>5 DEF Handler, OnOpen, OnFail, OnMessage, OnClose, Closed, mainVars
<1>6. ASSUME NEW c \in Channel, OnBreak(c) PROVE LinksWhileSending'
  BY <1>6 DEF OnBreak, Closed, mainVars
<1>7. ASSUME NEW c \in Channel, ServerReads(c) PROVE LinksWhileSending'
  BY <1>7 DEF ServerReads, mainVars
<1>8. CASE UNCHANGED vars
  BY <1>8 DEF vars, mainVars, netVars
<1>. QED
  BY <1>1, <1>2, <1>3, <1>4, <1>5, <1>6, <1>7, <1>8 DEF Next, Main, Closes
-----------------------------------------------------------------------------
LEMMA SentType ==
  ASSUME TypeOK, NEW c \in Channel
  PROVE  Sent(c) \in Seq(Message)
<1>1. received[c] \in Seq(Message) /\ wire[c] \in Seq(Message)
  BY DEF TypeOK
<1>. QED
  BY <1>1, ConcatProperties DEF Sent

(* A session that has started stays so.                                    *)
LEMMA StartedStays ==
  ASSUME TypeOK, [Next]_vars, NEW c \in Channel, HasStarted(c)
  PROVE  HasStarted(c)'
<1>1. CASE UNCHANGED received
  BY <1>1 DEF HasStarted
<1>2. ASSUME NEW d \in Channel, ServerReads(d) PROVE HasStarted(c)'
  <2>1. CASE d = c
    <3>1. PICK e : received'[c] = Append(received[c], e)
      BY <1>2, <2>1, SentAfterRead
    <3>2. received[c] \in Seq(Message) /\ received[c] # <<>> /\ Head(received[c]) = Start
      BY DEF TypeOK, HasStarted
    <3>3. Head(received'[c]) = Start
      BY <3>1, <3>2, HeadTailAppend
    <3>4. received'[c] # <<>>
      BY <3>1, <3>2
    <3>. QED
      BY <3>3, <3>4 DEF HasStarted
  <2>2. CASE d # c
    <3>1. received'[c] = received[c]
      BY <1>2, <2>2, SentAfterRead
    <3>. QED
      BY <3>1 DEF HasStarted
  <2>. QED
    BY <2>1, <2>2
<1>3. Main => UNCHANGED received
  BY DEF Main, CheckFile, Connect, CheckOpen, SendStart, CheckListening, SendAudio,
         AudioSent, SendStop, Close, Destroy, Join, netVars
<1>4. ASSUME NEW d \in Channel, Handler(d) \/ OnBreak(d) PROVE UNCHANGED received
  BY <1>4 DEF Handler, OnOpen, OnFail, OnMessage, OnClose, OnBreak, Closed
<1>. QED
  BY <1>1, <1>2, <1>3, <1>4 DEF Next, vars, netVars

(* Sending a message in its turn.                                          *)
LEMMA SendKeepsSession ==
  ASSUME TypeOK, \A d \in Channel : Session(d),
         NEW c \in Channel, NEW m \in Message, Send(c, m),
         UNCHANGED <<received, answers, m_recent>>,
         NoStop(Sent(c)), m = Start <=> Sent(c) = <<>>,
         m.kind = "audio" => HasStarted(1) /\ HasStarted(2)
  PROVE  \A d \in Channel : /\ Session(d)'
                            /\ d # c => Sent(d)' = Sent(d)
                            /\ m # Stop /\ NoStop(Sent(d)) => NoStop(Sent(d))'
<1>1. \A d \in Channel : HasStarted(d)' = HasStarted(d)
  BY DEF HasStarted
<1>2. /\ \A d \in Channel \ {c} : Sent(d)' = Sent(d)
      /\ Sent(c)' = Append(Sent(c), m) \/ Sent(c)' = Sent(c)
  BY SentAfterSend
<1>3. Sent(c) \in Seq(Message) /\ 1 \in Channel /\ 2 \in Channel
  BY SentType DEF Channel
<1>4. /\ Orderly(Append(Sent(c), m))
      /\ m # Stop => NoStop(Append(Sent(c), m))
  BY <1>3, AppendKeepsOrder DEF Session
<1>5. AudioIn(Append(Sent(c), m)) # {} => HasStarted(1) /\ HasStarted(2)
  BY <1>3, AppendAddsBytes DEF Session
<1>6. /\ Orderly(Sent(c)')
      /\ m # Stop => NoStop(Sent(c)')
      /\ AudioIn(Sent(c)') # {} => HasStarted(1) /\ HasStarted(2)
  BY <1>2, <1>4, <1>5 DEF Session
<1>. QED
  BY <1>1, <1>2, <1>3, <1>6 DEF Session

(* What is not main's doing.                                               *)
LEMMA OthersKeepSession ==
  ASSUME TypeOK, \A d \in Channel : Session(d), [Next]_vars, NEW c \in Channel,
         Handler(c) \/ OnBreak(c) \/ ServerReads(c)
  PROVE  \A d \in Channel : /\ Session(d)'
                            /\ Sent(d) = <<>> => Sent(d)' = <<>>
                            /\ NoStop(Sent(d)) => NoStop(Sent(d))'
                            /\ m_recent[d] => m_recent'[d]
<1>0. 1 \in Channel /\ 2 \in Channel
  BY DEF Channel
<1>1. CASE OnOpen(c) \/ OnFail(c)
  BY <1>1 DEF OnOpen, OnFail, Session, Sent, HasStarted
<1>2. CASE OnMessage(c)
  <2>1. \A d \in Channel : Sent(d)' = Sent(d) /\ HasStarted(d)' = HasStarted(d)
    BY <1>2 DEF OnMessage, Sent, HasStarted
  <2>2. HasStarted(c)
    BY <1>2 DEF OnMessage, Session
  <2>3. \A d \in Channel : m_recent[d] => m_recent'[d]
    BY <1>2 DEF OnMessage, TypeOK
  <2>4. \A d \in Channel : answers'[d] > 0 \/ m_recent'[d] => HasStarted(d)
    BY <1>2, <2>2 DEF OnMessage, TypeOK, Session
  <2>. QED
    BY <1>0, <2>1, <2>3, <2>4 DEF Session
<1>3. CASE Closed(c)
  <2>1. \A d \in Channel : HasStarted(d)' = HasStarted(d)
    BY <1>3 DEF Closed, HasStarted
  <2>2. \A d \in Channel : /\ answers'[d] > 0 => answers[d] > 0
                           /\ m_recent'[d] = m_recent[d]
    BY <1>3 DEF Closed, TypeOK
  <2>3. \A d \in Channel \ {c} : Sent(d)' = Sent(d)
    BY <1>3, SentAfterClosed
  <2>4. /\ Orderly(Sent(c)) => Orderly(Sent(c)')
        /\ NoStop(Sent(c)) => NoStop(Sent(c)')
        /\ AudioIn(Sent(c)') \subseteq AudioIn(Sent(c))
    BY <1>3, SentAfterClosed, PrefixKeeps
  <2>5. Sent(c) = <<>> => Sent(c)' = <<>>
    <3>1. /\ Sent(c)' \in Seq(Message) /\ Sent(c) \in Seq(Message)
          /\ Len(Sent(c)') <= Len(Sent(c))
      BY <1>3, SentAfterClosed
    <3>2. \A p, q \in Seq(Message) : Len(p) <= Len(q) /\ q = <<>> => p = <<>>
      OBVIOUS
    <3>. QED
      BY <3>1, <3>2
  <2>. QED
    BY <1>0, <2>1, <2>2, <2>3, <2>4, <2>5 DEF Session
<1>4. CASE ServerReads(c)
  <2>1. /\ \A d \in Channel : Sent(d)' = Sent(d)
        /\ received'[c] = Append(received[c], Head(wire[c]))
        /\ Head(wire[c]) = Sent(c)[Len(received[c]) + 1]
        /\ Len(received[c]) + 1 \in DOMAIN Sent(c)
        /\ \A d \in Channel \ {c} : received'[d] = received[d]
    BY <1>4, SentAfterRead
  <2>2. \A d \in Channel : HasStarted(d) => HasStarted(d)'
    BY StartedStays
  <2>3. Head(wire[c]) = Start => HasStarted(c)'
    <3>1. SUFFICES ASSUME Head(wire[c]) = Start PROVE HasStarted(c)'
      OBVIOUS
    <3>2. Len(received[c]) + 1 = 1
      BY <2>1, <3>1 DEF Session, Orderly
    <3>3. received[c] \in Seq(Message)
      BY DEF TypeOK
    <3>4. received[c] = <<>>
      BY <3>2, <3>3
    <3>5. received'[c] = <<Start>>
      BY <2>1, <3>1, <3>4
    <3>. QED
      BY <3>5 DEF HasStarted
  <2>4. \A d \in Channel : /\ answers'[d] > 0 => answers[d] > 0 \/ (d = c /\ Head(wire[c]) = Start)
                           /\ m_recent'[d] = m_recent[d]
    BY <1>4 DEF ServerReads, TypeOK
  <2>. QED
    BY <1>0, <2>1, <2>2, <2>3, <2>4 DEF Session
<1>. QED
  BY <1>1, <1>2, <1>3, <1>4 DEF Handler, OnClose, OnBreak
LEMMA SessionsStep ==
  ASSUME TypeOK, Sessions, [Next]_vars
  PROVE  Sessions'
<1>0. /\ channel \in Channel /\ 1 \in Channel /\ 2 \in Channel
      /\ channel >= channel /\ NoStop(<<>>)
  BY DEF TypeOK, Channel, NoStop
<1>1. ASSUME UNCHANGED <<wire, received, answers, m_recent>>, Turns' PROVE Sessions'
  BY <1>1 DEF Sessions, Session, Sent, HasStarted
<1>2. CASE Checks \/ Connect \/ Closes
  <2>1. UNCHANGED <<wire, received, answers, m_recent>>
    BY <1>2 DEF Checks, Closes, Connect, CheckFile, CheckOpen, CheckListening, AudioSent,
                Join, Close, Destroy, netVars
  <2>2. \A c \in Channel : Sent(c)' = Sent(c) /\ NoStop(Sent(c))' = NoStop(Sent(c))
    BY <2>1 DEF Sent, NoStop
  <2>. SUFFICES Turns'
    BY <1>1, <2>1
  <2>3. CASE main' \in {"close", "destroy", "join", "exit"}
    BY <2>3 DEF Turns
  <2>4. CASE main' \in {"connect", "checkOpen"} /\ main \in {"stat", "connect", "checkOpen"}
    BY <2>2, <2>4 DEF Turns, Sessions
  <2>5. CASE main' = "start" /\ main = "checkOpen"
    BY <1>0, <2>2, <2>5 DEF Turns, Sessions
  <2>6. CASE CheckListening
    BY <1>0, <2>1, <2>2, <2>6 DEF CheckListening, Then, Goto, Return, Turns, Sessions, Channel
  <2>7. CASE AudioSent
    BY <2>1, <2>2, <2>7 DEF AudioSent, Goto, Turns, Sessions
  <2>. QED
    BY <1>2, <2>3, <2>4, <2>5, <2>6, <2>7
    DEF Checks, Closes, Connect, CheckFile, CheckOpen, Join, Close, Destroy, Goto, Return
<1>3. CASE SendStart
  <2>1. /\ main = "start" /\ Sent(channel) = <<>> /\ NoStop(Sent(channel))
    BY <1>0, <1>3 DEF SendStart, Sessions, Turns
  <2>2. \A d \in Channel : /\ Session(d)'
                           /\ d # channel => Sent(d)' = Sent(d)
                           /\ NoStop(Sent(d)) => NoStop(Sent(d))'
    BY <1>0, <1>3, <2>1, Kinds, SendKeepsSession DEF SendStart, Sessions
  <2>3. Turns'
    BY <1>3, <2>1, <2>2 DEF SendStart, Then, Goto, Sessions, Turns, Channel
  <2>. QED
    BY <2>2, <2>3 DEF Sessions
<1>4. ASSUME NEW c \in Channel, NEW m \in Message, main \in {"audio", "stop"},
             Send(c, m), UNCHANGED <<received, answers, m_recent>>,
             NoStop(Sent(c)), m # Start
      PROVE  \A d \in Channel : /\ Session(d)'
                                /\ d # c => Sent(d)' = Sent(d)
                                /\ m # Stop /\ NoStop(Sent(d)) => NoStop(Sent(d))'
  <2>1. HasStarted(1) /\ HasStarted(2) /\ HasStarted(c)
    BY <1>0, <1>4 DEF Sessions, Turns, Session
  <2>2. Sent(c) # <<>>
    BY <2>1, ConcatEqualIffEmpty DEF HasStarted, Sent, TypeOK
  <2>. QED
    BY <1>4, <2>1, <2>2, SendKeepsSession DEF Sessions
<1>5. CASE SendAudio
  <2>1. PICK c \in Channel, m \in Message :
          Send(c, m) /\ m # Start /\ m # Stop
    <3>1. Block \in Nat /\ FileSize - bufSize \in Nat
      BY SizesArePositive DEF Block, TypeOK
    <3>. QED
      BY <1>0, <1>5, <3>1, Kinds DEF SendAudio
  <2>2. /\ main = "audio" /\ NoStop(Sent(c))
        /\ UNCHANGED <<main, channel, received, answers, m_recent>>
    BY <1>5 DEF SendAudio, Sessions, Turns
  <2>3. \A d \in Channel : Session(d)' /\ NoStop(Sent(d))'
    BY <1>4, <2>1, <2>2 DEF Sessions, Turns
  <2>4. Turns'
    BY <2>2, <2>3 DEF Sessions, Turns
  <2>. QED
    BY <2>3, <2>4 DEF Sessions
<1>6. CASE SendStop
  <2>1. /\ main = "stop" /\ NoStop(Sent(channel)) /\ Send(channel, Stop)
        /\ UNCHANGED <<received, answers, m_recent>>
    BY <1>0, <1>6 DEF SendStop, Sessions, Turns
  <2>2. \A d \in Channel : /\ Session(d)'
                           /\ d # channel => Sent(d)' = Sent(d)
    BY <1>0, <1>4, <2>1, Kinds
  <2>3. Turns'
    BY <1>6, <2>1, <2>2 DEF SendStop, Then, Goto, Sessions, Turns, Channel
  <2>. QED
    BY <2>2, <2>3 DEF Sessions
<1>7. ASSUME NEW c \in Channel, Handler(c) \/ OnBreak(c) \/ ServerReads(c) PROVE Sessions'
  <2>1. \A d \in Channel : /\ Session(d)'
                           /\ Sent(d) = <<>> => Sent(d)' = <<>>
                           /\ NoStop(Sent(d)) => NoStop(Sent(d))'
                           /\ m_recent[d] => m_recent'[d]
    BY <1>7, OthersKeepSession DEF Sessions
  <2>2. UNCHANGED mainVars
    BY <1>7 DEF Handler, OnOpen, OnFail, OnMessage, OnClose, OnBreak, Closed, ServerReads
  <2>3. Turns'
    BY <1>0, <2>1, <2>2 DEF mainVars, Sessions, Turns
  <2>. QED
    BY <2>1, <2>3 DEF Sessions
<1>8. CASE UNCHANGED vars
  <2>1. UNCHANGED <<main, channel, wire, received, answers, m_recent>>
    BY <1>8 DEF vars, mainVars, netVars
  <2>2. Turns'
    BY <2>1 DEF Sessions, Turns, Sent
  <2>. QED
    BY <1>1, <2>1, <2>2
<1>. QED
  BY <1>2, <1>3, <1>5, <1>6, <1>7, <1>8 DEF Next, Main, Checks, Closes

(* Whatever the connections do, no audio is sent before the server has     *)
(* both sessions, and start, audio and stop come in this order.            *)
THEOREM AudioAfterSessions == Spec => []AudioAfterBothStarted
<1>1. Init => Sessions
  BY ConcatEmptySeq, EmptySeq
  DEF Init, Sessions, Turns, Session, Sent, Channel, Orderly, AudioIn, NoStop
<1>2. TypeOK /\ Sessions /\ [Next]_vars => Sessions'
  BY SessionsStep
<1>3. Sessions => AudioAfterBothStarted
  BY DEF Sessions, Session, AudioAfterBothStarted, Orderly, AudioIn
<1>. QED
  BY <1>1, <1>2, <1>3, SimulatorTypeCorrect, PTL DEF Spec
-----------------------------------------------------------------------------
LEMMA BytesOfBlock ==
  ASSUME NEW b \in Nat, NEW n \in Nat
  PROVE  Bytes(Audio(b, n)) = b .. b + n - 1
<1>1. Bytes(Audio(b, n)) = {b + k : k \in 0 .. n - 1}
  <2>1. Audio(b, n).from = b /\ Audio(b, n).size = n
    BY Kinds
  <2>. HIDE DEF Audio
  <2>2. Bytes(Audio(b, n))
          = {Audio(b, n).from + k : k \in 0 .. Audio(b, n).size - 1}
    BY DEF Bytes
  <2>. QED
    BY <2>1, <2>2
<1>2. ASSUME NEW x \in b .. b + n - 1 PROVE x \in {b + k : k \in 0 .. n - 1}
  <2>1. x - b \in 0 .. n - 1 /\ x = b + (x - b)
    BY <1>2
  <2>. QED
    BY <2>1
<1>3. {b + k : k \in 0 .. n - 1} \subseteq b .. b + n - 1
  OBVIOUS
<1>. QED
  BY <1>1, <1>2, <1>3

LEMMA SharesStep ==
  ASSUME TypeOK, LinksWhileSending, Shares, [Next]_vars
  PROVE  Shares'
<1>0. 1 \in Channel /\ 2 \in Channel
  BY DEF Channel
<1>1. ASSUME UNCHANGED bufSize,
             \A d \in Channel : /\ BlocksUpTo(Sent(d), FileSize - bufSize)
                                     => BlocksUpTo(Sent(d)', FileSize - bufSize)
                                /\ BytesIn(Sent(d)') \subseteq BytesIn(Sent(d)),
             faults' = 0 => /\ faults = 0
                            /\ \A d \in Channel : BytesIn(Sent(d)') = BytesIn(Sent(d))
      PROVE  Shares'
  BY <1>0, <1>1 DEF Shares
<1>2. ASSUME UNCHANGED <<bufSize, faults, wire, received>> PROVE Shares'
  BY <1>2 DEF Shares, Sent
<1>3. ASSUME NEW c \in Channel, NEW m \in {Start, Stop}, Send(c, m),
             UNCHANGED <<bufSize, faults, received>>
      PROVE  Shares'
  <2>1. /\ \A d \in Channel \ {c} : Sent(d)' = Sent(d)
        /\ Sent(c)' = Append(Sent(c), m) \/ Sent(c)' = Sent(c)
    BY <1>3, Kinds, SentAfterSend
  <2>2. /\ BytesIn(Sent(c)') = BytesIn(Sent(c))
        /\ BlocksUpTo(Sent(c), FileSize - bufSize)
             => BlocksUpTo(Sent(c)', FileSize - bufSize)
    <3>1. Sent(c) \in Seq(Message) /\ m \in Message /\ m.kind # "audio"
      BY <1>3, Kinds, SentType
    <3>2. BytesIn(Append(Sent(c), m)) = BytesIn(Sent(c))
      BY <3>1, AppendAddsBytes
    <3>3. BlocksUpTo(Sent(c), FileSize - bufSize)
            => BlocksUpTo(Append(Sent(c), m), FileSize - bufSize)
      BY <3>1, OtherAppendKeepsBlocks
    <3>. QED
      BY <2>1, <3>2, <3>3
  <2>. QED
    BY <1>1, <1>3, <2>1, <2>2
<1>4. CASE SendAudio
  <2>1. PICK b, n, c : /\ b = FileSize - bufSize /\ n = Block
                       /\ c = IF sendItToFirstChannel THEN 1 ELSE 2
    OBVIOUS
  <2>2. /\ b \in Nat /\ n \in Nat /\ c \in Channel
        /\ Audio(b, n) \in Message /\ Send(c, Audio(b, n))
        /\ UNCHANGED <<received, faults>> /\ main = "audio"
    <3>1. Block \in Nat /\ FileSize - bufSize \in Nat
      BY SizesArePositive DEF Block, TypeOK
    <3>. QED
      BY <1>0, <1>4, <2>1, <3>1, Kinds DEF SendAudio
  <2>3. FileSize - bufSize' = b + n
    <3>1. Block \in Nat /\ bufSize' = bufSize - Block
      BY <1>4, SizesArePositive DEF Block, TypeOK, SendAudio
    <3>. QED
      BY <2>1, <3>1, SizesArePositive DEF TypeOK
  <2>4. /\ \A d \in Channel \ {c} : Sent(d)' = Sent(d)
        /\ IF link[c] = "up" THEN Sent(c)' = Append(Sent(c), Audio(b, n))
                             ELSE Sent(c)' = Sent(c)
    BY <2>2, SentAfterSend
  <2>5. \A d \in Channel : /\ Sent(d) \in Seq(Message)
                           /\ BlocksUpTo(Sent(d), b)
                           /\ BlocksUpTo(Sent(d), b + n)
    BY <2>1, <2>2, SentType, AppendKeepsBlocks DEF Shares
  <2>6. \A d \in Channel : BytesIn(Sent(d)) \subseteq 0 .. b - 1
    BY <2>2, <2>5, BytesBelow
  <2>7. CASE link[c] = "up"
    <3>1. BlocksUpTo(Append(Sent(c), Audio(b, n)), b + n)
      BY <2>2, <2>5, AppendKeepsBlocks
    <3>2. BytesIn(Append(Sent(c), Audio(b, n))) = BytesIn(Sent(c)) \union (b .. b + n - 1)
      <4>1. Sent(c) \in Seq(Message) /\ Audio(b, n).kind = "audio"
        BY <2>2, <2>5, Kinds
      <4>2. BytesIn(Append(Sent(c), Audio(b, n)))
              = BytesIn(Sent(c)) \union Bytes(Audio(b, n))
        BY <2>2, <4>1, AppendAddsBytes
      <4>. QED
        BY <2>2, <4>2, BytesOfBlock
    <3>3. /\ BlocksUpTo(Sent(c)', b + n)
          /\ BytesIn(Sent(c)') = BytesIn(Sent(c)) \union (b .. b + n - 1)
      BY <2>4, <2>7, <3>1, <3>2
    <3>4. \A d \in Channel : BlocksUpTo(Sent(d)', b + n)
      BY <2>4, <2>5, <3>3
    <3>5. \A d \in Channel \ {c} : BytesIn(Sent(d)') = BytesIn(Sent(d))
      BY <2>4
    <3>6. (0 .. b - 1) \intersect (b .. b + n - 1) = {}
      BY <2>2
    <3>7. (0 .. b - 1) \union (b .. b + n - 1) = 0 .. b + n - 1
      BY <2>2
    <3>8. \/ c = 1 /\ BytesIn(Sent(2)') = BytesIn(Sent(2))
          \/ c = 2 /\ BytesIn(Sent(1)') = BytesIn(Sent(1))
      BY <2>2, <3>5 DEF Channel
    <3>9. BytesIn(Sent(1)') \intersect BytesIn(Sent(2)') = {}
      BY <1>0, <2>6, <3>3, <3>6, <3>8 DEF Shares
    <3>10. faults = 0 => BytesIn(Sent(1)) \union BytesIn(Sent(2)) = 0 .. b - 1
      BY <2>1 DEF Shares
    <3>11. faults = 0 =>
             BytesIn(Sent(1)') \union BytesIn(Sent(2)') = (0 .. b - 1) \union (b .. b + n - 1)
      BY <3>3, <3>8, <3>10
    <3>. QED
      BY <2>2, <2>3, <3>4, <3>7, <3>9, <3>11 DEF Shares
  <2>8. CASE link[c] # "up"
    <3>1. faults # 0
      BY <2>2, <2>8 DEF LinksWhileSending, Opened
    <3>2. \A d \in Channel : Sent(d)' = Sent(d)
      BY <2>4, <2>8
    <3>. QED
      BY <1>0, <2>2, <2>3, <2>5, <3>1, <3>2 DEF Shares
  <2>. QED
    BY <2>7, <2>8
<1>5. ASSUME NEW c \in Channel, Closed(c),
             \/ wire[c] = <<>> /\ UNCHANGED faults
             \/ faults' = faults + 1
      PROVE  Shares'
  <2>1. UNCHANGED bufSize
    BY <1>5 DEF Closed, mainVars
  <2>2. /\ \A d \in Channel \ {c} : Sent(d)' = Sent(d)
        /\ wire[c] = <<>> => Sent(c)' = Sent(c)
    BY <1>5, SentAfterClosed
  <2>3. /\ BytesIn(Sent(c)') \subseteq BytesIn(Sent(c))
        /\ BlocksUpTo(Sent(c), FileSize - bufSize)
             => BlocksUpTo(Sent(c)', FileSize - bufSize)
    BY <1>5, SentAfterClosed, PrefixKeeps
  <2>4. faults' = 0 => faults = 0 /\ Sent(c)' = Sent(c)
    BY <1>5, <2>2 DEF TypeOK
  <2>. QED
    BY <1>1, <2>1, <2>2, <2>3, <2>4
<1>6. ASSUME NEW c \in Channel, ServerReads(c) PROVE Shares'
  <2>1. \A d \in Channel : Sent(d)' = Sent(d)
    BY <1>6, SentAfterRead
  <2>2. UNCHANGED <<bufSize, faults>>
    BY <1>6 DEF ServerReads, mainVars
  <2>. QED
    BY <1>1, <2>1, <2>2
<1>7. CASE SendStart \/ SendStop
  <2>1. channel \in Channel
    BY DEF TypeOK
  <2>. QED
    BY <1>3, <1>7, <2>1 DEF SendStart, SendStop
<1>8. CASE Checks \/ Connect \/ Closes
  BY <1>2, <1>8 DEF Checks, Closes, Connect, CheckFile, CheckOpen, CheckListening,
                    AudioSent, Join, Close, Destroy, netVars
<1>9. ASSUME NEW c \in Channel, Handler(c) \/ OnBreak(c) PROVE Shares'
  BY <1>2, <1>5, <1>9 DEF Handler, OnOpen, OnFail, OnMessage, OnClose, OnBreak, mainVars
<1>10. CASE UNCHANGED vars
  BY <1>2, <1>10 DEF vars, mainVars, netVars
<1>. QED
  BY <1>4, <1>6, <1>7, <1>8, <1>9, <1>10 DEF Next, Main, Checks, Closes

(* No byte of the file is sent twice, each channel gets its blocks in      *)
(* order, and while no connection breaks none is left out.                 *)
THEOREM FileShared == Spec => []AudioSharedOut
<1>1. Init => LinksWhileSending /\ Shares
  <2> SUFFICES ASSUME Init PROVE LinksWhileSending /\ Shares
    OBVIOUS
  <2>1. \A c \in Channel : Sent(c) = <<>> /\ AudioIn(Sent(c)) = {} /\ BytesIn(Sent(c)) = {}
    BY ConcatEmptySeq, EmptySeq DEF Init, Sent, AudioIn, BytesIn
  <2>2. FileSize - bufSize - 1 = 0 - 1
    BY SizesArePositive DEF Init
  <2>3. Shares
    BY <2>1, <2>2 DEF Shares, BlocksUpTo, Channel
  <2>. QED
    BY <2>3 DEF Init, LinksWhileSending, Opened, Channel
<1>2. TypeOK /\ LinksWhileSending /\ Shares /\ [Next]_vars => LinksWhileSending' /\ Shares'
  BY LinksStep, SharesStep
<1>3. TypeOK /\ Shares => AudioSharedOut
  <2> SUFFICES ASSUME TypeOK, Shares PROVE AudioSharedOut
    OBVIOUS
  <2>1. FileSize - bufSize \in Nat /\ FileSize - bufSize <= FileSize
    BY SizesArePositive DEF TypeOK
  <2>2. \A c \in Channel : BytesOf(c) = BytesIn(Sent(c))
    BY DEF BytesOf, BytesIn, AudioIn
  <2>3. \A c \in Channel : BytesIn(Sent(c)) \subseteq 0 .. FileSize - bufSize - 1
    BY <2>1, SentType, BytesBelow DEF Shares
  <2>4. 0 .. FileSize - bufSize - 1 \subseteq 0 .. FileSize - 1
    BY <2>1, SizesArePositive
  <2>5. 1 \in Channel /\ 2 \in Channel
    BY DEF Channel
  <2>6. \A c \in Channel : \A i, j \in DOMAIN Sent(c) :
          i < j /\ Sent(c)[i].kind = "audio" /\ Sent(c)[j].kind = "audio"
            => Sent(c)[i].from + Sent(c)[i].size <= Sent(c)[j].from
    BY DEF Shares, BlocksUpTo
  <2>. QED
    BY <2>2, <2>3, <2>4, <2>5, <2>6 DEF AudioSharedOut, Shares
<1>. QED
  BY <1>1, <1>2, <1>3, SimulatorTypeCorrect, PTL DEF Spec
=============================================================================
