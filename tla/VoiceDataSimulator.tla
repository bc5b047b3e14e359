------------------------- MODULE VoiceDataSimulator -------------------------
(***************************************************************************)
(* The voice data simulator: a program that plays one call to a            *)
(* IBMVoiceGatewaySource.  It opens a connection for the caller and one    *)
(* for the agent, starts a session on both, sends the blocks of an audio   *)
(* file to them in turn, stops the sessions and closes the connections.    *)
(*                                                                         *)
(* Three threads share the metadata of the connections without a lock:     *)
(* main, and one thread per connection that runs its handlers.  Main only  *)
(* sleeps for fixed times, so whatever it looks at may come too late.      *)
(***************************************************************************)
EXTENDS Integers, Sequences

CONSTANTS
  FileSize,        \* of the audio file, in bytes
  audioBlockSize,  \* argument: bytes per block
  MaxFaults        \* bound: connections that break or are closed by the server

ASSUME SizesArePositive == FileSize \in Nat /\ audioBlockSize \in Nat \ {0}

Channel == {1, 2}  \* the caller's and the agent's

VARIABLES
  main,                  \* where main is
  channel,               \* the channel its present step is for
  m_status,              \* metadata of a connection: its status,
  m_recent,              \* and whether the last message says listening
  bufSize,               \* bytes of the file that are left to send
  sendItToFirstChannel,
  link,                  \* the connection, as the library knows it
  wire,                  \* messages on their way to the server
  answers,               \* messages on their way back
  received,              \* what the server got of each connection
  faults

mainVars == <<main, channel, bufSize, sendItToFirstChannel>>
netVars  == <<link, wire, answers, received, faults>>
vars     == <<mainVars, m_status, m_recent, netVars>>

Start       == [kind |-> "start"]
Stop        == [kind |-> "stop"]
Audio(b, n) == [kind |-> "audio", from |-> b, size |-> n]

Init ==
  /\ main = "stat"
  /\ channel = 1
  /\ m_status = [c \in Channel |-> "none"]
  /\ m_recent = [c \in Channel |-> FALSE]
  /\ bufSize = FileSize
  /\ sendItToFirstChannel = TRUE
  /\ link = [c \in Channel |-> "none"]
  /\ wire = [c \in Channel |-> <<>>]
  /\ answers = [c \in Channel |-> 0]
  /\ received = [c \in Channel |-> <<>>]
  /\ faults = 0

-----------------------------------------------------------------------------
(* main.  Returning destroys the endpoints that were created, the one of   *)
(* the agent first.                                                        *)
Return ==
  IF m_status[1] = "none" THEN main' = "exit" /\ UNCHANGED channel
  ELSE /\ main' = "destroy"
       /\ channel' = IF m_status[2] = "none" THEN 1 ELSE 2

Goto(place, c) == main' = place /\ channel' = c

(* The next step, for both channels in turn.                               *)
Then(place) == IF channel = 1 THEN Goto(main, 2) ELSE Goto(place, 1)

CheckFile ==
  /\ main = "stat"
  /\ Goto("connect", 1) \/ Return
  /\ UNCHANGED <<bufSize, sendItToFirstChannel, m_status, m_recent, netVars>>

(* websocket_endpoint::connect: the attempt may be refused at once, which  *)
(* leaves an endpoint that has no connection.                              *)
Connect ==
  /\ main = "connect"
  /\ \/ /\ m_status' = [m_status EXCEPT ![channel] = "Connecting"]
        /\ link' = [link EXCEPT ![channel] = "connecting"]
        /\ Goto("checkOpen", channel)
     \/ /\ m_status' = [m_status EXCEPT ![channel] = "refused"]
        /\ Goto("destroy", channel)
        /\ UNCHANGED link
  /\ UNCHANGED <<bufSize, sendItToFirstChannel, m_recent, wire, answers, received, faults>>

(* After three seconds.                                                    *)
CheckOpen ==
  /\ main = "checkOpen"
  /\ IF m_status[channel] # "Open" THEN Return
     ELSE IF channel = 1 THEN Goto("connect", 2)
     ELSE Goto("start", 1)
  /\ UNCHANGED <<bufSize, sendItToFirstChannel, m_status, m_recent, netVars>>

(* send and sendBinary: nothing is sent, and nobody told, if the           *)
(* connection is not open any more.                                        *)
Send(c, message) ==
  wire' = IF link[c] = "up" THEN [wire EXCEPT ![c] = Append(@, message)] ELSE wire

SendStart ==
  /\ main = "start"
  /\ Send(channel, Start)
  /\ Then("checkListening")
  /\ UNCHANGED <<bufSize, sendItToFirstChannel, m_status, m_recent, link, answers,
                 received, faults>>

(* Slip: the response of the first channel is looked at twice.             *)
CheckFirstResponse ==
  /\ main = "checkListening"
  /\ IF m_recent[1] THEN Then("audio") ELSE Return
  /\ UNCHANGED <<bufSize, sendItToFirstChannel, m_status, m_recent, netVars>>

(* After five seconds.                                                     *)
CheckListening ==
  /\ main = "checkListening"
  /\ IF m_recent[channel] THEN Then("audio") ELSE Return
  /\ UNCHANGED <<bufSize, sendItToFirstChannel, m_status, m_recent, netVars>>

(* Slip: the last block is as long as the others.                          *)
FullBlock == audioBlockSize

Block == IF bufSize >= audioBlockSize THEN audioBlockSize ELSE bufSize

SendAudio ==
  /\ main = "audio"
  /\ bufSize > 0
  /\ Send(IF sendItToFirstChannel THEN 1 ELSE 2, Audio(FileSize - bufSize, Block))
  /\ bufSize' = bufSize - Block
  /\ sendItToFirstChannel' = ~sendItToFirstChannel
  /\ UNCHANGED <<main, channel, m_status, m_recent, link, answers, received, faults>>

AudioSent ==
  /\ main = "audio"
  /\ bufSize <= 0
  /\ Goto("stop", 1)
  /\ UNCHANGED <<bufSize, sendItToFirstChannel, m_status, m_recent, netVars>>

SendStop ==
  /\ main = "stop"
  /\ Send(channel, Stop)
  /\ Then("close")
  /\ UNCHANGED <<bufSize, sendItToFirstChannel, m_status, m_recent, link, answers,
                 received, faults>>

(* Closing a connection that is open starts the closing handshake.         *)
StartClosing(c) ==
  link' = [link EXCEPT ![c] = IF @ = "up" THEN "closing" ELSE @]

Close ==
  /\ main = "close"
  /\ StartClosing(channel)
  /\ IF channel = 1 THEN Goto("close", 2) ELSE Return
  /\ UNCHANGED <<bufSize, sendItToFirstChannel, m_status, m_recent, wire, answers,
                 received, faults>>

(* Slip: the destructor leaves connections alone.                          *)
DestroyWithoutClosing ==
  /\ main = "destroy"
  /\ Goto("join", channel)
  /\ UNCHANGED <<bufSize, sendItToFirstChannel, m_status, m_recent, netVars>>

(* ~websocket_endpoint: only a connection whose status is Open is closed,  *)
(* and the thread ends when its connection is gone.                        *)
Destroy ==
  /\ main = "destroy"
  /\ Goto("join", channel)
  /\ IF m_status[channel] = "Open" THEN StartClosing(channel) ELSE UNCHANGED link
  /\ UNCHANGED <<bufSize, sendItToFirstChannel, m_status, m_recent, wire, answers,
                 received, faults>>

Join ==
  /\ main = "join"
  /\ link[channel] \in {"none", "gone"}
  /\ IF channel = 2 THEN Goto("destroy", 1) ELSE Goto("exit", 1)
  /\ UNCHANGED <<bufSize, sendItToFirstChannel, m_status, m_recent, netVars>>

Main ==
  \/ CheckFile \/ Connect \/ CheckOpen \/ SendStart \/ CheckListening
  \/ SendAudio \/ AudioSent \/ SendStop \/ Close \/ Destroy \/ Join

-----------------------------------------------------------------------------
(* The thread of a connection: the handlers of connection_metadata.        *)
OnOpen(c) ==
  /\ link[c] = "connecting"
  /\ link' = [link EXCEPT ![c] = "up"]
  /\ m_status' = [m_status EXCEPT ![c] = "Open"]
  /\ UNCHANGED <<mainVars, m_recent, wire, answers, received, faults>>

OnFail(c) ==
  /\ link[c] = "connecting"
  /\ link' = [link EXCEPT ![c] = "gone"]
  /\ m_status' = [m_status EXCEPT ![c] = "Failed"]
  /\ UNCHANGED <<mainVars, m_recent, wire, answers, received, faults>>

OnMessage(c) ==
  /\ link[c] \in {"up", "closing"}
  /\ answers[c] > 0
  /\ answers' = [answers EXCEPT ![c] = @ - 1]
  /\ m_recent' = [m_recent EXCEPT ![c] = TRUE]
  /\ UNCHANGED <<mainVars, m_status, link, wire, received, faults>>

Closed(c) ==
  /\ link' = [link EXCEPT ![c] = "gone"]
  /\ m_status' = [m_status EXCEPT ![c] = "Closed"]
  /\ wire' = [wire EXCEPT ![c] = <<>>]
  /\ answers' = [answers EXCEPT ![c] = 0]
  /\ UNCHANGED <<mainVars, m_recent, received>>

(* The handshake is done when the server has read all that was sent; a     *)
(* connection that breaks loses what is on its way.                        *)
OnClose(c) ==
  /\ link[c] = "closing"
  /\ wire[c] = <<>>
  /\ Closed(c)
  /\ UNCHANGED faults

OnBreak(c) ==
  /\ link[c] \in {"up", "closing"}
  /\ faults < MaxFaults
  /\ faults' = faults + 1
  /\ Closed(c)

(* External: the server reads what was sent and answers a start.           *)
ServerReads(c) ==
  /\ wire[c] # <<>>
  /\ received' = [received EXCEPT ![c] = Append(@, Head(wire[c]))]
  /\ wire' = [wire EXCEPT ![c] = Tail(@)]
  /\ answers' = [answers EXCEPT ![c] = IF Head(wire[c]) = Start THEN @ + 1 ELSE @]
  /\ UNCHANGED <<mainVars, m_status, m_recent, link, faults>>

Handler(c) == OnOpen(c) \/ OnFail(c) \/ OnMessage(c) \/ OnClose(c)

Next == Main \/ \E c \in Channel : Handler(c) \/ OnBreak(c) \/ ServerReads(c)

Spec == Init /\ [][Next]_vars

(* Threads that are not blocked run on.  The library ends an attempt to    *)
(* open or to close a connection after a time, and the server reads.  No   *)
(* connection has to break.                                                *)
FairSpec ==
  /\ Spec
  /\ WF_vars(Main)
  /\ \A c \in Channel : WF_vars(Handler(c)) /\ WF_vars(ServerReads(c))

-----------------------------------------------------------------------------
(* Every message of a connection, read or still on its way.                *)
Sent(c) == received[c] \o wire[c]

(* "Start STT session established on two channels": no audio is sent       *)
(* before the server has both sessions, whatever the connections do in     *)
(* the meantime, and every connection carries start, audio, stop in order. *)
HasStarted(c) == received[c] # <<>> /\ Head(received[c]) = Start

AudioAfterBothStarted ==
  \A c \in Channel : \A i \in DOMAIN Sent(c) :
    LET m == Sent(c)[i]
    IN  /\ m = Start <=> i = 1
        /\ m.kind = "audio" => HasStarted(1) /\ HasStarted(2)
        /\ m = Stop => i = Len(Sent(c))

(* The two channels share the file: no byte is sent twice, each channel    *)
(* gets its blocks in order, and if no connection breaks every byte that   *)
(* was read is on its way to one of them.                                  *)
Bytes(m) == {m.from + k : k \in 0 .. m.size - 1}

BytesOf(c) ==
  UNION {Bytes(Sent(c)[i]) : i \in {j \in DOMAIN Sent(c) : Sent(c)[j].kind = "audio"}}

AudioSharedOut ==
  /\ BytesOf(1) \intersect BytesOf(2) = {}
  /\ \A c \in Channel : \A i, j \in DOMAIN Sent(c) :
       i < j /\ Sent(c)[i].kind = "audio" /\ Sent(c)[j].kind = "audio"
         => Sent(c)[i].from + Sent(c)[i].size <= Sent(c)[j].from
  /\ BytesOf(1) \union BytesOf(2) \subseteq 0 .. FileSize - 1
  /\ faults = 0 => BytesOf(1) \union BytesOf(2) = 0 .. FileSize - bufSize - 1

(* "We can exit now."  The program ends, unless main has given a           *)
(* connection up that may still be opened: the destructor has not closed   *)
(* it, and joins a thread that runs as long as the server keeps it.        *)
GivenUp(c) == main = "join" /\ channel = c /\ link[c] = "connecting"

SimulatorEnds == <>(main = "exit" \/ \E c \in Channel : GivenUp(c))

=============================================================================
