----------------------------- MODULE PacketStream -----------------------------
(***************************************************************************)
(* The byte stream of a session and the packets made of it: the framing of *)
(* TcpClient::handleReceive and handlePacket, the choice of a worker by    *)
(* UamPacketWorker::processByHandler and what the worker makes of the      *)
(* packet (WorkerBase::process, YRWorker::process).                        *)
(*                                                                         *)
(* The reader takes eleven bytes, the size of a header.  When they are not *)
(* a header it knows it takes the NEXT eleven: a message it cannot read    *)
(* leaves it at any offset of the messages that follow, and it finds a     *)
(* header again only when a message happens to start at a multiple of      *)
(* eleven bytes from there.                                                *)
(*                                                                         *)
(* A message is kept as what the code looks at.  The rest of a packet is   *)
(* hexadecimal text, in which no R, I or V can pass for a header, so a     *)
(* window that is not the start of a message is never accepted.            *)
(***************************************************************************)
EXTENDS UamProtocol

CONSTANTS
  ForeignSizes   \* lengths of the messages that are no packet of the protocol

ASSUME ForeignSizesAssumption ==
  ForeignSizes \subseteq {n \in Nat : n >= CommandReplyHeader}

VARIABLES
  stream,    \* the subscription whose scans arrive
  current,   \* the message that arrives
  following, \* the message after it, when the window reaches into it
  taken,     \* bytes of the current message that were read
  phase,     \* the read that is outstanding: "header" or "body"
  received,  \* bytes of receive_buffer_ that the last read has filled
  lost,      \* scans in a row that passed without being seen
  outcome    \* the packet just handled and what its worker made of it

streamVars == <<stream, current, following, taken, phase, received, lost, outcome>>

----------------------------------------------------------------------------
(* Messages *)

\* The scans that a subscription brings have the subscription's own header.
ScanOf(subscription) ==
  CASE subscription = "AR02" -> "AR00"
    [] subscription = "AR04" -> "AR01"
    [] OTHER                 -> "AR06"

ScanSize(subscription) == ReplySize(ScanOf(subscription))

\* "AR99": a header the filter accepts and no worker; "text": any other.
Commands == Workers \cup {"AR99", "text"}
\* "corrupt": the checksum does not match, or is none.
Kinds    == {"good", "error", "corrupt"}
Message  == [cmd : Commands, size : Nat, kind : Kinds]

Sent(cmd, size, kind) == [cmd |-> cmd, size |-> size, kind |-> kind]

NoMessage == Sent("none", 0, "corrupt")
NoOutcome == [message |-> NoMessage, worker |-> "none", result |-> "none"]

\* An error reply ends after its status.
ErrorSize(worker) ==
  IF worker = "YR" THEN YRCommandReplyHeader + CommandFooter ELSE EmptyReply

Answers == {Sent(worker, ReplySize(worker), "good") : worker \in Workers}
Errors  == {Sent(worker, ErrorSize(worker), "error") : worker \in Workers}
Scan(kind) == Sent(stream, ScanSize(stream), kind)

Foreign ==
  {Sent("text", size, "corrupt") : size \in ForeignSizes}
    \cup {Sent("AR99", EmptyReply, "good")}
    \cup {Sent("AR01", LargestReply + 1, "good")}

Messages == Answers \cup Errors \cup {Scan("good"), Scan("corrupt")} \cup Foreign

Sound(message)  == message.kind # "corrupt"
IsScan(message) == message.cmd = stream /\ message.size = ScanSize(stream)

----------------------------------------------------------------------------
(* The workers *)

\* UamPacketWorker::processByHandler: the size tells a scan from the reply to
\* the subscription.
WorkerOf(message) ==
  IF message.cmd \in Subscriptions /\ message.size = ScanSize(message.cmd)
  THEN ScanOf(message.cmd)
  ELSE message.cmd

\* validateCrc(buffer, false): gives up unless the footer is all there is.
CrcWithoutSize(worker, message) ==
  ReplySize(worker) - 1 - CommandFooter = 0 /\ Sound(message)

\* Mutant: the status is not looked at.
ProcessAnyStatus(worker, message) ==
  IF worker \notin Workers THEN "unknown"
  ELSE IF worker # "YR" /\ (message.size # ReplySize(worker) \/ ~Sound(message))
       THEN "dropped" ELSE "decoded"

\* WorkerBase::process; YRWorker::process decodes whatever the buffer holds.
Process(worker, message) ==
  LET validSize == message.size = ReplySize(worker)
      validCrc  == IF validSize THEN Sound(message) ELSE CrcWithoutSize(worker, message)
  IN CASE worker \notin Workers     -> "unknown"
       [] worker = "YR"             -> "decoded"
       [] OTHER -> IF validCrc /\ message.kind = "error" THEN "refused"
                   ELSE IF validSize /\ validCrc THEN "decoded" ELSE "dropped"

----------------------------------------------------------------------------
(* The reader *)

ShortestSize(message) == IF message.cmd = "text" THEN CommandReplyHeader ELSE EmptyReply

Framed == {message \in Message : message.size >= ShortestSize(message)}

WireTyped ==
  /\ stream \in Subscriptions
  /\ current \in Framed \cup {NoMessage} /\ following \in Framed \cup {NoMessage}
  /\ current = NoMessage => following = NoMessage

ReadTyped ==
  /\ taken \in Nat /\ (current = NoMessage => taken = 0)
  /\ current # NoMessage => taken < current.size
  /\ phase \in {"header", "body"} /\ (phase = "body" => current # NoMessage)
  /\ received \in Nat /\ lost \in Nat

Outcomes == [message : Message \cup {NoMessage}, worker : Commands \cup {"none"},
             result : {"none", "unknown", "dropped", "refused", "decoded"}]

TypeOKStream == WireTyped /\ ReadTyped /\ outcome \in Outcomes

StreamInit ==
  /\ stream \in Subscriptions
  /\ current = NoMessage /\ following = NoMessage /\ taken = 0 /\ phase = "header"
  /\ received = 0 /\ lost = 0
  /\ outcome = NoOutcome

\* The peer sends.  Nothing depends on how early, so a message arrives when
\* the reader waits for bytes of it.
ArriveBytes ==
  /\ phase = "header"
  /\ \E message \in Messages :
       \/ current = NoMessage /\ current' = message /\ UNCHANGED following
       \/ /\ current # NoMessage /\ following = NoMessage
          /\ current.size - taken < CommandReplyHeader
          /\ following' = message /\ UNCHANGED current
  /\ UNCHANGED <<stream, taken, phase, received, lost, outcome>>

\* The last byte of the current message was read.
Passed == current' = following /\ following' = NoMessage

WindowArrived ==
  /\ phase = "header" /\ current # NoMessage
  /\ following # NoMessage \/ current.size - taken >= CommandReplyHeader

\* Mutant: any size is believed.
AcceptedAnySize == taken = 0 /\ current.cmd # "text"

\* filter_callback_ knows the two letters, and the packet fits the buffer.
Accepted == taken = 0 /\ current.cmd # "text" /\ current.size <= LargestReply

\* handleReceive: the rest of the packet is read next.
HeaderAccepted ==
  /\ WindowArrived /\ Accepted
  /\ taken' = CommandReplyHeader /\ phase' = "body"
  /\ received' = CommandReplyHeader /\ outcome' = NoOutcome
  /\ UNCHANGED <<stream, current, following, lost>>

\* Mutant: the size of the header of a request, which has no status.
HeaderSkippedByNine ==
  /\ WindowArrived /\ ~Accepted
  /\ LET past == taken + CommandReplyHeader - 2 - current.size IN
       IF past < 0
       THEN taken' = taken + CommandReplyHeader - 2 /\ UNCHANGED <<current, following, lost>>
       ELSE /\ taken' = past /\ Passed
            /\ lost' = IF IsScan(current) THEN lost + 1 ELSE 0
  /\ received' = CommandReplyHeader /\ outcome' = NoOutcome
  /\ UNCHANGED <<stream, phase>>

\* handleReceive: "could not make sense of it, skipping it", or a size that no
\* packet has: the next eleven bytes are read over these.
HeaderSkipped ==
  /\ WindowArrived /\ ~Accepted
  /\ LET past == taken + CommandReplyHeader - current.size IN
       IF past < 0
       THEN taken' = taken + CommandReplyHeader /\ UNCHANGED <<current, following, lost>>
       ELSE /\ taken' = past /\ Passed
            /\ lost' = IF IsScan(current) THEN lost + 1 ELSE 0
  /\ received' = CommandReplyHeader /\ outcome' = NoOutcome
  /\ UNCHANGED <<stream, phase>>

\* handlePacket: callback_ with the buffer, and back to the header.
PacketReceived ==
  /\ phase = "body"
  /\ received' = current.size
  /\ LET worker == WorkerOf(current) IN
       outcome' = [message |-> current, worker |-> worker,
                   result |-> Process(worker, current)]
  /\ Passed /\ taken' = 0 /\ phase' = "header" /\ lost' = 0
  /\ UNCHANGED stream

StreamNext == ArriveBytes \/ HeaderAccepted \/ HeaderSkipped \/ PacketReceived

StreamSpec == StreamInit /\ [][StreamNext]_streamVars

----------------------------------------------------------------------------
(* Properties *)

\* Whatever cannot be read is made up for: after a message that leaves the
\* reader in the middle of the stream, ten scans in a row may pass unseen and
\* never an eleventh, because the sizes of the three scans (4379, 8703, 8699)
\* are coprime to the eleven bytes of a window.
ResynchronisesInTen == lost <= 10

\* A packet never writes past receive_buffer_, which holds the largest reply.
PacketFitsBuffer == received <= LargestReply

\* What a worker other than YR hands over is a reply of its own command that
\* arrived whole, with its checksum and status right: a shared buffer and a
\* header with two meanings never pass one reply off as another.
DecodedIsOwnReply ==
  outcome.result = "decoded" /\ outcome.worker # "YR" =>
    /\ outcome.message.kind = "good"
    /\ outcome.message.size = ReplySize(outcome.worker)
    /\ outcome.message.cmd = outcome.worker
         \/ outcome.worker = ScanOf(outcome.message.cmd)

\* uam_worker_base.h: "despite not receiving the expected message we received
\* something valid and we should call validateStatus to get why": an error
\* reply to any command has its status reported, and is passed on as no data.
ErrorIsReported ==
  outcome.message \in Errors => outcome.result = "refused"

=============================================================================
