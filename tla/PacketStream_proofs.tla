--------------------------- MODULE PacketStream_proofs ---------------------------
(***************************************************************************)
(* The reader of PacketStream, for messages of any length.                 *)
(*                                                                         *)
(* A reader that is off by r bytes from the start of a scan, counted in    *)
(* windows of eleven, is off by r - ScanSize from the start of the next    *)
(* one.  InverseOfSize is the inverse of ScanSize modulo eleven, so        *)
(* r * InverseOfSize modulo eleven goes down by one with every scan        *)
(* (ScanBringsCloser) and the scan at which it is zero is read.  It is ten *)
(* at most to begin with.                                                  *)
(***************************************************************************)
EXTENDS PacketStream, TLAPS

InverseOfSize(subscription) ==
  CASE subscription = "AR02" -> 1 [] subscription = "AR04" -> 6 [] OTHER -> 5

\* Scans that pass before one is read, when the reader is this far in.
ScansToGo(subscription, offset) == (offset * InverseOfSize(subscription)) % 11

SkipsScan == current # NoMessage /\ phase = "header" /\ IsScan(current)

StreamInv ==
  /\ TypeOKStream
  /\ ResynchronisesInTen
  /\ SkipsScan => /\ lost + ScansToGo(stream, taken % 11) <= 10
                  /\ taken = 0 \/ taken % 11 # 0
  /\ PacketFitsBuffer
  /\ phase = "body" => current.size <= LargestReply

----------------------------------------------------------------------------
\* The sizes of the three scans.
LEMMA ScanSizes ==
  ASSUME NEW s \in Subscriptions
  PROVE  /\ ScanSize(s) = IF s = "AR02" THEN 4379 ELSE IF s = "AR04" THEN 8703 ELSE 8699
         /\ LargestReply = 8703 /\ CommandReplyHeader = 11
BY DEF Subscriptions, ScanSize, ScanOf, ReplySize, LargestReply, Body, CommandReplyHeader,
       CommandFooter, SensingDataHeader, SensingFields, StateFields, Reading,
       c_nr_ranges, c_nr_ranges_multiecho

\* A scan that passes brings the reader one scan closer to the one it reads.
LEMMA ScanBringsCloser ==
  ASSUME NEW s \in Subscriptions, NEW n \in Nat,
         n < ScanSize(s), n + 11 - ScanSize(s) >= 0, n % 11 # 0
  PROVE  /\ n + 11 - ScanSize(s) \in 0..10
         /\ ScansToGo(s, (n + 11 - ScanSize(s)) % 11) = ScansToGo(s, n % 11) - 1
<1>1. CASE s = "AR02"
  <2>1. ScanSize(s) = 4379 BY <1>1, ScanSizes
  <2> QED BY <1>1, <2>1 DEF ScansToGo, InverseOfSize
<1>2. CASE s = "AR04"
  <2>1. ScanSize(s) = 8703 BY <1>2, ScanSizes
  <2> QED BY <1>2, <2>1 DEF ScansToGo, InverseOfSize
<1>3. CASE s = "AR07"
  <2>1. ScanSize(s) = 8699 BY <1>3, ScanSizes
  <2> QED BY <1>3, <2>1 DEF ScansToGo, InverseOfSize
<1> QED BY <1>1, <1>2, <1>3 DEF Subscriptions

\* However far in the reader is, there are ten scans to go at most.
LEMMA TenAtMost ==
  ASSUME NEW s \in Subscriptions, NEW n \in Nat
  PROVE  ScansToGo(s, n % 11) \in 0..10
BY DEF ScansToGo, InverseOfSize, Subscriptions

LEMMA NoneAtTheStart ==
  ASSUME NEW s \in Subscriptions
  PROVE  ScansToGo(s, 0 % 11) = 0
BY DEF ScansToGo, InverseOfSize, Subscriptions
----------------------------------------------------------------------------
\* Every reply is longer than the header.
LEMMA ReplySizes ==
  ASSUME NEW worker
  PROVE  ReplySize(worker) \in Nat /\ ReplySize(worker) >= 16
BY DEF ReplySize, Body, CommandReplyHeader, CommandFooter, SensingDataHeader, SensingFields,
       StateFields, StatusData, StatusFields, SlaveStates, VersionDetails, ConfigurationID,
       YRCommandReplyHeader, Reading, c_nr_ranges, c_nr_ranges_multiecho

LEMMA SentTyped ==
  ASSUME NEW cmd \in Commands, NEW size \in Nat, NEW kind \in Kinds,
         size >= 16 \/ (cmd = "text" /\ size >= 11)
  PROVE  Sent(cmd, size, kind) \in Framed
<1>1. EmptyReply = 16 /\ CommandReplyHeader = 11
  BY DEF EmptyReply, CommandReplyHeader, CommandFooter
<1>2. size >= IF cmd = "text" THEN CommandReplyHeader ELSE EmptyReply
  BY <1>1
<1> QED BY <1>2, Zenon DEF Sent, ShortestSize, Message, Framed

\* What the peer sends is a message, and no shorter than a header.
LEMMA MessagesTyped ==
  ASSUME stream \in Subscriptions, NEW m \in Messages
  PROVE  m \in Framed
<1>1. CASE m \in Answers
  <2> PICK w \in Workers : m = Sent(w, ReplySize(w), "good")
    BY <1>1, Zenon DEF Answers
  <2>1. ReplySize(w) \in Nat /\ ReplySize(w) >= 16 /\ w \in Commands
    BY ReplySizes DEF Commands
  <2> QED BY <2>1, SentTyped DEF Kinds
<1>2. CASE m \in Errors
  <2> PICK w \in Workers : m = Sent(w, ErrorSize(w), "error")
    BY <1>2, Zenon DEF Errors
  <2>1. ErrorSize(w) \in Nat /\ ErrorSize(w) >= 16 /\ w \in Commands
    BY DEF ErrorSize, YRCommandReplyHeader, CommandFooter, EmptyReply, CommandReplyHeader, Commands
  <2> QED BY <2>1, SentTyped DEF Kinds
<1>3. CASE m \in {Scan("good"), Scan("corrupt")}
  <2>1. PICK kind \in Kinds : m = Sent(stream, ScanSize(stream), kind)
    BY <1>3 DEF Scan, Kinds
  <2>2. ScanSize(stream) \in Nat /\ ScanSize(stream) >= 16
    BY ReplySizes DEF ScanSize
  <2>3. stream \in Commands
    BY DEF Commands, Workers, EmptyReplies
  <2> QED BY <2>1, <2>2, <2>3, SentTyped DEF Kinds
<1>4. CASE m \in Foreign
  <2>1. CASE \E n \in ForeignSizes : m = Sent("text", n, "corrupt")
    <3> PICK n \in ForeignSizes : m = Sent("text", n, "corrupt")
      BY <2>1
    <3>1. n \in Nat /\ n >= 11 /\ "text" \in Commands
      BY ForeignSizesAssumption DEF CommandReplyHeader, Commands
    <3> QED BY <3>1, SentTyped DEF Kinds
  <2>2. CASE m = Sent("AR99", EmptyReply, "good")
    <3>1. EmptyReply \in Nat /\ EmptyReply >= 16 /\ "AR99" \in Commands
      BY DEF EmptyReply, CommandReplyHeader, CommandFooter, Commands
    <3> QED BY <2>2, <3>1, SentTyped DEF Kinds
  <2>3. CASE m = Sent("AR01", LargestReply + 1, "good")
    <3>1. LargestReply + 1 \in Nat /\ LargestReply + 1 >= 16
      BY ReplySizes DEF LargestReply
    <3>2. "AR01" \in Commands
      BY DEF Commands, Workers, Scans
    <3> QED BY <2>3, <3>1, <3>2, SentTyped DEF Kinds
  <2> QED BY <1>4, <2>1, <2>2, <2>3, Zenon DEF Foreign
<1> QED BY <1>1, <1>2, <1>3, <1>4, Zenon DEF Messages

\* A framed message is no shorter than the window that its header fills.
LEMMA FramedSizes ==
  ASSUME NEW m \in Framed
  PROVE  /\ m \in Message /\ m.size \in Nat /\ m.size >= 11 /\ m # NoMessage
         /\ m.cmd # "text" => m.size >= 16
BY DEF Framed, Message, NoMessage, Sent, ShortestSize, EmptyReply, CommandReplyHeader, CommandFooter

LEMMA StreamInitially == StreamInit => StreamInv
<1> SUFFICES ASSUME StreamInit PROVE StreamInv
  OBVIOUS
<1>1. outcome \in Outcomes
  BY Zenon DEF StreamInit, NoOutcome, Outcomes
<1>2. WireTyped /\ ReadTyped
  BY DEF StreamInit, WireTyped, ReadTyped
<1> QED BY <1>1, <1>2, ReplySizes DEF StreamInit, StreamInv, TypeOKStream, ResynchronisesInTen,
           SkipsScan, PacketFitsBuffer, LargestReply

LEMMA ArriveKeepsInv ==
  ASSUME StreamInv, ArriveBytes
  PROVE  StreamInv'
<1>1. UNCHANGED <<stream, taken, phase, received, lost, outcome>> /\ phase = "header"
  BY DEF ArriveBytes
<1>2. TypeOKStream /\ stream \in Subscriptions
  BY DEF StreamInv, TypeOKStream, WireTyped
<1>3. (outcome \in Outcomes)'
  BY <1>1, <1>2 DEF TypeOKStream
<1>4. CASE current = NoMessage
  <2>1. PICK m \in Framed : current' = m /\ UNCHANGED following
    BY <1>2, <1>4, MessagesTyped DEF ArriveBytes
  <2>2. m.size \in Nat /\ m.size >= 11 /\ m # NoMessage
    BY FramedSizes
  <2>3. taken = 0 /\ following = NoMessage
    BY <1>2, <1>4 DEF TypeOKStream, ReadTyped, WireTyped
  <2>4. WireTyped' /\ ReadTyped'
    BY <1>1, <1>2, <2>1, <2>2, <2>3 DEF TypeOKStream, WireTyped, ReadTyped
  <2> QED BY <1>1, <1>2, <1>3, <2>3, <2>4, NoneAtTheStart
          DEF StreamInv, SkipsScan, ResynchronisesInTen, PacketFitsBuffer, TypeOKStream, ReadTyped
<1>5. CASE current # NoMessage
  <2>1. PICK m \in Framed : following' = m /\ UNCHANGED current
    BY <1>2, <1>5, MessagesTyped DEF ArriveBytes
  <2>2. WireTyped' /\ ReadTyped'
    BY <1>1, <1>2, <1>5, <2>1 DEF TypeOKStream, WireTyped, ReadTyped
  <2> QED BY <1>1, <1>3, <2>1, <2>2
          DEF StreamInv, SkipsScan, IsScan, ResynchronisesInTen, PacketFitsBuffer, TypeOKStream
<1> QED BY <1>4, <1>5

LEMMA AcceptedKeepsInv ==
  ASSUME StreamInv, HeaderAccepted
  PROVE  StreamInv'
<1>1. /\ current # NoMessage /\ current.cmd # "text" /\ current.size <= LargestReply
      /\ phase' = "body" /\ taken' = 11 /\ received' = 11 /\ outcome' = NoOutcome
      /\ UNCHANGED <<stream, current, following, lost>>
  BY DEF HeaderAccepted, WindowArrived, Accepted, CommandReplyHeader
<1>2. current \in Framed
  BY <1>1 DEF StreamInv, TypeOKStream, WireTyped
<1>3. current.size \in Nat /\ current.size >= 16
  BY <1>1, <1>2, FramedSizes
<1>4. WireTyped' /\ ReadTyped'
  BY <1>1, <1>3 DEF StreamInv, TypeOKStream, WireTyped, ReadTyped
<1>5. (outcome \in Outcomes)'
  BY <1>1, Zenon DEF NoOutcome, Outcomes
<1>6. LargestReply \in Nat /\ LargestReply >= 11
  BY ReplySizes DEF LargestReply
<1> QED BY <1>1, <1>4, <1>5, <1>6
        DEF StreamInv, TypeOKStream, SkipsScan, ResynchronisesInTen, PacketFitsBuffer

LEMMA ReceivedKeepsInv ==
  ASSUME StreamInv, PacketReceived
  PROVE  StreamInv'
<1>1. /\ phase = "body" /\ current.size <= LargestReply /\ received' = current.size
      /\ current' = following /\ following' = NoMessage /\ taken' = 0
      /\ phase' = "header" /\ lost' = 0 /\ stream' = stream
  BY DEF PacketReceived, Passed, StreamInv
<1>2. current \in Framed /\ stream \in Subscriptions
  BY <1>1 DEF StreamInv, TypeOKStream, WireTyped, ReadTyped
<1>3. current \in Message /\ current.size \in Nat
  BY <1>2, FramedSizes
<1>4. WireTyped'
  BY <1>1 DEF StreamInv, TypeOKStream, WireTyped
<1>5. ReadTyped'
  <2>1. CASE following = NoMessage
    BY <1>1, <1>3, <2>1 DEF ReadTyped
  <2>2. CASE following \in Framed
    BY <1>1, <1>3, <2>2, FramedSizes DEF ReadTyped
  <2> QED BY <2>1, <2>2 DEF StreamInv, TypeOKStream, WireTyped
<1>6. (outcome \in Outcomes)'
  <2>1. WorkerOf(current) \in Commands
    BY <1>3 DEF WorkerOf, ScanOf, Commands, Workers, Scans, Message
  <2>2. Process(WorkerOf(current), current)
          \in {"none", "unknown", "dropped", "refused", "decoded"}
    BY DEF Process
  <2> QED BY <1>3, <2>1, <2>2 DEF PacketReceived, Outcomes
<1>7. ScansToGo(stream, 0 % 11) = 0
  BY <1>2, NoneAtTheStart
<1> QED BY <1>1, <1>4, <1>5, <1>6, <1>7
        DEF StreamInv, TypeOKStream, SkipsScan, ResynchronisesInTen, PacketFitsBuffer

\* A scan that the reader meets at its first byte is not skipped.
LEMMA ScanIsAccepted ==
  ASSUME stream \in Subscriptions, IsScan(current), taken = 0
  PROVE  Accepted
<1>1. current.size <= LargestReply
  BY ScanSizes DEF IsScan
<1>2. current.cmd # "text"
  BY DEF IsScan, Subscriptions
<1> QED BY <1>1, <1>2 DEF Accepted

\* The reader stays in the message it cannot read.
LEMMA SkippedWithinKeepsInv ==
  ASSUME StreamInv, HeaderSkipped, taken + 11 - current.size < 0
  PROVE  StreamInv'
<1>1. /\ phase = "header" /\ current # NoMessage /\ ~Accepted
      /\ taken' = taken + 11 /\ received' = 11 /\ outcome' = NoOutcome
      /\ UNCHANGED <<stream, current, following, lost, phase>>
  BY DEF HeaderSkipped, WindowArrived, CommandReplyHeader
<1>2. current \in Framed /\ stream \in Subscriptions /\ taken \in Nat
  BY <1>1 DEF StreamInv, TypeOKStream, WireTyped, ReadTyped
<1>3. current.size \in Nat
  BY <1>2, FramedSizes
<1>4. WireTyped' /\ ReadTyped'
  BY <1>1, <1>2, <1>3 DEF StreamInv, TypeOKStream, WireTyped, ReadTyped
<1>5. (outcome \in Outcomes)'
  BY <1>1, Zenon DEF NoOutcome, Outcomes
<1>6. LargestReply \in Nat /\ LargestReply >= 11
  BY ReplySizes DEF LargestReply
<1>7. taken' % 11 = taken % 11
  BY <1>1, <1>2
<1>8. ASSUME SkipsScan
      PROVE  taken % 11 # 0
  <2>1. taken # 0
    BY <1>1, <1>2, <1>8, ScanIsAccepted DEF SkipsScan
  <2> QED BY <1>8, <2>1 DEF StreamInv
<1>9. SkipsScan' = SkipsScan
  BY <1>1 DEF SkipsScan, IsScan
<1> QED BY <1>1, <1>4, <1>5, <1>6, <1>7, <1>8, <1>9
        DEF StreamInv, TypeOKStream, ResynchronisesInTen, PacketFitsBuffer

\* The reader passes the message it cannot read.
LEMMA SkippedPastKeepsInv ==
  ASSUME StreamInv, HeaderSkipped, taken + 11 - current.size >= 0
  PROVE  StreamInv'
<1> DEFINE past == taken + 11 - current.size
<1>0. ~(past < 0) /\ CommandReplyHeader = 11
  <2>1. current \in Framed /\ taken \in Nat
    BY DEF HeaderSkipped, WindowArrived, StreamInv, TypeOKStream, WireTyped, ReadTyped
  <2> QED BY <2>1, FramedSizes DEF CommandReplyHeader
<1>1. /\ phase = "header" /\ current # NoMessage /\ ~Accepted
      /\ taken' = past /\ received' = 11 /\ outcome' = NoOutcome
      /\ current' = following /\ following' = NoMessage
      /\ lost' = IF IsScan(current) THEN lost + 1 ELSE 0
      /\ UNCHANGED <<stream, phase>>
  BY <1>0 DEF HeaderSkipped, WindowArrived, Passed
<1>2. /\ current \in Framed /\ stream \in Subscriptions /\ taken \in Nat /\ lost \in Nat
      /\ following \in Framed \cup {NoMessage} /\ taken < current.size
  BY <1>1 DEF StreamInv, TypeOKStream, WireTyped, ReadTyped
<1>3. current.size \in Nat
  BY <1>2, FramedSizes
<1>4. past \in Nat /\ past < 11 /\ past % 11 = past
  BY <1>2, <1>3
<1>5. following = NoMessage => past = 0
  BY <1>1, <1>2, <1>3 DEF HeaderSkipped, WindowArrived, CommandReplyHeader
<1>6. WireTyped'
  BY <1>1 DEF StreamInv, TypeOKStream, WireTyped
<1>7. ReadTyped'
  <2>1. CASE following = NoMessage
    BY <1>1, <1>2, <1>4, <1>5, <2>1 DEF ReadTyped
  <2>2. CASE following \in Framed
    BY <1>1, <1>2, <1>4, <2>2, FramedSizes DEF ReadTyped
  <2> QED BY <1>2, <2>1, <2>2
<1>8. (outcome \in Outcomes)'
  BY <1>1, Zenon DEF NoOutcome, Outcomes
<1>9. LargestReply \in Nat /\ LargestReply >= 11
  BY ReplySizes DEF LargestReply
<1>10. lost' <= 10 /\ lost' + ScansToGo(stream, past % 11) <= 10
  <2>1. CASE ~IsScan(current)
    BY <1>1, <1>2, <1>4, <2>1, TenAtMost
  <2>2. CASE IsScan(current)
    <3>1. current.size = ScanSize(stream) /\ SkipsScan
      BY <1>1, <2>2 DEF IsScan, SkipsScan
    <3>2. taken # 0
      BY <1>1, <1>2, <3>1, ScanIsAccepted DEF SkipsScan
    <3>3. taken % 11 # 0 /\ lost + ScansToGo(stream, taken % 11) <= 10
      BY <3>1, <3>2 DEF StreamInv
    <3>4. ScansToGo(stream, past % 11) = ScansToGo(stream, taken % 11) - 1
      BY <1>2, <3>1, <3>3, ScanBringsCloser
    <3>5. ScansToGo(stream, taken % 11) \in 0..10 /\ ScansToGo(stream, past % 11) \in 0..10
      BY <1>2, <1>4, TenAtMost
    <3> QED BY <1>1, <1>2, <2>2, <3>3, <3>4, <3>5
  <2> QED BY <2>1, <2>2
<1>11. past = 0 \/ past % 11 # 0
  BY <1>4
<1> QED BY <1>1, <1>6, <1>7, <1>8, <1>9, <1>10, <1>11
        DEF StreamInv, TypeOKStream, SkipsScan, ResynchronisesInTen, PacketFitsBuffer

LEMMA StutterKeepsInv ==
  ASSUME StreamInv, UNCHANGED streamVars
  PROVE  StreamInv'
<1>1. UNCHANGED <<stream, current, following, taken, phase, received, lost, outcome>>
  BY DEF streamVars
<1>2. SkipsScan' = SkipsScan
  BY <1>1 DEF SkipsScan, IsScan
<1>3. TypeOKStream'
  BY <1>1 DEF StreamInv, TypeOKStream, WireTyped, ReadTyped
<1> QED BY <1>1, <1>2, <1>3 DEF StreamInv, ResynchronisesInTen, PacketFitsBuffer

LEMMA StreamStep == StreamInv /\ [StreamNext]_streamVars => StreamInv'
<1> SUFFICES ASSUME StreamInv, [StreamNext]_streamVars PROVE StreamInv'
  OBVIOUS
<1>1. CASE ArriveBytes
  BY <1>1, ArriveKeepsInv
<1>2. CASE HeaderAccepted
  BY <1>2, AcceptedKeepsInv
<1>3. CASE HeaderSkipped
  <2>1. taken \in Nat /\ current.size \in Nat
    BY <1>3, FramedSizes
       DEF HeaderSkipped, WindowArrived, StreamInv, TypeOKStream, WireTyped, ReadTyped
  <2>2. taken + 11 - current.size < 0 \/ taken + 11 - current.size >= 0
    BY <2>1
  <2> QED BY <1>3, <2>2, SkippedWithinKeepsInv, SkippedPastKeepsInv
<1>4. CASE PacketReceived
  BY <1>4, ReceivedKeepsInv
<1>5. CASE UNCHANGED streamVars
  BY <1>5, StutterKeepsInv
<1> QED BY <1>1, <1>2, <1>3, <1>4, <1>5 DEF StreamNext

LEMMA StreamInvariant == StreamSpec => []StreamInv
<1> QED BY StreamInitially, StreamStep, PTL DEF StreamSpec

----------------------------------------------------------------------------
\* Every state of the reader is of the types that the model gives it.
THEOREM StreamTyped == StreamSpec => []TypeOKStream
<1>1. StreamInv => TypeOKStream
  BY DEF StreamInv
<1> QED BY <1>1, StreamInvariant, PTL

\* Whatever the lengths of the messages that handleReceive cannot read, no
\* more than ten scans in a row pass unseen.
THEOREM Resynchronises == StreamSpec => []ResynchronisesInTen
<1>1. StreamInv => ResynchronisesInTen
  BY DEF StreamInv
<1> QED BY <1>1, StreamInvariant, PTL

\* A packet never writes past receive_buffer_, whatever size its header gives.
THEOREM BufferHolds == StreamSpec => []PacketFitsBuffer
<1>1. StreamInv => PacketFitsBuffer
  BY DEF StreamInv
<1> QED BY <1>1, StreamInvariant, PTL

----------------------------------------------------------------------------
\* What a worker other than YR makes of a message is data only when the
\* message is a good reply of its own size.
LEMMA ProcessDecodes ==
  ASSUME NEW message \in Message,
         Process(WorkerOf(message), message) = "decoded", WorkerOf(message) # "YR"
  PROVE  /\ message.kind = "good"
         /\ message.size = ReplySize(WorkerOf(message))
         /\ message.cmd = WorkerOf(message) \/ WorkerOf(message) = ScanOf(message.cmd)
<1> DEFINE worker == WorkerOf(message)
<1>1. worker \in Workers
  BY DEF Process
<1> DEFINE validSize == message.size = ReplySize(worker)
           validCrc  == IF validSize THEN Sound(message) ELSE CrcWithoutSize(worker, message)
<1>2. Process(worker, message) =
        IF validCrc /\ message.kind = "error" THEN "refused"
        ELSE IF validSize /\ validCrc THEN "decoded" ELSE "dropped"
  BY <1>1, Zenon DEF Process
<1>3. validSize /\ validCrc /\ message.kind # "error"
  BY <1>2
<1>4. message.kind = "good"
  BY <1>3 DEF Message, Kinds, Sound
<1>5. message.cmd = worker \/ worker = ScanOf(message.cmd)
  BY Zenon DEF WorkerOf
<1> QED BY <1>3, <1>4, <1>5

\* No reply is passed off as another, whatever the shared buffer holds and
\* whatever the sizes of the messages: DecodedIsOwnReply of every packet.
THEOREM DecodedIsAlwaysOwnReply == StreamSpec => []DecodedIsOwnReply
<1>1. StreamInit => DecodedIsOwnReply
  BY DEF StreamInit, NoOutcome, DecodedIsOwnReply
<1>2. StreamInv /\ DecodedIsOwnReply /\ [StreamNext]_streamVars => DecodedIsOwnReply'
  <2> SUFFICES ASSUME StreamInv, DecodedIsOwnReply, [StreamNext]_streamVars
               PROVE  DecodedIsOwnReply'
    OBVIOUS
  <2>1. CASE outcome' = outcome
    BY <2>1 DEF DecodedIsOwnReply
  <2>2. CASE outcome' = NoOutcome
    BY <2>2 DEF DecodedIsOwnReply, NoOutcome
  <2>3. CASE PacketReceived
    <3>1. current \in Message
      BY <2>3, FramedSizes DEF PacketReceived, StreamInv, TypeOKStream, WireTyped, ReadTyped
    <3>2. outcome' = [message |-> current, worker |-> WorkerOf(current),
                      result |-> Process(WorkerOf(current), current)]
      BY <2>3 DEF PacketReceived
    <3>3. /\ outcome'.message = current /\ outcome'.worker = WorkerOf(current)
          /\ outcome'.result = Process(WorkerOf(current), current)
      BY <3>2
    <3> QED BY <3>1, <3>3, ProcessDecodes DEF DecodedIsOwnReply
  <2> QED BY <2>1, <2>2, <2>3
          DEF StreamNext, ArriveBytes, HeaderAccepted, HeaderSkipped, streamVars
<1> QED BY <1>1, <1>2, StreamInvariant, PTL DEF StreamSpec

=============================================================================
