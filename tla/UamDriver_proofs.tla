---------------------------- MODULE UamDriver_proofs ----------------------------
(***************************************************************************)
(* Theorems about the driver, for every set of queries, every subscription *)
(* and every bound: it uses the TcpClient as TcpClient allows (so what is  *)
(* proved of the client holds in the driver), and a reply never reaches    *)
(* another command than the one it answers.                                *)
(***************************************************************************)
EXTENDS UamDriver, SequenceTheorems, TLAPS

Client == INSTANCE TcpClient_proofs

(***************************************************************************)
(* THE CLIENT INSIDE THE DRIVER                                            *)
(***************************************************************************)
\* The frames of the driver are frames as the client wants them.
LEMMA ClientAssumptions == Client!FramesAssumption /\ Client!BoundAssumption
<1>1. NoFrame.name = "none" /\ \A frame \in Packets \cup Texts : frame.name # "none"
  BY DEF NoFrame, Frame, Packets, Texts, CommandReplies, Scans
<1>2. \A frame \in Packets : frame.name # "PP"
  BY DEF Packets, CommandReplies, Scans
<1>3. \A frame \in Texts : frame.name = "PP"
  BY DEF Texts
<1>4. Client!FramesAssumption
  BY <1>1, <1>2, <1>3 DEF Client!FramesAssumption, Client!Frames, Noise
<1> QED BY <1>4, ClientBoundAssumption DEF Client!BoundAssumption

\* What TcpClient says of its state and its steps is the same by either name.
LEMMA SameClient ==
  /\ Tcp!Init <=> Client!Init
  /\ Tcp!TypeOK <=> Client!TypeOK
  /\ Tcp!TypeOK' <=> Client!TypeOK'
  /\ Tcp!Next <=> Client!Next
<1>1. Tcp!Init <=> Client!Init
  BY DEF Tcp!Init, Client!Init, Tcp!At, Client!At
<1>2. (Tcp!TypeOK <=> Client!TypeOK) /\ (Tcp!TypeOK' <=> Client!TypeOK')
  BY DEF Tcp!TypeOK, Client!TypeOK, Tcp!FlagsTyped, Client!FlagsTyped, Tcp!DataTyped,
        Client!DataTyped, Tcp!Frames, Client!Frames, Tcp!ReadOps, Client!ReadOps,
        Tcp!Handlers, Client!Handlers, Tcp!ReadKinds, Client!ReadKinds, Tcp!IoPoints,
        Client!IoPoints
<1>3. Tcp!Caller <=> Client!Caller
  BY DEF Tcp!Caller, Client!Caller, Tcp!Connect, Client!Connect, Tcp!ConnectTimeout,
        Client!ConnectTimeout, Tcp!ConnectFailed, Client!ConnectFailed,
        Tcp!ConnectDone, Client!ConnectDone, Tcp!SetOption, Client!SetOption,
        Tcp!Disconnect, Client!Disconnect, Tcp!CloseSocket, Client!CloseSocket,
        Tcp!SetStopped, Client!SetStopped, Tcp!StartAsyncReadTask,
        Client!StartAsyncReadTask, Tcp!ClearStopped, Client!ClearStopped,
        Tcp!AsyncReadLine, Client!AsyncReadLine, Tcp!LineReturned,
        Client!LineReturned, Tcp!LineTimeout, Client!LineTimeout, Tcp!StartRead,
        Client!StartRead, Tcp!Op, Client!Op, Tcp!IsChain, Client!IsChain, Tcp!IsLine,
        Client!IsLine, Tcp!IsConnect, Client!IsConnect, Tcp!BodyToCome,
        Client!BodyToCome, Tcp!LineOutstanding, Client!LineOutstanding,
        Tcp!CloseDescriptor, Client!CloseDescriptor, Tcp!Abandoned, Client!Abandoned,
        Tcp!Settled, Client!Settled, Tcp!Dispatch, Client!Dispatch, Tcp!At, Client!At,
        Tcp!Complete, Client!Complete
<1>4. Tcp!IoThread <=> Client!IoThread
  BY DEF Tcp!IoThread, Client!IoThread, Tcp!HandleReceive, Client!HandleReceive,
        Tcp!StartBody, Client!StartBody, Tcp!HandlePacket, Client!HandlePacket,
        Tcp!CallbackReturns, Client!CallbackReturns, Tcp!CheckConnected,
        Client!CheckConnected, Tcp!ArmHeader, Client!ArmHeader, Tcp!Die, Client!Die,
        Tcp!HandleLine, Client!HandleLine, Tcp!HandleConnect, Client!HandleConnect,
        Tcp!StartRead, Client!StartRead, Tcp!Op, Client!Op, Tcp!IsChain,
        Client!IsChain, Tcp!IsLine, Client!IsLine, Tcp!IsConnect, Client!IsConnect,
        Tcp!BodyToCome, Client!BodyToCome, Tcp!LineOutstanding,
        Client!LineOutstanding, Tcp!CloseDescriptor, Client!CloseDescriptor,
        Tcp!Abandoned, Client!Abandoned, Tcp!Settled, Client!Settled, Tcp!Dispatch,
        Client!Dispatch, Tcp!At, Client!At, Tcp!Complete, Client!Complete
<1>5. Tcp!Environment <=> Client!Environment
  BY DEF Tcp!Environment, Client!Environment, Tcp!Established, Client!Established,
        Tcp!Arrive, Client!Arrive, Tcp!Frames, Client!Frames, Tcp!PeerDrops,
        Client!PeerDrops, Tcp!ReadCompletes, Client!ReadCompletes, Tcp!ReadFails,
        Client!ReadFails, Tcp!Complete, Client!Complete, Tcp!Op, Client!Op,
        Tcp!IsLine, Client!IsLine
<1> QED BY <1>1, <1>2, <1>3, <1>4, <1>5 DEF Tcp!Next, Client!Next

(***************************************************************************)
(* TYPES                                                                   *)
(***************************************************************************)
LEMMA CommandFacts ==
  /\ Queries \subseteq Commands /\ Streaming \in Commands
  /\ StopCommand(Streaming) \in Commands /\ StopCommand(Streaming) \notin Modes
  /\ Streaming # "PP" /\ StopCommand(Streaming) # "PP"
  /\ \A cmd \in Commands : cmd \in Modes => cmd = Streaming
  /\ NoCommand \notin Commands /\ INVALID \notin Commands
  /\ Commands \subseteq CommandReplies \cup Scans \cup {"PP"}
<1>1. StopCommand(Streaming) \in {"AR03", "AR05", "AR06"}
  BY StreamingAssumption DEF Modes, StopCommand
<1> QED BY <1>1, StreamingAssumption, QueriesAssumption
        DEF Commands, Modes, NoCommand, INVALID, CommandReplies, Scans

\* Every frame that the lidar sends is one that the client knows.
LEMMA LidarFrames ==
  /\ \A cmd \in Commands, t \in {0, 1} : Frame(cmd, t) \in Packets \cup Texts
  /\ Refusal \in Packets /\ \A m \in Modes : Frame(ScanOf(m), 0) \in Packets
  /\ Tcp!Frames = Packets \cup Texts
<1>1. \A cmd \in Commands : cmd = "PP" \/ cmd \in CommandReplies \cup Scans
  BY CommandFacts
<1>2. \A cmd \in Commands, t \in {0, 1} : Frame(cmd, t) \in Packets \cup Texts
  BY <1>1 DEF Frame, Packets, Texts
<1>3. Refusal \in Packets
  BY DEF Refusal, Frame, Packets
<1>4. \A m \in Modes : ScanOf(m) \in Scans
  BY DEF Modes, ScanOf, Scans
<1>5. \A m \in Modes : Frame(ScanOf(m), 0) \in Packets
  BY <1>4 DEF Frame, Packets
<1> QED BY <1>2, <1>3, <1>5 DEF Tcp!Frames, Noise

\* What the lidar has not answered yet.
Sendings == [name : Commands, ticket : {0, 1}]

LEMMA SendingFrames ==
  ASSUME TypeOK
  PROVE  /\ asked \in Seq(Sendings)
         /\ asked # <<>> => /\ Head(asked) \in Sendings /\ Head(asked).name \in Commands
                           /\ Head(asked) \in Packets \cup Texts
                           /\ Tail(asked) \in Seq(Sendings)
<1>1. asked \in Seq(Sendings)
  BY DEF TypeOK, Sendings
<1>2. asked # <<>> => Head(asked) \in Sendings /\ Tail(asked) \in Seq(Sendings)
  BY <1>1
<1>3. ASSUME NEW elt \in Sendings PROVE elt.name \in Commands /\ elt \in Packets \cup Texts
  <2>1. elt = Frame(elt.name, elt.ticket) /\ elt.name \in Commands /\ elt.ticket \in {0, 1}
    BY DEF Frame, Sendings
  <2> QED BY <2>1, LidarFrames, Zenon
<1> QED BY <1>1, <1>2, <1>3, Zenon

\* A command is in progress exactly as long as a step of it is.
TypeInv == TypeOK /\ (step = "none" <=> command = NoCommand)

\* Every step of the driver is a step of its client, or none of it.
LEMMA ClientSteps == TypeOK /\ [Next]_vars => Tcp!Next \/ UNCHANGED client
<1> SUFFICES ASSUME TypeOK, [Next]_vars PROVE Tcp!Next \/ UNCHANGED client
  OBVIOUS
<1>1. CASE UNCHANGED vars
  BY <1>1 DEF vars, client
<1>2. CASE Caller
  <2>1. CASE Operation \/ StartingReader \/ Prepare \/ Send \/ SendFails \/ ReadLine
    BY <2>1 DEF Operation, GetVersionDetails, GetSafetyArea, GetSensorStatus,
       GetConfigurationId, GetScanDetails, StartStreaming, Query, Call, EnsureReader,
       StartingReader, Prepare, Send, SendFails, ReadLine, Tcp!Next, Tcp!Caller, client
  <2>2. CASE Connect \/ Connecting \/ Disconnect \/ Disconnecting \/ Return \/ Expire
    BY <2>2 DEF Connect, Connecting, Disconnect, Disconnecting, Return, Expire,
       Tcp!Next, Tcp!Caller, client
  <2> QED BY <1>2, <2>1, <2>2 DEF Caller
<1>3. CASE IoThread
  BY <1>3 DEF IoThread, ReaderRuns, PacketCallback, LineCallback, Tcp!Next, Tcp!IoThread
<1>4. CASE Lidar
  <2>1. CASE Ignore
    BY <2>1 DEF Ignore
  <2>2. ASSUME NEW frame \in Packets \cup Texts, Tcp!Arrive(frame) PROVE Tcp!Next
    BY <2>2, LidarFrames DEF Tcp!Next, Tcp!Environment
  <2>3. asked # <<>> => Head(asked) \in Packets \cup Texts
    BY SendingFrames
  <2>4. stream # INVALID => Frame(ScanOf(stream), 0) \in Packets \cup Texts
    <3>1. stream # INVALID => stream \in Modes
      BY StreamingAssumption DEF TypeOK
    <3> QED BY <3>1, LidarFrames, Zenon
  <2>5. CASE Answer
    BY <2>2, <2>3, <2>5 DEF Answer, Take
  <2>6. CASE Refuse
    BY <2>2, <2>6, LidarFrames DEF Refuse
  <2>7. CASE StreamScan
    BY <2>2, <2>4, <2>7 DEF StreamScan
  <2> QED BY <1>4, <2>1, <2>5, <2>6, <2>7 DEF Lidar
<1>5. CASE \/ \E ok \in BOOLEAN : Established(ok)
           \/ PeerDrops \/ ReadCompletes \/ ReadFails
  BY <1>5 DEF Established, PeerDrops, ReadCompletes, ReadFails, Network, Tcp!Next,
     Tcp!Environment
<1> QED BY <1>1, <1>2, <1>3, <1>4, <1>5 DEF Next

LEMMA ClientTypes == TypeOK /\ [Next]_vars => Tcp!TypeOK'
<1> SUFFICES ASSUME TypeOK, [Next]_vars PROVE Tcp!TypeOK'
  OBVIOUS
<1>1. Client!FlagsTyped /\ Client!DataTyped /\ (Client!Next \/ UNCHANGED Client!vars)
  BY ClientSteps, SameClient DEF TypeOK, Client!TypeOK, client, Client!vars
<1>2. Client!FlagsTyped' /\ Client!DataTyped'
  BY <1>1, ClientAssumptions, Client!FlagsStep, Client!DataStep
<1>3. Client!TypeOK'
  BY <1>2 DEF Client!TypeOK
<1> QED BY <1>3, SameClient

LEMMA TypeStep == TypeInv /\ [Next]_vars => TypeInv'
<1> SUFFICES ASSUME TypeInv, [Next]_vars PROVE TypeInv'
  OBVIOUS
<1> USE DEF TypeInv, TypeOK
<1> DEFINE Rest == /\ step \in Steps /\ command \in Commands \cup {NoCommand}
                   /\ then \in Queries \cup {NoCommand} /\ ready \in BOOLEAN
                   /\ reply \in Packets \cup Texts \cup {NoFrame}
                   /\ mode \in {INVALID, Streaming} /\ ticket \in {0, 1}
                   /\ stream \in {INVALID, Streaming}
                   /\ (step = "none" <=> command = NoCommand)
           Asked == asked \in Seq(Sendings)
<1>1. Tcp!TypeOK'
  BY ClientTypes
<1>2. SUFFICES Rest' /\ Asked'
  BY <1>1 DEF Sendings
<1> USE SendingFrames
<1>3. CASE UNCHANGED vars
  BY <1>3 DEF vars, call, lidar
<1>4. CASE Connect \/ Connecting \/ Disconnect \/ Disconnecting \/ StartingReader
  <2>1. CASE Connect
    BY <2>1 DEF Connect, call
  <2>2. CASE Disconnect
    BY <2>2 DEF Disconnect, lidar, Steps
  <2>3. CASE Connecting \/ Disconnecting \/ StartingReader
    BY <2>3 DEF Connecting, Disconnecting, StartingReader, call, lidar
  <2> QED BY <1>4, <2>1, <2>2, <2>3
<1>5. CASE Operation
  <2>1. ASSUME NEW cmd \in Commands, NEW following \in Queries \cup {NoCommand},
               Call(cmd, following)
        PROVE  Rest' /\ Asked'
    BY <2>1, CommandFacts DEF Call, lidar, Steps
  <2>2. ASSUME NEW cmd \in Queries, Query(cmd) PROVE Rest' /\ Asked'
    BY <2>1, <2>2, CommandFacts DEF Query
  <2>3. CASE "PP" \in Queries /\ GetScanDetails
    BY <2>3, CommandFacts DEF GetScanDetails, lidar, Steps
  <2> QED BY <1>5, <2>1, <2>2, <2>3, CommandFacts
          DEF Operation, GetVersionDetails, GetSafetyArea, GetSensorStatus,
              GetConfigurationId, StartStreaming
<1>6. CASE Prepare \/ SendFails \/ ReadLine \/ Expire
  BY <1>6 DEF Prepare, SendFails, ReadLine, Expire, lidar, Steps
<1>7. CASE Send
  <2>1. Rest'
    BY <1>7 DEF Send, Steps
  <2>2. command \in Commands
    BY <1>7 DEF Send
  <2>3. Frame(command, ticket') \in Sendings
    BY <2>1, <2>2 DEF Frame, Sendings
  <2>4. asked' = Append(asked, Frame(command, ticket'))
    BY <1>7 DEF Send
  <2> HIDE DEF Frame
  <2>5. Asked'
    BY <2>3, <2>4, AppendProperties
  <2> QED BY <2>1, <2>5
<1>8. CASE Return
  <2>1. command \in Commands
    BY <1>8 DEF Return
  <2>2. ModeAfter(command) \in {INVALID, Streaming}
    BY <2>1, CommandFacts DEF ModeAfter
  <2> QED BY <1>8, <2>2, CommandFacts DEF Return, lidar, Steps
<1>9. CASE IoThread
  <2>1. ASSUME NEW frame \in Packets \cup Texts \cup {NoFrame}, Signal(frame) PROVE
               ready' \in BOOLEAN /\ reply' \in Packets \cup Texts \cup {NoFrame}
    BY <2>1 DEF Signal
  <2>2. io.frame \in Packets \cup Texts \cup {NoFrame}
    BY LidarFrames DEF Tcp!TypeOK, Tcp!DataTyped
  <2>3. queue # <<>> => Head(queue).frame \in Packets \cup Texts \cup {NoFrame}
    <3>1. queue # <<>> => Head(queue) \in Tcp!Handlers
      BY DEF Tcp!TypeOK, Tcp!DataTyped
    <3> QED BY <3>1, LidarFrames DEF Tcp!Handlers
  <2>4. CASE ReaderRuns
    BY <2>4 DEF ReaderRuns, call, lidar
  <2>5. CASE PacketCallback
    <3>1. ready' \in BOOLEAN /\ reply' \in Packets \cup Texts \cup {NoFrame}
      BY <2>1, <2>2, <2>5 DEF PacketCallback
    <3> QED BY <2>5, <3>1 DEF PacketCallback, call, lidar
  <2>6. CASE LineCallback
    <3>1. queue # <<>>
      BY <2>6 DEF LineCallback, Tcp!HandleLine, Tcp!Dispatch
    <3>2. ready' \in BOOLEAN /\ reply' \in Packets \cup Texts \cup {NoFrame}
      BY <2>1, <2>3, <2>6, <3>1 DEF LineCallback
    <3> QED BY <2>6, <3>2 DEF LineCallback, call, lidar
  <2> QED BY <1>9, <2>4, <2>5, <2>6 DEF IoThread
<1>10. CASE Lidar
  <2>2. Asked'
    BY <1>10 DEF Lidar, Answer, Refuse, Ignore, StreamScan, Take, lidar
  <2>3. stream' \in {INVALID, Streaming}
    BY <1>10, CommandFacts DEF Lidar, Answer, Refuse, Ignore, StreamScan, Take, lidar
  <2> QED BY <1>10, <2>2, <2>3 DEF Lidar, Answer, Refuse, Ignore, StreamScan, call
<1>11. CASE \/ \E ok \in BOOLEAN : Established(ok)
            \/ PeerDrops \/ ReadCompletes \/ ReadFails
  BY <1>11 DEF Established, PeerDrops, ReadCompletes, ReadFails, Network, call, lidar
<1> QED BY <1>3, <1>4, <1>5, <1>6, <1>7, <1>8, <1>9, <1>10, <1>11 DEF Next, Caller

LEMMA TypeInit == Init => TypeInv
<1> SUFFICES ASSUME Init PROVE TypeInv
  OBVIOUS
<1>1. Tcp!TypeOK
  <2>1. Client!FlagsTyped /\ Client!DataTyped
    BY SameClient, ClientAssumptions, Client!FlagsInit, Client!DataInit DEF Init
  <2> QED BY <2>1, SameClient DEF Client!TypeOK
<1>2. asked \in Seq(Sendings)
  BY DEF Init
<1>3. asked \in Seq([name : Commands, ticket : {0, 1}])
  BY <1>2 DEF Sendings
<1> QED BY <1>1, <1>3 DEF TypeInv, TypeOK, Init, Steps

\* Every variable of the driver keeps its type, those of its client included.
THEOREM DriverTyped == Spec => []TypeOK
<1>1. TypeInv => TypeOK
  BY DEF TypeInv
<1> QED BY <1>1, TypeInit, TypeStep, PTL DEF Spec

\* The driver uses its TCP client as TcpClient says it may be used: what the
\* proofs and the runs say of the client alone holds of the client in here.
THEOREM ClientRefined == Spec => Tcp!Spec
<1>1. Init => Tcp!Init
  BY DEF Init
<1>2. TypeInv /\ [Next]_vars => [Tcp!Next]_Tcp!vars
  BY ClientSteps DEF TypeInv, client, Tcp!vars
<1> QED BY <1>1, <1>2, TypeInit, TypeStep, PTL DEF Spec, Tcp!Spec

(***************************************************************************)
(* THE INDUCTIVE INVARIANT                                                 *)
(*                                                                         *)
(* That a reply wakes the command it answers is not inductive: it says     *)
(* nothing of the replies still on their way.  The invariant follows them. *)
(* While a command awaits its reply, at most one frame that could wake a   *)
(* sender exists in the whole path, from the lidar's list of commands      *)
(* through the wire, a read and a handler to the callback, and it is that  *)
(* reply; while none does, there is no such frame at all.  A new session   *)
(* starts with an empty path because the handlers of the old one are run   *)
(* before the connect is heard of (PathInv of the client), and a command   *)
(* that gives up ends the session.                                         *)
(***************************************************************************)
\* The frames that could wake a sender, and the reads that carry one.
Replies   == {frame \in Packets \cup Texts : frame.name \in CommandReplies \cup {"PP"}}
ReadsOf(frames) == [kind : Tcp!ReadKinds, ok : BOOLEAN, frame : frames]

Any(seq, marked) == \E i \in 1..Len(seq) : seq[i] \in marked

\* At most one marked element, and it is one of those expected.
AtMostOne(seq, marked, expected) ==
  /\ \A i, j \in 1..Len(seq) : seq[i] \in marked /\ seq[j] \in marked => i = j
  /\ \A i \in 1..Len(seq) : seq[i] \in marked => seq[i] \in expected

\* Where a frame of the set M is, once it has left the lidar.
OnWire(M)  == Any(wire, M)
InReads(M) == Any(reads, ReadsOf(M))
InQueue(M) == Any(queue, ReadsOf(M))
InIo(M)    == io.frame \in M
Coming(M)  == OnWire(M) \/ InReads(M) \/ InQueue(M) \/ InIo(M)

\* No frame of M but f is in the client or on the wire, and f only once.
OnlyComing(M, f) ==
  /\ AtMostOne(wire, M, {f})
  /\ AtMostOne(reads, ReadsOf(M), ReadsOf({f}))
  /\ AtMostOne(queue, ReadsOf(M), ReadsOf({f}))
  /\ InIo(M) => io.frame = f
  /\ OnWire(M) => ~InReads(M) /\ ~InQueue(M) /\ ~InIo(M)
  /\ InReads(M) => ~InQueue(M) /\ ~InIo(M)
  /\ InQueue(M) => ~InIo(M)

\* Only f could wake a sender, and only once.
OnlyOnTheWay(f) ==
  /\ OnlyComing(Replies, f)
  /\ asked # <<>> => asked = <<f>> /\ f # NoFrame /\ ~Coming(Replies)

Awaiting == \/ step = "wait" /\ ~ready
            \/ command = "PP" /\ step \in {"prepare", "read"}
Expected == IF Awaiting THEN Frame(command, ticket) ELSE NoFrame

\* What the step of a command says of its client.
CallInv ==
  /\ step = "none" => caller \notin {"starting", "line", "failed"}
  /\ step # "none" => connected
  /\ step = "threw" => caller \in {"idle", "failed"}
  /\ step = "read" => command = "PP"
  /\ step # "none" /\ command = "PP" =>
       /\ then = NoCommand
       /\ step \in {"send", "prepare", "read"} => caller = "idle" /\ stopped
       /\ step = "wait" => caller = "line"
  /\ step # "none" /\ command # "PP" =>
       /\ step = "prepare" => caller \in {"idle", "starting"}
       /\ step \in {"send", "wait"} => caller = "idle"
       /\ step \in {"prepare", "send", "wait"} /\ caller = "idle" => ~stopped
  /\ then # "PP"

\* A session that is being dialled has no past.
FreshInv == caller = "connecting" => asked = <<>> /\ wire = <<>> /\ stream = INVALID

\* The flag is clear when a command is about to wait.
ReadyInv == step = "read" \/ (step = "send" /\ command # "PP") => ~ready

ReplyInv ==
  connected /\ step # "threw" =>
    /\ OnlyOnTheWay(Expected)
    /\ step = "wait" /\ ready => reply = Frame(command, ticket) /\ reply \in Replies

\* The lidar streams what the driver believes, but for the subscription that
\* is under way; once it has answered the stop command it does not stream.
StreamInv ==
  connected /\ step # "threw" =>
    /\ stream \in {INVALID, mode} \/ (step = "wait" /\ command = Streaming)
    /\ step = "wait" /\ command = StopCommand(Streaming) /\ (Coming(Replies) \/ ready) =>
         stream = INVALID
    /\ step = "wait" /\ command = Streaming /\ (Coming(Replies) \/ ready) =>
         stream = Streaming

DriverInv ==
  TypeInv /\ Client!PathInv /\ CallInv /\ FreshInv /\ ReadyInv /\ ReplyInv /\ StreamInv

(***************************************************************************)
(* THE CLIENT AND THE CALL                                                 *)
(***************************************************************************)
\* The invariant of the client, line reads and frames included.
LEMMA PathKept == TypeOK /\ Client!PathInv /\ Settle /\ [Next]_vars => Client!PathInv'
<1> SUFFICES ASSUME TypeOK, Client!PathInv, Settle, [Next]_vars PROVE Client!PathInv'
  OBVIOUS
<1>1. [Client!Next]_Client!vars
  BY ClientSteps, SameClient DEF client, Client!vars
<1> QED BY <1>1, ClientAssumptions, Client!PathStep

LEMMA DriverInit == Init => DriverInv
<1> SUFFICES ASSUME Init PROVE DriverInv
  OBVIOUS
<1>1. TypeInv
  BY TypeInit
<1>2. Client!PathInv
  BY SameClient, ClientAssumptions, Client!PathInit DEF Init
<1>3. connected = FALSE /\ caller = "idle"
  BY DEF Init, Tcp!Init
<1> QED BY <1>1, <1>2, <1>3
        DEF DriverInv, Init, CallInv, FreshInv, ReadyInv, ReplyInv, StreamInv, NoCommand

\* What the client's invariant tells the driver.
LEMMA ClientFacts ==
  ASSUME Client!PathInv
  PROVE  /\ connected => caller \notin {"connecting", "closing", "stopping"}
         /\ ~connected => caller \in {"idle", "connecting", "closing", "stopping"}
         /\ io.at = "die" => ~connected
         /\ connected /\ stopped /\ caller # "starting" => io.at = "idle"
         /\ caller \in {"option", "starting", "line", "failed", "connecting"} => stopped
BY DEF Client!PathInv, Client!IInv, Client!CallerInv, Client!ReaderInv, Client!NoChain,
   Client!IoBusy

LEMMA CallStep == DriverInv /\ [Next]_vars => CallInv'
<1> SUFFICES ASSUME DriverInv, [Next]_vars PROVE CallInv'
  OBVIOUS
<1> USE ClientFacts DEF DriverInv
<1>1. CASE UNCHANGED vars
  BY <1>1 DEF vars, client, call, CallInv
<1>2. CASE Connect
  <2>1. caller' = "connecting" /\ step = "none" /\ UNCHANGED call
    BY <1>2 DEF Connect, Tcp!Connect
  <2> QED BY <2>1 DEF CallInv, call
<1>3. CASE Connecting \/ Disconnecting
  <2>1. /\ caller \in {"connecting", "option", "closing", "stopping"} /\ UNCHANGED call
        /\ caller' \in {"idle", "option", "closing", "stopping"}
    BY <1>3 DEF Connecting, Disconnecting, Tcp!ConnectTimeout, Tcp!ConnectFailed,
       Tcp!ConnectDone, Tcp!SetOption, Tcp!CloseSocket, Tcp!SetStopped
  <2>2. step = "none"
    BY <2>1 DEF CallInv, TypeInv, TypeOK, Steps
  <2> QED BY <2>1, <2>2 DEF CallInv, call
<1>4. CASE Disconnect
  BY <1>4 DEF Disconnect, Tcp!Disconnect, CallInv, NoCommand
<1>5. CASE Operation
  <2>1. ASSUME NEW cmd \in Commands, NEW following \in Queries \cup {NoCommand},
               Call(cmd, following), cmd # "PP", following # "PP"
        PROVE  CallInv'
    <3>1. /\ step' = "prepare" /\ command' = cmd /\ then' = following
          /\ connected' = connected /\ connected /\ stopped' = stopped
          /\ caller' = "starting" \/ (caller' = "idle" /\ ~stopped)
      BY <2>1 DEF Call, EnsureReader, Tcp!StartAsyncReadTask, client
    <3> QED BY <2>1, <3>1 DEF CallInv
  <2>2. ASSUME NEW cmd \in Queries, cmd # "PP", Query(cmd) PROVE CallInv'
    <3>1. mode # INVALID => mode = Streaming
      BY DEF TypeInv, TypeOK
    <3> QED BY <2>1, <2>2, <3>1, CommandFacts DEF Query, NoCommand
  <2>3. CASE GetScanDetails
    BY <2>3 DEF GetScanDetails, client, CallInv, NoCommand
  <2> QED BY <1>5, <2>1, <2>2, <2>3, CommandFacts
          DEF Operation, GetVersionDetails, GetSafetyArea, GetSensorStatus,
              GetConfigurationId, StartStreaming, NoCommand
<1>6. CASE StartingReader
  BY <1>6 DEF StartingReader, Tcp!ClearStopped, call, CallInv
<1>7. CASE Prepare \/ Send \/ SendFails
  BY <1>7 DEF Prepare, Send, SendFails, client, CallInv
<1>8. CASE ReadLine
  BY <1>8 DEF ReadLine, Tcp!AsyncReadLine, CallInv
<1>9. CASE Return \/ Expire
  BY <1>9 DEF Return, Expire, Tcp!LineReturned, Tcp!LineTimeout, client, CallInv, NoCommand
<1>10. CASE IoThread
  <2>1. connected' = connected /\ caller' = caller /\ UNCHANGED call
    BY <1>10 DEF IoThread, ReaderRuns, PacketCallback, LineCallback, Tcp!HandleReceive,
       Tcp!StartBody, Tcp!HandlePacket, Tcp!CheckConnected, Tcp!ArmHeader, Tcp!Die,
       Tcp!HandleConnect, Tcp!CallbackReturns, Tcp!HandleLine
  <2>2. stopped' = stopped \/ ~connected
    BY <1>10 DEF IoThread, ReaderRuns, PacketCallback, LineCallback, Tcp!HandleReceive,
       Tcp!StartBody, Tcp!HandlePacket, Tcp!CheckConnected, Tcp!ArmHeader, Tcp!Die,
       Tcp!HandleConnect, Tcp!CallbackReturns, Tcp!HandleLine
  <2> QED BY <2>1, <2>2 DEF call, CallInv
<1>11. CASE \/ Lidar \/ \E ok \in BOOLEAN : Established(ok)
            \/ PeerDrops \/ ReadCompletes \/ ReadFails
  <2>1. UNCHANGED <<connected, stopped, caller, call>>
    BY <1>11 DEF Lidar, Answer, Refuse, Ignore, StreamScan, Established, PeerDrops,
       ReadCompletes, ReadFails, Network, Tcp!Arrive, Tcp!Established, Tcp!PeerDrops,
       Tcp!ReadCompletes, Tcp!ReadFails, client
  <2> QED BY <2>1 DEF call, CallInv
<1> QED BY <1>1, <1>2, <1>3, <1>4, <1>5, <1>6, <1>7, <1>8, <1>9, <1>10, <1>11
        DEF Next, Caller

LEMMA FreshStep == DriverInv /\ [Next]_vars => FreshInv'
<1> SUFFICES ASSUME DriverInv, [Next]_vars, caller' = "connecting" PROVE FreshInv'
  BY DEF FreshInv
<1> DEFINE Same == UNCHANGED <<caller, asked, stream>> /\ wire' \in {wire, <<>>}
<1>1. CASE Connect
  BY <1>1 DEF Connect, Tcp!Connect, FreshInv
<1>2. Same => FreshInv'
  BY DEF DriverInv, FreshInv
<1> USE <1>2, ClientFacts DEF DriverInv
<1>3. CASE UNCHANGED vars
  BY <1>3 DEF vars, client, lidar
<1>4. CASE Connecting \/ Disconnecting \/ Disconnect \/ StartingReader
  BY <1>4 DEF Connecting, Disconnecting, Disconnect, StartingReader, Tcp!ConnectTimeout,
     Tcp!ConnectFailed, Tcp!ConnectDone, Tcp!SetOption, Tcp!Disconnect, Tcp!CloseSocket,
     Tcp!SetStopped, Tcp!ClearStopped
<1>5. CASE Operation \/ Prepare \/ SendFails \/ ReadLine \/ Return \/ Expire
  BY <1>5 DEF Operation, GetVersionDetails, GetSafetyArea, GetSensorStatus,
     GetConfigurationId, StartStreaming, Query, Call, EnsureReader, GetScanDetails,
     Prepare, SendFails, ReadLine, Return, Expire, Tcp!StartAsyncReadTask,
     Tcp!AsyncReadLine, Tcp!LineReturned, Tcp!LineTimeout, client, lidar
<1>6. CASE Send
  BY <1>6 DEF Send, CallInv, client
<1>7. CASE IoThread
  BY <1>7 DEF IoThread, ReaderRuns, PacketCallback, LineCallback, Tcp!HandleReceive,
     Tcp!StartBody, Tcp!HandlePacket, Tcp!CheckConnected, Tcp!ArmHeader, Tcp!Die,
     Tcp!HandleConnect, Tcp!CallbackReturns, Tcp!HandleLine, lidar
<1>8. CASE Lidar
  <2>1. caller = "connecting"
    BY <1>8 DEF Lidar, Answer, Refuse, Ignore, StreamScan, Tcp!Arrive, client
  <2>2. asked = <<>> /\ stream = INVALID
    BY <2>1 DEF FreshInv
  <2> QED BY <1>8, <2>2 DEF Lidar, Answer, Refuse, Ignore, StreamScan, Take
<1>9. CASE \/ \E ok \in BOOLEAN : Established(ok)
           \/ PeerDrops \/ ReadCompletes \/ ReadFails
  <2>1. UNCHANGED <<caller, asked, stream>>
    BY <1>9 DEF Established, PeerDrops, ReadCompletes, ReadFails, Network,
       Tcp!Established, Tcp!PeerDrops, Tcp!ReadCompletes, Tcp!ReadFails, lidar
  <2>2. wire' \in {wire, <<>>} \/ (wire # <<>> /\ wire' = Tail(wire))
    BY <1>9 DEF Established, PeerDrops, ReadCompletes, ReadFails, Network,
       Tcp!Established, Tcp!PeerDrops, Tcp!ReadCompletes, Tcp!ReadFails
  <2>3. wire = <<>>
    BY <2>1 DEF FreshInv
  <2> QED BY <2>1, <2>2, <2>3
<1> QED BY <1>1, <1>3, <1>4, <1>5, <1>6, <1>7, <1>8, <1>9 DEF Next, Caller

(***************************************************************************)
(* THE REPLIES ON THEIR WAY                                                *)
(***************************************************************************)
\* One element more at the end of a sequence, one less at its head.
LEMMA OneMore ==
  ASSUME NEW S, NEW seq \in Seq(S), NEW elt \in S, NEW marked, NEW expected,
         AtMostOne(seq, marked, expected),
         elt \in marked => elt \in expected /\ ~Any(seq, marked)
  PROVE  /\ AtMostOne(Append(seq, elt), marked, expected)
         /\ Any(Append(seq, elt), marked) <=> Any(seq, marked) \/ elt \in marked
<1> DEFINE more == Append(seq, elt)
<1>1. /\ Len(seq) \in Nat /\ Len(more) = Len(seq) + 1
      /\ \A i \in 1..Len(seq) : more[i] = seq[i] /\ i \in 1..Len(more)
      /\ more[Len(seq) + 1] = elt /\ Len(seq) + 1 \in 1..Len(more)
      /\ \A i \in 1..Len(more) : i \in 1..Len(seq) \/ i = Len(seq) + 1
  BY ClientAssumptions, Client!OneMore
<1> HIDE DEF more
<1>2. Any(more, marked) <=> Any(seq, marked) \/ elt \in marked
  BY <1>1 DEF Any
<1>3. AtMostOne(more, marked, expected)
  BY <1>1 DEF Any, AtMostOne
<1> QED BY <1>2, <1>3 DEF more

LEMMA OneLess ==
  ASSUME NEW S, NEW seq \in Seq(S), seq # <<>>, NEW marked, NEW expected,
         AtMostOne(seq, marked, expected)
  PROVE  /\ AtMostOne(Tail(seq), marked, expected)
         /\ Any(Tail(seq), marked) => Any(seq, marked)
         /\ Head(seq) \in marked => /\ Head(seq) \in expected /\ Any(seq, marked)
                                    /\ ~Any(Tail(seq), marked)
<1> DEFINE less == Tail(seq)
<1>1. /\ Len(seq) \in Nat \ {0} /\ Len(less) = Len(seq) - 1 /\ Len(less) \in Nat
      /\ \A i \in 1..Len(less) : less[i] = seq[i + 1] /\ i + 1 \in 1..Len(seq)
      /\ Head(seq) = seq[1] /\ 1 \in 1..Len(seq)
  BY ClientAssumptions, Client!OneLess
<1> HIDE DEF less
<1>2. Any(less, marked) => Any(seq, marked)
  BY <1>1 DEF Any
<1>3. AtMostOne(less, marked, expected)
  <2>1. \A i, j \in 1..Len(less) : less[i] \in marked /\ less[j] \in marked => i = j
    <3> TAKE i, j \in 1..Len(less)
    <3> HAVE less[i] \in marked /\ less[j] \in marked
    <3>1. i + 1 = j + 1
      BY <1>1 DEF AtMostOne
    <3> QED BY <1>1, <3>1
  <2> QED BY <1>1, <2>1 DEF AtMostOne
<1>4. ASSUME Head(seq) \in marked
      PROVE  Head(seq) \in expected /\ Any(seq, marked) /\ ~Any(less, marked)
  <2>1. Head(seq) \in expected /\ Any(seq, marked)
    BY <1>1, <1>4 DEF Any, AtMostOne
  <2>2. ASSUME NEW i \in 1..Len(less), less[i] \in marked PROVE FALSE
    <3>1. i + 1 = 1
      BY <1>1, <1>4, <2>2 DEF AtMostOne
    <3> QED BY <1>1, <3>1
  <2> QED BY <2>1, <2>2 DEF Any
<1> QED BY <1>2, <1>3, <1>4 DEF less

LEMMA NoneAtAll ==
  ASSUME NEW seq, NEW marked, NEW expected
  PROVE  /\ seq = <<>> => ~Any(seq, marked)
         /\ ~Any(seq, marked) => AtMostOne(seq, marked, expected)
BY DEF Any, AtMostOne

\* A read carries a reply exactly when its frame is one.
LEMMA ReadsOfFrames ==
  ASSUME NEW kind \in Tcp!ReadKinds, NEW ok \in BOOLEAN, NEW frame, NEW frames
  PROVE  Tcp!Op(kind, ok, frame) \in ReadsOf(frames) <=> frame \in frames
BY DEF Tcp!Op, ReadsOf

LEMMA NoFrameIsNoReply == NoFrame \notin Replies
BY DEF NoFrame, Frame, Replies, Packets, Texts, CommandReplies, Scans

\* Nothing but the wire is cut, and the io thread at most drops its frame.
LEMMA NothingMoves ==
  ASSUME NEW M, NoFrame \notin M, NEW f, OnlyComing(M, f),
         wire' \in {wire, <<>>}, UNCHANGED <<reads, queue>>,
         io' = io \/ io'.frame = NoFrame
  PROVE  OnlyComing(M, f)' /\ (Coming(M)' => Coming(M))
<1>1. InReads(M)' = InReads(M) /\ InQueue(M)' = InQueue(M)
  BY DEF InReads, InQueue
<1>2. (InIo(M)' => InIo(M)) /\ (InIo(M)' => io'.frame = f)
  BY DEF OnlyComing, InIo
<1>3. (OnWire(M)' => OnWire(M)) /\ AtMostOne(wire', M, {f})
  <2>1. CASE wire' = wire
    BY <2>1 DEF OnWire, OnlyComing
  <2>2. CASE wire' = <<>>
    BY <2>2, NoneAtAll DEF OnWire
  <2> QED BY <2>1, <2>2
<1>4. /\ AtMostOne(reads', ReadsOf(M), ReadsOf({f}))
      /\ AtMostOne(queue', ReadsOf(M), ReadsOf({f}))
  BY DEF OnlyComing
<1> QED BY <1>1, <1>2, <1>3, <1>4 DEF OnlyComing, Coming

\* A read that is started takes over the frame of the io thread, or has none.
LEMMA ReadStarts ==
  ASSUME Tcp!TypeOK, NEW M, NoFrame \notin M, NEW f, OnlyComing(M, f),
         NEW kind \in Tcp!ReadKinds, UNCHANGED wire,
         NEW frame \in Tcp!Frames \cup {NoFrame}, Tcp!StartRead(kind, frame),
         \/ frame = NoFrame /\ (io' = io \/ io'.frame = NoFrame)
         \/ frame = io.frame /\ io'.frame = NoFrame
  PROVE  OnlyComing(M, f)' /\ (Coming(M)' => Coming(M))
<1> DEFINE op == Tcp!Op(kind, FALSE, frame)
<1>1. op \in Tcp!ReadOps /\ op \in Tcp!Handlers
  BY DEF Tcp!Op, Tcp!ReadOps, Tcp!Handlers
<1>2. reads \in Seq(Tcp!ReadOps) /\ queue \in Seq(Tcp!Handlers)
  BY DEF Tcp!TypeOK, Tcp!DataTyped
<1>3. /\ op \in ReadsOf(M) <=> frame \in M
      /\ op \in ReadsOf({f}) <=> frame = f
  BY DEF Tcp!Op, ReadsOf
<1>4. \/ reads' = Append(reads, op) /\ queue' = queue
      \/ reads' = reads /\ queue' = Append(queue, op)
  BY DEF Tcp!StartRead
<1> HIDE DEF op
<1>5. /\ frame \in M => /\ InIo(M) /\ frame = f /\ ~InIo(M)'
                        /\ ~OnWire(M) /\ ~InReads(M) /\ ~InQueue(M)
      /\ (InIo(M)' => InIo(M)) /\ (InIo(M)' => io'.frame = f)
  BY DEF OnlyComing, InIo
<1>6. CASE reads' = Append(reads, op) /\ queue' = queue
  <2>1. /\ AtMostOne(reads', ReadsOf(M), ReadsOf({f}))
        /\ InReads(M)' <=> InReads(M) \/ frame \in M
    BY <1>1, <1>2, <1>3, <1>5, <1>6, OneMore DEF OnlyComing, InReads
  <2>2. OnWire(M)' = OnWire(M) /\ InQueue(M)' = InQueue(M)
    BY <1>6 DEF OnWire, InQueue
  <2> QED BY <1>5, <1>6, <2>1, <2>2 DEF OnlyComing, Coming
<1>7. CASE reads' = reads /\ queue' = Append(queue, op)
  <2>1. /\ AtMostOne(queue', ReadsOf(M), ReadsOf({f}))
        /\ InQueue(M)' <=> InQueue(M) \/ frame \in M
    BY <1>1, <1>2, <1>3, <1>5, <1>7, OneMore DEF OnlyComing, InQueue
  <2>2. OnWire(M)' = OnWire(M) /\ InReads(M)' = InReads(M)
    BY <1>7 DEF OnWire, InReads
  <2> QED BY <1>5, <1>7, <2>1, <2>2 DEF OnlyComing, Coming
<1> QED BY <1>4, <1>6, <1>7

\* A handler that is called gives its frame to the io thread, or drops it.
LEMMA HandlerRuns ==
  ASSUME Tcp!TypeOK, NEW M, NoFrame \notin M, NEW f, OnlyComing(M, f),
         queue # <<>>, queue' = Tail(queue),
         UNCHANGED <<wire, reads>>,
         \/ io' = io \/ io'.frame = NoFrame
         \/ /\ Head(queue).kind \in Tcp!ReadKinds
            /\ io.frame = NoFrame /\ io'.frame = Head(queue).frame
  PROVE  /\ OnlyComing(M, f)' /\ (Coming(M)' => Coming(M))
         /\ Head(queue) \in ReadsOf(M) =>
              /\ Head(queue).frame = f /\ f \in M
              /\ Coming(M) /\ (io' = io => ~Coming(M)')
<1>1. queue \in Seq(Tcp!Handlers) /\ Head(queue) \in Tcp!Handlers
  BY DEF Tcp!TypeOK, Tcp!DataTyped
<1>2. Head(queue).kind \in Tcp!ReadKinds =>
        (Head(queue) \in ReadsOf(M) <=> Head(queue).frame \in M)
  BY <1>1 DEF ReadsOf, Tcp!Handlers
<1>3. /\ AtMostOne(queue', ReadsOf(M), ReadsOf({f})) /\ (InQueue(M)' => InQueue(M))
      /\ Head(queue) \in ReadsOf(M) =>
           Head(queue) \in ReadsOf({f}) /\ InQueue(M) /\ ~InQueue(M)'
  BY <1>1, OneLess DEF OnlyComing, InQueue
<1>4. Head(queue) \in ReadsOf(M) => Head(queue).frame = f /\ f \in M
  BY <1>3 DEF ReadsOf
<1>5. OnWire(M)' = OnWire(M) /\ InReads(M)' = InReads(M)
  BY DEF OnWire, InReads
<1>6. \/ (InIo(M)' => InIo(M)) /\ (InIo(M)' => io'.frame = f)
      \/ InIo(M)' /\ ~InIo(M) /\ Head(queue) \in ReadsOf(M) /\ io'.frame = f
  BY <1>2, <1>4 DEF OnlyComing, InIo
<1>7. io' = io => InIo(M)' = InIo(M)
  BY DEF InIo
<1> QED BY <1>3, <1>4, <1>5, <1>6, <1>7 DEF OnlyComing, Coming

\* A read that completes hands its handler the frame it carries, or the first
\* of the wire, or none.
LEMMA ReadEnds ==
  ASSUME Tcp!TypeOK, NEW M, NoFrame \notin M, NEW f, OnlyComing(M, f),
         reads # <<>>, UNCHANGED io, NEW ok \in BOOLEAN,
         NEW frame \in Tcp!Frames \cup {NoFrame}, Tcp!Complete(ok, frame),
         \/ frame = NoFrame /\ wire' = wire
         \/ frame = Head(reads).frame /\ wire' = wire
         \/ wire # <<>> /\ frame = Head(wire) /\ wire' = Tail(wire)
  PROVE  OnlyComing(M, f)' /\ (Coming(M)' => Coming(M))
<1> DEFINE op == Tcp!Op(Head(reads).kind, ok, frame)
<1>1. /\ reads \in Seq(Tcp!ReadOps) /\ Head(reads) \in Tcp!ReadOps
      /\ queue \in Seq(Tcp!Handlers) /\ wire \in Seq(Tcp!Frames)
  BY DEF Tcp!TypeOK, Tcp!DataTyped
<1>2. Head(reads).kind \in Tcp!ReadKinds /\ Head(reads).ok \in BOOLEAN
  BY <1>1 DEF Tcp!ReadOps
<1>3. op \in Tcp!Handlers
  BY <1>2 DEF Tcp!Op, Tcp!Handlers
<1>4. /\ op \in ReadsOf(M) <=> frame \in M
      /\ op \in ReadsOf({f}) <=> frame = f
  BY <1>2, ReadsOfFrames
<1>5. reads' = Tail(reads) /\ queue' = Append(queue, op)
  BY DEF Tcp!Complete
<1> HIDE DEF op
<1>6. Head(reads) \in ReadsOf(M) <=> Head(reads).frame \in M
  BY <1>1, <1>2 DEF ReadsOf, Tcp!ReadOps
<1>7. /\ AtMostOne(reads', ReadsOf(M), ReadsOf({f})) /\ (InReads(M)' => InReads(M))
      /\ Head(reads).frame \in M =>
           Head(reads) \in ReadsOf({f}) /\ InReads(M) /\ ~InReads(M)'
  BY <1>1, <1>5, <1>6, OneLess DEF OnlyComing, InReads
<1>8. Head(reads).frame \in M => Head(reads).frame = f
  BY <1>7 DEF ReadsOf
<1>9. wire # <<>> =>
        /\ AtMostOne(Tail(wire), M, {f}) /\ (Any(Tail(wire), M) => OnWire(M))
        /\ Head(wire) \in M => Head(wire) = f /\ OnWire(M) /\ ~Any(Tail(wire), M)
  BY <1>1, OneLess DEF OnlyComing, OnWire
<1>10. /\ AtMostOne(wire', M, {f}) /\ (OnWire(M)' => OnWire(M))
       /\ frame \in M =>
            /\ frame = f /\ ~InQueue(M) /\ ~InIo(M) /\ Coming(M)
            /\ ~OnWire(M)' /\ ~InReads(M)'
  BY <1>7, <1>8, <1>9 DEF OnlyComing, OnWire, Coming
<1>11. InIo(M)' = InIo(M)
  BY DEF InIo
<1>12. /\ AtMostOne(queue', ReadsOf(M), ReadsOf({f}))
       /\ InQueue(M)' <=> InQueue(M) \/ frame \in M
  BY <1>1, <1>3, <1>4, <1>5, <1>10, OneMore DEF OnlyComing, InQueue
<1> QED BY <1>7, <1>10, <1>11, <1>12 DEF OnlyComing, Coming

\* Whatever the client does in a session, it neither makes a reply nor doubles
\* one; only the lidar puts frames on the wire.
LEMMA ClientMoves ==
  ASSUME DriverInv, NEW M, NoFrame \notin M, NEW f, OnlyComing(M, f),
         \/ connected /\ (Connecting \/ Disconnecting)
         \/ StartingReader \/ ReadLine \/ IoThread \/ EnsureReader \/ Return
         \/ \E ok \in BOOLEAN : Established(ok)
         \/ PeerDrops \/ ReadCompletes \/ ReadFails
  PROVE  OnlyComing(M, f)' /\ (Coming(M)' => Coming(M))
<1>1. Tcp!TypeOK
  BY DEF DriverInv, TypeInv, TypeOK
<1>2. reads \in Seq(Tcp!ReadOps) /\ queue \in Seq(Tcp!Handlers) /\ wire \in Seq(Tcp!Frames)
  BY <1>1 DEF Tcp!TypeOK, Tcp!DataTyped
<1>3. io.at \notin {"body", "callback"} => io.frame = NoFrame
  BY DEF DriverInv, Client!PathInv, Client!FrameInv
<1>4. CASE UNCHANGED <<wire, reads, queue>> /\ (io' = io \/ io'.frame = NoFrame)
  BY <1>4, NothingMoves
<1>5. CASE connected /\ (Connecting \/ Disconnecting)
  <2>1. connected => caller \notin {"connecting", "closing", "stopping"}
    BY ClientFacts DEF DriverInv
  <2>2. UNCHANGED <<wire, reads, queue, io>>
    BY <1>5, <2>1 DEF Connecting, Disconnecting, Tcp!ConnectTimeout, Tcp!ConnectFailed,
       Tcp!ConnectDone, Tcp!SetOption, Tcp!CloseSocket, Tcp!SetStopped
  <2> QED BY <1>4, <2>2
<1>6. CASE StartingReader \/ Return
  BY <1>4, <1>6 DEF StartingReader, Return, Tcp!ClearStopped, Tcp!LineReturned, client
<1>7. CASE ReadLine \/ EnsureReader
  <2>1. CASE UNCHANGED client
    BY <1>4, <2>1 DEF client
  <2>2. CASE Tcp!StartRead("line", NoFrame) \/ Tcp!StartRead("header", NoFrame)
    <3>1. UNCHANGED wire /\ UNCHANGED io
      BY <1>7 DEF ReadLine, EnsureReader, Tcp!AsyncReadLine, Tcp!StartAsyncReadTask, client
    <3> QED BY <1>1, <2>2, <3>1, ReadStarts DEF Tcp!ReadKinds
  <2> QED BY <1>7, <2>1, <2>2 DEF ReadLine, EnsureReader, Tcp!AsyncReadLine,
             Tcp!StartAsyncReadTask
<1>8. CASE IoThread
  <2>1. CASE Tcp!CallbackReturns \/ Tcp!CheckConnected \/ Tcp!Die
    <3>1. UNCHANGED <<wire, reads, queue>>
      BY <2>1 DEF Tcp!CallbackReturns, Tcp!CheckConnected, Tcp!Die
    <3>2. io'.frame = NoFrame
      <4>1. \E point \in Tcp!IoPoints : io' = Tcp!At(point)
        BY <2>1 DEF Tcp!CallbackReturns, Tcp!CheckConnected, Tcp!Die, Tcp!IoPoints
      <4> QED BY <4>1 DEF Tcp!At
    <3> QED BY <1>4, <3>1, <3>2
  <2>2. CASE Tcp!StartBody
    <3>1. UNCHANGED wire /\ Tcp!StartRead("body", io.frame) /\ io'.frame = NoFrame
      BY <2>2 DEF Tcp!StartBody, Tcp!At
    <3>2. io.frame \in Tcp!Frames \cup {NoFrame}
      BY <1>1 DEF Tcp!TypeOK, Tcp!DataTyped
    <3> QED BY <1>1, <3>1, <3>2, ReadStarts DEF Tcp!ReadKinds
  <2>3. CASE Tcp!ArmHeader
    <3>1. UNCHANGED wire /\ Tcp!StartRead("header", NoFrame) /\ io'.frame = NoFrame
      BY <2>3 DEF Tcp!ArmHeader, Tcp!At
    <3> QED BY <1>1, <3>1, ReadStarts DEF Tcp!ReadKinds
  <2>4. CASE Tcp!HandleReceive \/ Tcp!HandlePacket \/ Tcp!HandleLine \/ Tcp!HandleConnect
    <3>1. /\ queue # <<>> /\ queue' = Tail(queue)
          /\ UNCHANGED <<wire, reads>> /\ io.at = "idle"
      BY <2>4 DEF Tcp!HandleReceive, Tcp!HandlePacket, Tcp!HandleLine, Tcp!HandleConnect,
         Tcp!Dispatch
    <3>2. \/ io' = io \/ io'.frame = NoFrame
          \/ Head(queue).kind \in Tcp!ReadKinds /\ io'.frame = Head(queue).frame
      <4>1. CASE Tcp!HandleReceive
        BY <4>1 DEF Tcp!HandleReceive, Tcp!Dispatch, Tcp!ReadKinds, Tcp!At
      <4>2. CASE Tcp!HandlePacket
        BY <4>2 DEF Tcp!HandlePacket, Tcp!Dispatch, Tcp!ReadKinds, Tcp!At
      <4>3. CASE Tcp!HandleLine \/ Tcp!HandleConnect
        BY <4>3 DEF Tcp!HandleLine, Tcp!HandleConnect
      <4> QED BY <2>4, <4>1, <4>2, <4>3
    <3>3. io.frame = NoFrame
      BY <1>3, <3>1
    <3> QED BY <1>1, <3>1, <3>2, <3>3, HandlerRuns
  <2> QED BY <1>8, <2>1, <2>2, <2>3, <2>4
          DEF IoThread, ReaderRuns, PacketCallback, LineCallback
<1>9. ASSUME NEW ok \in BOOLEAN, Established(ok)
      PROVE  OnlyComing(M, f)' /\ (Coming(M)' => Coming(M))
  <2> DEFINE op == Tcp!Op("connect", ok, NoFrame)
  <2>1. op \in Tcp!Handlers /\ op \notin ReadsOf(M)
    BY DEF Tcp!Op, Tcp!Handlers, ReadsOf, Tcp!ReadKinds
  <2>2. queue' = Append(queue, op) /\ UNCHANGED <<wire, reads, io>>
    BY <1>9 DEF Established, Network, Tcp!Established
  <2> HIDE DEF op
  <2>3. /\ AtMostOne(queue', ReadsOf(M), ReadsOf({f}))
        /\ InQueue(M)' <=> InQueue(M)
    BY <1>2, <2>1, <2>2, OneMore DEF OnlyComing, InQueue
  <2>4. OnWire(M)' = OnWire(M) /\ InReads(M)' = InReads(M) /\ InIo(M)' = InIo(M)
    BY <2>2 DEF OnWire, InReads, InIo
  <2> QED BY <2>2, <2>3, <2>4 DEF OnlyComing, Coming
<1>10. CASE PeerDrops
  BY <1>10, NothingMoves DEF PeerDrops, Network, Tcp!PeerDrops
<1>11. CASE ReadCompletes
  <2>1. reads # <<>> /\ UNCHANGED io
    BY <1>11 DEF ReadCompletes, Network, Tcp!ReadCompletes
  <2>2. wire # <<>> => Head(wire) \in Tcp!Frames
    BY <1>2
  <2>3. Head(reads).frame \in Tcp!Frames \cup {NoFrame}
    <3>1. Head(reads) \in Tcp!ReadOps
      BY <1>2, <2>1
    <3> QED BY <3>1 DEF Tcp!ReadOps
  <2>4. CASE wire # <<>> /\ Tcp!Complete(TRUE, Head(wire)) /\ wire' = Tail(wire)
    BY <1>1, <2>1, <2>2, <2>4, ReadEnds
  <2>5. CASE Tcp!Complete(TRUE, Head(reads).frame) /\ wire' = wire
    BY <1>1, <2>1, <2>3, <2>5, ReadEnds
  <2>6. CASE wire # <<>> /\ wire' = Tail(wire) /\ UNCHANGED <<reads, queue>>
    <3>1. AtMostOne(wire', M, {f}) /\ (OnWire(M)' => OnWire(M))
      BY <1>2, <2>6, OneLess DEF OnlyComing, OnWire
    <3>2. InReads(M)' = InReads(M) /\ InQueue(M)' = InQueue(M) /\ InIo(M)' = InIo(M)
      BY <2>1, <2>6 DEF InReads, InQueue, InIo
    <3> QED BY <2>1, <2>6, <3>1, <3>2 DEF OnlyComing, Coming
  <2> QED BY <1>11, <2>4, <2>5, <2>6 DEF ReadCompletes, Network, Tcp!ReadCompletes
<1>12. CASE ReadFails
  <2>1. /\ reads # <<>> /\ Tcp!Complete(FALSE, NoFrame) /\ UNCHANGED io /\ wire' = wire
    BY <1>12 DEF ReadFails, Network, Tcp!ReadFails
  <2>2. FALSE \in BOOLEAN /\ NoFrame \in Tcp!Frames \cup {NoFrame}
    BY Zenon
  <2> QED BY <1>1, <2>1, <2>2, ReadEnds, Zenon
<1> QED BY <1>5, <1>6, <1>7, <1>8, <1>9, <1>10, <1>11, <1>12

\* A path with nothing on it is what any expectation allows.
LEMMA NothingComing ==
  ASSUME NEW M, NEW f
  PROVE  (~Coming(M) => OnlyComing(M, f)) /\ (~Coming(M)' => OnlyComing(M, f)')
BY NoneAtAll DEF OnlyComing, Coming, OnWire, InReads, InQueue, InIo

\* The callbacks wake a command only with the reply that it awaits, and after
\* it there is none left.
LEMMA IoSignals ==
  ASSUME DriverInv, connected, step # "threw", IoThread
  PROVE  \/ UNCHANGED <<ready, reply>>
         \/ /\ step = "wait" /\ ~ready /\ ready' = TRUE
            /\ reply' = Frame(command, ticket) /\ reply' \in Replies
            /\ Coming(Replies) /\ ~Coming(Replies)'
<1> PICK f : f = Expected
  OBVIOUS
<1>1. OnlyOnTheWay(f)
  BY DEF DriverInv, ReplyInv
<1>2. f \in Replies => Awaiting /\ f = Frame(command, ticket)
  BY NoFrameIsNoReply DEF Expected
<1>3. Tcp!TypeOK /\ OnlyComing(Replies, f)
  BY <1>1 DEF DriverInv, TypeInv, TypeOK, OnlyOnTheWay
<1>4. command = "PP" /\ step \in {"prepare", "read"} => caller = "idle" /\ stopped
  BY DEF DriverInv, CallInv
<1>5. CASE ReaderRuns
  BY <1>5 DEF ReaderRuns
<1>6. CASE PacketCallback /\ ~UNCHANGED <<ready, reply>>
  <2>1. /\ Tcp!CallbackReturns /\ io.frame.name \in CommandReplies
        /\ ready' = TRUE /\ reply' = io.frame
    BY <1>6 DEF PacketCallback, Signal
  <2>2. io.frame \in Packets \cup Texts \cup {NoFrame}
    BY <1>3, LidarFrames DEF Tcp!TypeOK, Tcp!DataTyped
  <2>3. InIo(Replies)
    BY <2>1, <2>2 DEF InIo, Replies, NoFrame, Frame, CommandReplies
  <2>4. /\ io.frame = f /\ f \in Replies
        /\ ~OnWire(Replies) /\ ~InReads(Replies) /\ ~InQueue(Replies)
    BY <1>3, <2>3 DEF OnlyComing, InIo
  <2>5. io.at = "callback" /\ UNCHANGED <<wire, reads, queue>> /\ io'.frame = NoFrame
    BY <2>1 DEF Tcp!CallbackReturns, Tcp!At
  <2>6. ~Coming(Replies)' /\ Coming(Replies)
    BY <2>3, <2>4, <2>5, NoFrameIsNoReply DEF Coming, OnWire, InReads, InQueue, InIo
  <2>7. ~(command = "PP" /\ step \in {"prepare", "read"})
    BY <1>4, <2>5, ClientFacts DEF DriverInv
  <2> QED BY <1>2, <2>1, <2>4, <2>6, <2>7 DEF Awaiting
<1>7. CASE LineCallback /\ ~UNCHANGED <<ready, reply>>
  <2>1. /\ Tcp!HandleLine /\ Head(queue).kind = "line" /\ Head(queue).ok
        /\ ready' = TRUE /\ reply' = Head(queue).frame
    BY <1>7 DEF LineCallback, Signal
  <2>2. queue # <<>> /\ queue' = Tail(queue) /\ UNCHANGED <<wire, reads, io>>
    BY <2>1 DEF Tcp!HandleLine, Tcp!Dispatch
  <2>3. /\ queue \in Seq(Tcp!Handlers) /\ Head(queue) \in Tcp!Handlers
        /\ Head(queue) = queue[1] /\ 1 \in 1..Len(queue)
    <3>1. queue \in Seq(Tcp!Handlers)
      BY <1>3 DEF Tcp!TypeOK, Tcp!DataTyped
    <3> QED BY <2>2, <3>1, ClientAssumptions, Client!OneLess
  <2>4. Head(queue).frame \in Texts
    BY <2>1, <2>3 DEF DriverInv, Client!PathInv, Client!FrameInv, Client!IsLine
  <2>5. Head(queue) \in ReadsOf(Replies)
    BY <2>1, <2>3, <2>4 DEF ReadsOf, Tcp!Handlers, Tcp!ReadKinds, Replies, Texts
  <2>6. Head(queue).frame = f /\ f \in Replies /\ Coming(Replies) /\ ~Coming(Replies)'
    BY <1>3, <2>2, <2>5, HandlerRuns, NoFrameIsNoReply
  <2>7. caller # "idle"
    <3>1. 1 \in Client!LineQueued
      BY <2>1, <2>3 DEF Client!LineQueued, Client!IsLine
    <3> QED BY <3>1 DEF DriverInv, Client!PathInv, Client!LineInv
  <2> QED BY <1>2, <1>4, <2>1, <2>6, <2>7 DEF Awaiting
<1> QED BY <1>5, <1>6, <1>7 DEF IoThread

LEMMA ReadyStep == DriverInv /\ [Next]_vars => ReadyInv'
<1> SUFFICES ASSUME DriverInv, [Next]_vars PROVE ReadyInv'
  OBVIOUS
<1>1. ReadyInv /\ (step # "none" => connected)
  BY DEF DriverInv, CallInv
<1>2. CASE UNCHANGED <<step, command, ready>>
  BY <1>1, <1>2 DEF ReadyInv
<1>3. CASE IoThread
  <2>1. UNCHANGED <<step, command>>
    BY <1>3 DEF IoThread, ReaderRuns, PacketCallback, LineCallback, call
  <2>2. CASE step \in {"read", "send"}
    <3>1. UNCHANGED ready
      BY <1>1, <1>3, <2>2, IoSignals
    <3> QED BY <1>2, <2>1, <3>1
  <2> QED BY <2>1, <2>2 DEF ReadyInv
<1>4. CASE Operation \/ Prepare \/ Send \/ SendFails \/ ReadLine \/ Return \/ Expire
           \/ Disconnect
  BY <1>4 DEF Operation, GetVersionDetails, GetSafetyArea, GetSensorStatus,
     GetConfigurationId, StartStreaming, Query, Call, GetScanDetails, Prepare, Send,
     SendFails, ReadLine, Return, Expire, Disconnect, ReadyInv
<1> QED BY <1>2, <1>3, <1>4
        DEF Next, Caller, Connect, Connecting, Disconnecting, StartingReader, Lidar,
            Answer, Refuse, Ignore, StreamScan, Established, PeerDrops, ReadCompletes,
            ReadFails, Network, call, vars

\* A socket that is closed hands its handlers on with what they carry, and
\* adds no frame.
LEMMA ClosingAddsNothing ==
  ASSUME Tcp!TypeOK, NEW M, NoFrame \notin M, ~Coming(M),
         Tcp!CloseSocket \/ Tcp!ConnectTimeout
  PROVE  ~Coming(M)'
<1>1. queue \in Seq(Tcp!Handlers) /\ reads \in Seq(Tcp!Handlers)
  <2>1. Tcp!ReadOps \subseteq Tcp!Handlers
    BY DEF Tcp!ReadOps, Tcp!Handlers
  <2> QED BY <2>1 DEF Tcp!TypeOK, Tcp!DataTyped
<1>2. PICK handlers \in Seq(Tcp!Handlers) :
        /\ queue' = handlers \o reads /\ reads' = <<>> /\ wire' = <<>> /\ UNCHANGED io
        /\ ~Any(handlers, ReadsOf(M))
  <2>1. CASE Tcp!CloseSocket
    BY <1>1, <2>1 DEF Tcp!CloseSocket, Tcp!CloseDescriptor, Coming, InQueue
  <2>2. CASE Tcp!ConnectTimeout
    <3> DEFINE none == Tcp!Op("abandoned", FALSE, NoFrame)
               forgotten == [i \in 1..Len(queue) |->
                               IF Tcp!IsConnect(queue[i]) THEN none ELSE queue[i]]
    <3>1. none \in Tcp!Handlers /\ none \notin ReadsOf(M)
      BY DEF Tcp!Op, Tcp!Handlers, ReadsOf, Tcp!ReadKinds
    <3>2. Tcp!Abandoned = IF link = "syn" THEN Append(forgotten, none) ELSE forgotten
      BY DEF Tcp!Abandoned
    <3> HIDE DEF none
    <3>3. /\ forgotten \in Seq(Tcp!Handlers) /\ Len(forgotten) = Len(queue)
          /\ \A i \in 1..Len(queue) : forgotten[i] \in {none, queue[i]}
      BY <1>1, <3>1
    <3> HIDE DEF forgotten
    <3>4. ~Any(forgotten, ReadsOf(M))
      BY <3>1, <3>3 DEF Any, Coming, InQueue
    <3>5. ~Any(Append(forgotten, none), ReadsOf(M))
      BY <3>1, <3>3, <3>4, OneMore, NoneAtAll
    <3>6. Tcp!Abandoned \in Seq(Tcp!Handlers)
      BY <3>1, <3>2, <3>3
    <3>7. queue' = Tcp!Abandoned \o reads /\ reads' = <<>> /\ wire' = <<>> /\ UNCHANGED io
      BY <2>2, Zenon DEF Tcp!ConnectTimeout, Tcp!CloseDescriptor
    <3> QED BY <3>2, <3>4, <3>5, <3>6, <3>7
  <2> QED BY <2>1, <2>2
<1>3. /\ Len(handlers) \in Nat /\ Len(reads) \in Nat
      /\ Len(queue') = Len(handlers) + Len(reads)
      /\ \A i \in 1..Len(queue') :
           queue'[i] = IF i <= Len(handlers) THEN handlers[i] ELSE reads[i - Len(handlers)]
  BY <1>1, <1>2, ConcatProperties
<1>4. ~Any(queue', ReadsOf(M))
  BY <1>2, <1>3 DEF Any, Coming, InReads
<1> QED BY <1>2, <1>4, NoneAtAll DEF Coming, OnWire, InReads, InQueue, InIo

\* Where no frame of M is on its way, only the lidar can send one.
LEMMA NothingNew ==
  ASSUME DriverInv, NEW M, NoFrame \notin M, ~Coming(M),
         Caller \/ IoThread \/ (\E ok \in BOOLEAN : Established(ok)) \/ PeerDrops
           \/ ReadCompletes \/ ReadFails
  PROVE  ~Coming(M)'
<1>1. OnlyComing(M, NoFrame)
  BY NothingComing
<1>2. UNCHANGED <<reads, queue, io>> /\ wire' \in {wire, <<>>} => ~Coming(M)'
  BY <1>1, NothingMoves
<1>3. UNCHANGED client => ~Coming(M)'
  BY <1>2 DEF client
<1>4. CASE StartingReader \/ ReadLine \/ IoThread \/ EnsureReader \/ Return
             \/ (\E ok \in BOOLEAN : Established(ok)) \/ PeerDrops \/ ReadCompletes
             \/ ReadFails
  BY <1>1, <1>4, ClientMoves
<1>5. CASE Tcp!CloseSocket \/ Tcp!ConnectTimeout
  BY <1>5, ClosingAddsNothing DEF DriverInv, TypeInv, TypeOK
<1>6. CASE Connect \/ Connecting \/ Disconnect \/ Disconnecting
  BY <1>2, <1>5, <1>6 DEF Connect, Connecting, Disconnect, Disconnecting, Tcp!Connect,
     Tcp!ConnectFailed, Tcp!ConnectDone, Tcp!SetOption, Tcp!Disconnect, Tcp!SetStopped
<1>7. CASE Operation
  BY <1>3, <1>4, <1>7 DEF Operation, GetVersionDetails, GetSafetyArea, GetSensorStatus,
     GetConfigurationId, StartStreaming, Query, Call, GetScanDetails
<1>8. CASE Prepare \/ Send \/ SendFails \/ Expire
  BY <1>2, <1>3, <1>8 DEF Prepare, Send, SendFails, Expire, Tcp!LineTimeout
<1> QED BY <1>4, <1>6, <1>7, <1>8 DEF Caller

\* If what is expected is no reply, then no reply is on its way.
LEMMA NothingExpected ==
  ASSUME NEW f, f \notin Replies, OnlyComing(Replies, f)
  PROVE  ~Coming(Replies)
<1>1. ~OnWire(Replies)
  BY DEF OnWire, Any, OnlyComing, AtMostOne
<1>2. \A op \in ReadsOf({f}) : op \notin ReadsOf(Replies)
  BY DEF ReadsOf
<1>3. ~InReads(Replies) /\ ~InQueue(Replies)
  BY <1>2 DEF InReads, InQueue, Any, OnlyComing, AtMostOne
<1>4. ~InIo(Replies)
  BY DEF InIo, OnlyComing
<1> QED BY <1>1, <1>3, <1>4 DEF Coming

\* What the lidar sends is put on the wire.
LEMMA LidarSends ==
  ASSUME Tcp!TypeOK, NEW M, NEW f, OnlyComing(M, f),
         NEW frame \in Packets \cup Texts,
         Tcp!Arrive(frame), frame \in M => frame = f /\ ~Coming(M)
  PROVE  OnlyComing(M, f)' /\ (Coming(M)' => Coming(M) \/ frame \in M)
<1>1. wire \in Seq(Tcp!Frames) /\ frame \in Tcp!Frames
  BY LidarFrames DEF Tcp!TypeOK, Tcp!DataTyped
<1>2. wire' = Append(wire, frame) /\ UNCHANGED <<reads, queue, io>>
  BY DEF Tcp!Arrive
<1>3. AtMostOne(wire', M, {f}) /\ (OnWire(M)' <=> OnWire(M) \/ frame \in M)
  BY <1>1, <1>2, OneMore DEF OnlyComing, OnWire, Coming
<1>4. InReads(M)' = InReads(M) /\ InQueue(M)' = InQueue(M) /\ InIo(M)' = InIo(M)
  BY <1>2 DEF InReads, InQueue, InIo
<1> QED BY <1>2, <1>3, <1>4 DEF OnlyComing, Coming

\* A refusal and a scan wake nobody.
LEMMA OtherFrames ==
  ASSUME TypeOK, Refuse \/ StreamScan
  PROVE  \E frame \in Packets \cup Texts : Tcp!Arrive(frame) /\ frame \notin Replies
<1>1. CASE Refuse
  <2>1. Refusal \notin Replies
    BY DEF Refusal, Frame, Replies, CommandReplies
  <2> QED BY <1>1, <2>1, LidarFrames DEF Refuse
<1>2. CASE StreamScan
  <2>1. stream \in Modes
    BY <1>2, StreamingAssumption DEF StreamScan, TypeOK
  <2>2. Frame(ScanOf(stream), 0) \notin Replies
    BY <2>1 DEF Frame, Replies, CommandReplies, ScanOf, Modes
  <2> QED BY <1>2, <2>1, <2>2, LidarFrames DEF StreamScan
<1> QED BY <1>1, <1>2

\* A session that has just been established has an empty path.
LEMMA NewSession ==
  ASSUME DriverInv, NEW M, NoFrame \notin M, Tcp!ConnectDone
  PROVE  ~Coming(M) /\ asked = <<>> /\ stream = INVALID /\ step = "none"
<1>1. caller = "connecting" /\ dial # "pending" /\ ~connected
  BY ClientFacts DEF Tcp!ConnectDone, DriverInv
<1>2. asked = <<>> /\ wire = <<>> /\ stream = INVALID
  BY <1>1 DEF DriverInv, FreshInv
<1>3. reads = <<>> /\ Client!ChainQueued = {} /\ io.at = "idle"
  BY <1>1 DEF DriverInv, Client!PathInv, Client!IInv, Client!SocketInv, Client!DialInv,
     Client!NoChain, Client!IoBusy
<1>4. Client!LineQueued = {}
  BY <1>1 DEF DriverInv, Client!PathInv, Client!LineInv
<1>5. ~InQueue(M)
  <2> SUFFICES ASSUME NEW i \in 1..Len(queue), queue[i] \in ReadsOf(M) PROVE FALSE
    BY DEF InQueue, Any
  <2>1. queue[i].kind \in {"header", "body", "line"}
    BY DEF ReadsOf, Tcp!ReadKinds
  <2> QED BY <1>3, <1>4, <2>1 DEF Client!ChainQueued, Client!LineQueued, Client!IsChain,
             Client!IsLine
<1>6. ~InIo(M)
  BY <1>3 DEF InIo, DriverInv, Client!PathInv, Client!FrameInv
<1>7. ~OnWire(M) /\ ~InReads(M)
  BY <1>2, <1>3, NoneAtAll DEF OnWire, InReads
<1>8. step = "none"
  BY <1>1 DEF DriverInv, CallInv
<1> QED BY <1>2, <1>5, <1>6, <1>7, <1>8 DEF Coming

\* A session goes on, or it has just been established.
LEMMA SessionStep ==
  ASSUME DriverInv, [Next]_vars, connected', step' # "threw"
  PROVE  \/ connected /\ step # "threw"
         \/ Tcp!ConnectDone /\ UNCHANGED <<call, ready, reply, mode, ticket, lidar>>
<1>1. CASE UNCHANGED vars
  BY <1>1 DEF vars, client, call
<1>2. CASE Caller
  BY <1>2 DEF Caller, Connect, Connecting, Disconnect, Disconnecting, Operation,
     GetVersionDetails, GetSafetyArea, GetSensorStatus, GetConfigurationId,
     StartStreaming, Query, Call, EnsureReader, GetScanDetails, StartingReader, Prepare,
     Send, SendFails, ReadLine, Return, Expire, Tcp!Connect, Tcp!ConnectTimeout,
     Tcp!ConnectFailed, Tcp!SetOption, Tcp!Disconnect, Tcp!CloseSocket, Tcp!SetStopped,
     Tcp!StartAsyncReadTask, Tcp!ClearStopped, Tcp!AsyncReadLine, Tcp!LineReturned,
     Tcp!LineTimeout, client, call, DriverInv, CallInv
<1>3. CASE IoThread
  BY <1>3 DEF IoThread, ReaderRuns, PacketCallback, LineCallback, Tcp!HandleReceive,
     Tcp!StartBody, Tcp!HandlePacket, Tcp!CheckConnected, Tcp!ArmHeader, Tcp!Die,
     Tcp!HandleConnect, Tcp!CallbackReturns, Tcp!HandleLine, call
<1>4. CASE \/ Lidar \/ \E ok \in BOOLEAN : Established(ok)
           \/ PeerDrops \/ ReadCompletes \/ ReadFails
  BY <1>4 DEF Lidar, Answer, Refuse, Ignore, StreamScan, Established, PeerDrops,
     ReadCompletes, ReadFails, Network, Tcp!Arrive, Tcp!Established, Tcp!PeerDrops,
     Tcp!ReadCompletes, Tcp!ReadFails, client, call
<1> QED BY <1>1, <1>2, <1>3, <1>4 DEF Next

\* A command that the driver sends finds the path empty.
LEMMA EmptyBeforeSend ==
  ASSUME DriverInv, connected, step # "threw", Send
  PROVE  asked = <<>> /\ ~Coming(Replies) /\ ~Coming(Replies)'
<1>1. Expected = NoFrame
  BY DEF Send, Expected, Awaiting
<1>2. OnlyOnTheWay(NoFrame)
  BY <1>1 DEF DriverInv, ReplyInv
<1>3. asked = <<>> /\ ~Coming(Replies)
  BY <1>2, NoFrameIsNoReply, NothingExpected DEF OnlyOnTheWay
<1>4. Coming(Replies)' = Coming(Replies)
  BY DEF Send, client, Coming, OnWire, InReads, InQueue, InIo
<1> QED BY <1>3, <1>4

LEMMA ReplyStep == DriverInv /\ [Next]_vars => ReplyInv'
<1> SUFFICES ASSUME DriverInv, [Next]_vars, connected', step' # "threw"
             PROVE  /\ OnlyOnTheWay(Expected)'
                    /\ (step = "wait" /\ ready => /\ reply = Frame(command, ticket)
                                                  /\ reply \in Replies)'
  BY DEF ReplyInv
<1> DEFINE Answered == (step = "wait" /\ ready => /\ reply = Frame(command, ticket)
                                                   /\ reply \in Replies)'
\* The four ways in which a step may leave the path.
<1>1. ASSUME ~Coming(Replies)', asked' = <<>> PROVE OnlyOnTheWay(Expected)'
  <2> PICK g : g = Expected'
    OBVIOUS
  <2>1. OnlyComing(Replies, g)'
    BY <1>1, NothingComing
  <2> QED BY <1>1, <2>1 DEF OnlyOnTheWay, OnlyComing
<1>2. CASE Tcp!ConnectDone /\ UNCHANGED <<call, ready, reply, mode, ticket, lidar>>
  <2>1. ~Coming(Replies) /\ asked = <<>> /\ step = "none"
    BY <1>2, NewSession, NoFrameIsNoReply
  <2>2. UNCHANGED <<wire, reads, queue, io>>
    BY <1>2 DEF Tcp!ConnectDone
  <2>3. ~Coming(Replies)'
    BY <2>1, <2>2 DEF Coming, OnWire, InReads, InQueue, InIo
  <2> QED BY <1>1, <1>2, <2>1, <2>3 DEF call, lidar
<1>3. CASE connected /\ step # "threw"
  <2> PICK f : f = Expected
    OBVIOUS
  <2>1. /\ OnlyOnTheWay(f)
        /\ step = "wait" /\ ready => reply = Frame(command, ticket) /\ reply \in Replies
    BY <1>3 DEF DriverInv, ReplyInv
  <2>2. /\ OnlyComing(Replies, f)
        /\ asked # <<>> => asked = <<f>> /\ f # NoFrame /\ ~Coming(Replies)
    BY <2>1 DEF OnlyOnTheWay
  <2>3. TypeOK /\ Tcp!TypeOK
    BY DEF DriverInv, TypeInv, TypeOK
  <2>4. ASSUME OnlyComing(Replies, f)', Expected' = f,
               asked' # <<>> => asked' = <<f>> /\ f # NoFrame /\ ~Coming(Replies)'
        PROVE  OnlyOnTheWay(Expected)'
    BY <2>4 DEF OnlyOnTheWay, OnlyComing
  <2>5. ASSUME OnlyComing(Replies, f)', Coming(Replies)' => Coming(Replies),
               UNCHANGED asked, Expected' = f
        PROVE  OnlyOnTheWay(Expected)'
    BY <2>2, <2>4, <2>5
  <2>6. UNCHANGED <<step, command, ticket, ready>> => Expected' = f
    BY DEF Expected, Awaiting
  <2>7. UNCHANGED client => OnlyComing(Replies, f)' /\ Coming(Replies)' = Coming(Replies)
    BY <2>2 DEF client, OnlyComing, Coming, OnWire, InReads, InQueue, InIo
  <2>8. CASE UNCHANGED vars
    BY <2>1, <2>5, <2>6, <2>7, <2>8 DEF vars, call, lidar
  <2>9. CASE \/ Connecting \/ Disconnecting \/ StartingReader
             \/ \E ok \in BOOLEAN : Established(ok)
             \/ PeerDrops \/ ReadCompletes \/ ReadFails
    <3>1. UNCHANGED <<step, command, ticket, ready, reply, asked>>
      BY <2>9 DEF Connecting, Disconnecting, StartingReader, Established, PeerDrops,
         ReadCompletes, ReadFails, Network, call, lidar
    <3>2. OnlyComing(Replies, f)' /\ (Coming(Replies)' => Coming(Replies))
      BY <1>3, <2>2, <2>9, ClientMoves, NoFrameIsNoReply
    <3> QED BY <2>1, <2>5, <2>6, <3>1, <3>2
  <2>10. CASE Connect \/ Disconnect \/ SendFails \/ Expire
    BY <1>3, <2>10 DEF Connect, Disconnect, SendFails, Expire, Tcp!Connect, Tcp!Disconnect
  <2>11. CASE Operation
    <3>1. step = "none" /\ f = NoFrame
      BY <2>11 DEF Operation, GetVersionDetails, GetSafetyArea, GetSensorStatus,
         GetConfigurationId, StartStreaming, Query, Call, GetScanDetails, Expected, Awaiting
    <3>2. CASE EnsureReader /\ step' = "prepare" /\ command' # "PP" /\ UNCHANGED asked
      BY <1>3, <2>2, <2>5, <3>1, <3>2, ClientMoves, NoFrameIsNoReply DEF Expected, Awaiting
    <3>3. CASE UNCHANGED client /\ step' = "send" /\ UNCHANGED asked
      BY <2>2, <2>5, <2>7, <3>1, <3>3 DEF Expected, Awaiting
    <3>4. mode # INVALID => StopCommand(mode) # "PP"
      BY <2>3, CommandFacts DEF TypeOK
    <3> QED BY <2>11, <3>2, <3>3, <3>4, CommandFacts
            DEF Operation, GetVersionDetails, GetSafetyArea, GetSensorStatus,
                GetConfigurationId, StartStreaming, Query, Call, GetScanDetails, lidar
  <2>12. CASE Prepare
    <3>1. Expected' = f
      BY <2>12 DEF Prepare, Expected, Awaiting
    <3> QED BY <2>2, <2>5, <2>7, <2>12, <3>1 DEF Prepare, lidar
  <2>13. CASE Send
    <3>1. asked = <<>> /\ ~Coming(Replies)'
      BY <1>3, <2>13, EmptyBeforeSend
    <3> PICK g : g = Frame(command, ticket')
      OBVIOUS
    <3>2. OnlyComing(Replies, g)'
      BY <3>1, NothingComing
    <3>3. Expected' = g
      BY <2>13 DEF Send, Expected, Awaiting, DriverInv, ReadyInv
    <3>4. asked' = <<g>>
      <4>1. asked' = Append(<<>>, g)
        BY <2>13, <3>1 DEF Send
      <4> QED BY <4>1
    <3>5. g # NoFrame
      <4>1. command # NoCommand
        BY <2>13 DEF Send, DriverInv, TypeInv
      <4> QED BY <4>1 DEF Frame, NoFrame, NoCommand
    <3>6. OnlyOnTheWay(Expected)'
      BY <3>1, <3>2, <3>3, <3>4, <3>5 DEF OnlyOnTheWay, OnlyComing
    <3>7. Answered
      BY <2>13 DEF Send, DriverInv, ReadyInv
    <3> QED BY <3>6, <3>7
  <2>14. CASE ReadLine
    <3>1. ~ready /\ ~ready'
      BY <2>14 DEF ReadLine, DriverInv, ReadyInv
    <3>2. command = "PP"
      BY <2>14 DEF ReadLine, DriverInv, CallInv
    <3>3. Expected' = f
      BY <2>14, <3>1, <3>2 DEF ReadLine, Expected, Awaiting
    <3>4. OnlyComing(Replies, f)' /\ (Coming(Replies)' => Coming(Replies))
      BY <1>3, <2>2, <2>14, ClientMoves, NoFrameIsNoReply
    <3> QED BY <2>5, <2>14, <3>1, <3>3, <3>4 DEF ReadLine, lidar
  <2>15. CASE Return
    <3>1. f = NoFrame
      BY <2>15 DEF Return, Expected, Awaiting
    <3>2. step' # "wait" /\ (step' = "prepare" => command' # "PP")
      BY <2>15 DEF Return, DriverInv, CallInv
    <3>3. Expected' = f
      BY <2>15, <3>1, <3>2 DEF Return, Expected, Awaiting
    <3>4. OnlyComing(Replies, f)' /\ (Coming(Replies)' => Coming(Replies))
      BY <1>3, <2>2, <2>15, ClientMoves, NoFrameIsNoReply
    <3> QED BY <2>5, <2>15, <3>2, <3>3, <3>4 DEF Return, lidar
  <2>16. CASE IoThread
    <3>1. UNCHANGED <<step, command, ticket, asked>>
      BY <2>16 DEF IoThread, ReaderRuns, PacketCallback, LineCallback, call, lidar
    <3>2. OnlyComing(Replies, f)' /\ (Coming(Replies)' => Coming(Replies))
      BY <1>3, <2>2, <2>16, ClientMoves, NoFrameIsNoReply
    <3>3. CASE UNCHANGED <<ready, reply>>
      BY <2>1, <2>5, <2>6, <3>1, <3>2, <3>3
    <3>4. CASE /\ ready' = TRUE /\ reply' = Frame(command, ticket) /\ reply' \in Replies
               /\ Coming(Replies) /\ ~Coming(Replies)'
      <4>1. asked' = <<>>
        BY <2>2, <3>1, <3>4
      <4> QED BY <1>1, <3>1, <3>4, <4>1
    <3> QED BY <1>3, <2>16, <3>3, <3>4, IoSignals
  <2>17. CASE Lidar
    <3>1. UNCHANGED <<step, command, ticket, ready, reply>>
      BY <2>17 DEF Lidar, Answer, Refuse, Ignore, StreamScan, call
    <3>2. Expected' = f /\ Answered
      BY <2>1, <2>6, <3>1
    <3>3. CASE Answer
      <4>1. asked = <<f>> /\ f = Head(asked) /\ f \in Packets \cup Texts /\ ~Coming(Replies)
        BY <2>2, <2>3, <3>3, SendingFrames DEF Answer, Take
      <4>2. asked' = <<>>
        BY <3>3, <4>1 DEF Answer, Take
      <4>3. OnlyComing(Replies, f)'
        BY <2>2, <2>3, <3>3, <4>1, LidarSends DEF Answer
      <4> QED BY <2>4, <3>2, <4>2, <4>3
    <3>4. CASE Refuse \/ StreamScan
      <4>1. PICK frame \in Packets \cup Texts : Tcp!Arrive(frame) /\ frame \notin Replies
        BY <2>3, <3>4, OtherFrames
      <4>2. OnlyComing(Replies, f)' /\ (Coming(Replies)' => Coming(Replies))
        BY <2>2, <2>3, <4>1, LidarSends
      <4>3. asked' = asked \/ asked' = <<>>
        BY <2>2, <3>4 DEF Refuse, StreamScan, Take, lidar
      <4> QED BY <2>2, <2>4, <3>2, <4>2, <4>3
    <3>5. CASE Ignore
      <4>1. asked' = <<>>
        BY <2>2, <3>5 DEF Ignore, Take
      <4> QED BY <2>4, <2>7, <3>2, <3>5, <4>1 DEF Ignore
    <3> QED BY <2>17, <3>3, <3>4, <3>5 DEF Lidar
  <2> QED BY <2>8, <2>9, <2>10, <2>11, <2>12, <2>13, <2>14, <2>15, <2>16, <2>17
          DEF Next, Caller
<1> QED BY <1>2, <1>3, SessionStep

LEMMA StreamStep == DriverInv /\ [Next]_vars => StreamInv'
<1> SUFFICES ASSUME DriverInv, [Next]_vars, connected', step' # "threw"
             PROVE  /\ (\/ stream \in {INVALID, mode}
                        \/ step = "wait" /\ command = Streaming)'
                    /\ (step = "wait" /\ command = StopCommand(Streaming)
                          /\ (Coming(Replies) \/ ready) => stream = INVALID)'
                    /\ (step = "wait" /\ command = Streaming
                          /\ (Coming(Replies) \/ ready) => stream = Streaming)'
  BY DEF StreamInv
<1> DEFINE Goal == StreamInv'
<1>1. SUFFICES Goal
  BY DEF StreamInv
<1>2. CASE Tcp!ConnectDone /\ UNCHANGED <<call, ready, reply, mode, ticket, lidar>>
  BY <1>2, NewSession, NoFrameIsNoReply DEF call, lidar, StreamInv
<1>3. CASE connected /\ step # "threw"
  <2>1. /\ stream \in {INVALID, mode} \/ (step = "wait" /\ command = Streaming)
        /\ step = "wait" /\ command = StopCommand(Streaming)
             /\ (Coming(Replies) \/ ready) => stream = INVALID
        /\ step = "wait" /\ command = Streaming /\ (Coming(Replies) \/ ready) =>
             stream = Streaming
    BY <1>3 DEF DriverInv, StreamInv
  <2>2. TypeOK /\ Tcp!TypeOK /\ (step # "none" => command \in Commands)
    BY DEF DriverInv, TypeInv, TypeOK
  <2> PICK f : f = Expected
    OBVIOUS
  <2>3. /\ OnlyComing(Replies, f)
        /\ asked # <<>> => asked = <<f>> /\ f # NoFrame /\ ~Coming(Replies)
    BY <1>3 DEF DriverInv, ReplyInv, OnlyOnTheWay
  <2>4. /\ UNCHANGED <<step, command, ready, mode, stream>>
        /\ Coming(Replies)' => Coming(Replies)
        => Goal
    BY <2>1 DEF StreamInv
  <2>5. UNCHANGED client => Coming(Replies)' = Coming(Replies)
    BY DEF client, Coming, OnWire, InReads, InQueue, InIo
  <2>6. stream \in {INVALID, mode} /\ UNCHANGED <<mode, stream>> /\ step' # "wait" => Goal
    BY DEF StreamInv
  <2>7. CASE UNCHANGED vars
    BY <2>4, <2>5, <2>7 DEF vars, call, lidar
  <2>8. CASE \/ Connecting \/ Disconnecting \/ StartingReader
             \/ \E ok \in BOOLEAN : Established(ok)
             \/ PeerDrops \/ ReadCompletes \/ ReadFails
    <3>1. UNCHANGED <<step, command, ready, mode, stream>>
      BY <2>8 DEF Connecting, Disconnecting, StartingReader, Established, PeerDrops,
         ReadCompletes, ReadFails, Network, call, lidar
    <3>2. Coming(Replies)' => Coming(Replies)
      BY <1>3, <2>3, <2>8, ClientMoves, NoFrameIsNoReply
    <3> QED BY <2>4, <3>1, <3>2
  <2>9. CASE Connect \/ Disconnect \/ SendFails \/ Expire
    BY <1>3, <2>9 DEF Connect, Disconnect, SendFails, Expire, Tcp!Connect, Tcp!Disconnect
  <2>10. CASE Operation \/ Prepare
    <3>1. step \in {"none", "prepare"} /\ step' # "wait" /\ UNCHANGED <<mode, stream>>
      BY <2>10 DEF Operation, GetVersionDetails, GetSafetyArea, GetSensorStatus,
         GetConfigurationId, StartStreaming, Query, Call, GetScanDetails, Prepare, lidar
    <3> QED BY <2>1, <2>6, <3>1
  <2>11. CASE Send
    <3>1. ~Coming(Replies)' /\ stream \in {INVALID, mode}
      BY <1>3, <2>1, <2>11, EmptyBeforeSend DEF Send
    <3>2. command # "PP" => ~ready
      BY <2>11 DEF Send, DriverInv, ReadyInv
    <3> QED BY <2>11, <3>1, <3>2, CommandFacts DEF Send, StreamInv
  <2>12. CASE ReadLine
    <3>1. /\ stream \in {INVALID, mode} /\ command = "PP"
          /\ UNCHANGED <<command, mode, stream>>
      BY <2>1, <2>12 DEF ReadLine, DriverInv, CallInv, lidar
    <3> QED BY <3>1, CommandFacts DEF StreamInv
  <2>13. CASE Return
    <3>1. /\ step = "wait" /\ ready /\ step' # "wait" /\ mode' = ModeAfter(command)
          /\ stream' = stream /\ stream \in {INVALID, Streaming} /\ command \in Commands
          /\ mode \in {INVALID, Streaming}
      BY <2>2, <2>13 DEF Return, lidar, TypeOK
    <3>2. stream \in {INVALID, mode'}
      <4>1. CASE command = Streaming
        BY <3>1, <4>1, StreamingAssumption, CommandFacts DEF ModeAfter
      <4>2. CASE command # Streaming /\ mode # INVALID /\ command = StopCommand(mode)
        BY <2>1, <3>1, <4>2
      <4>3. CASE command # Streaming /\ ~(mode # INVALID /\ command = StopCommand(mode))
        <5>1. command \notin Modes
          BY <3>1, <4>3, CommandFacts
        <5>2. mode' = mode
          BY <3>1, <4>3, <5>1 DEF ModeAfter
        <5> QED BY <2>1, <4>3, <5>2
      <4> QED BY <4>1, <4>2, <4>3
    <3> QED BY <3>1, <3>2 DEF StreamInv
  <2>14. CASE IoThread
    <3>1. UNCHANGED <<step, command, mode, stream>>
      BY <2>14 DEF IoThread, ReaderRuns, PacketCallback, LineCallback, call, lidar
    <3>2. Coming(Replies)' => Coming(Replies)
      BY <1>3, <2>3, <2>14, ClientMoves, NoFrameIsNoReply
    <3>3. UNCHANGED ready \/ Coming(Replies)
      BY <1>3, <2>14, IoSignals
    <3> QED BY <2>1, <3>1, <3>2, <3>3 DEF StreamInv
  <2>15. CASE Answer
    <3>1. /\ UNCHANGED <<step, command, ready, mode>> /\ Tcp!Arrive(Head(asked))
          /\ asked # <<>>
          /\ stream' = CASE Head(asked).name \in Modes -> Head(asked).name
                         [] stream # INVALID /\ Head(asked).name = EndsStream(stream) ->
                              INVALID
                         [] OTHER -> stream
      BY <2>15 DEF Answer, Take, call
    <3>2. Awaiting /\ f = Frame(command, ticket) /\ Head(asked) = f /\ ~Coming(Replies)
      BY <2>3, <3>1 DEF Expected
    <3>3. Head(asked).name = command /\ command \in Commands /\ command # INVALID
      BY <2>2, <3>2, CommandFacts DEF Frame, Awaiting
    <3>4. Coming(Replies)' => f \in Replies
      BY <2>2, <2>3, <3>1, <3>2, SendingFrames, LidarSends
    <3>5. CASE command \in Modes
      <4>1. command = Streaming /\ command # "PP" /\ command # StopCommand(Streaming)
        BY <3>3, <3>5, CommandFacts
      <4>2. step = "wait"
        BY <3>2, <4>1 DEF Awaiting
      <4>3. stream' = Streaming
        <5>1. stream # INVALID => EndsStream(stream) \notin Modes
          BY <2>2, StreamingAssumption DEF TypeOK, Modes, EndsStream, INVALID
        <5> QED BY <3>1, <3>3, <3>5, <4>1, <5>1
      <4> QED BY <3>1, <4>1, <4>2, <4>3 DEF StreamInv
    <3>6. CASE command \notin Modes
      <4>1. stream' \in {INVALID, stream}
        BY <3>1, <3>3, <3>6
      <4>2. stream' \in {INVALID, mode'}
        BY <2>1, <3>1, <3>6, <4>1, StreamingAssumption
      <4>3. ASSUME step = "wait", command = StopCommand(Streaming),
                   Coming(Replies)' \/ ready
            PROVE  stream' = INVALID
        <5>1. ~ready /\ f \in Replies
          BY <3>2, <3>4, <4>3, CommandFacts DEF Awaiting
        <5>2. command \in CommandReplies
          BY <3>2, <4>3, <5>1, CommandFacts DEF Replies, Frame
        <5>3. command = EndsStream(Streaming)
          BY <4>3, <5>2, StreamingAssumption
          DEF Modes, StopCommand, EndsStream, CommandReplies
        <5>4. stream \in {INVALID, Streaming}
          BY <2>2 DEF TypeOK
        <5> QED BY <3>1, <3>3, <3>6, <5>3, <5>4
      <4>4. command # Streaming
        BY <3>6, StreamingAssumption
      <4> QED BY <3>1, <4>2, <4>3, <4>4 DEF StreamInv
    <3> QED BY <3>5, <3>6
  <2>16. CASE Refuse \/ StreamScan
    <3>1. UNCHANGED <<step, command, ready, mode, stream>>
      BY <2>16 DEF Refuse, StreamScan, call, lidar
    <3>2. Coming(Replies)' => Coming(Replies)
      BY <2>2, <2>3, <2>16, OtherFrames, LidarSends
    <3> QED BY <2>4, <3>1, <3>2
  <2>17. CASE Ignore
    BY <2>4, <2>5, <2>17 DEF Ignore, call
  <2> QED BY <2>7, <2>8, <2>9, <2>10, <2>11, <2>12, <2>13, <2>14, <2>15, <2>16, <2>17
          DEF Next, Caller, Lidar
<1> QED BY <1>2, <1>3, SessionStep

(***************************************************************************)
(* THE THEOREMS                                                            *)
(***************************************************************************)
LEMMA DriverStep == DriverInv /\ Settle /\ [Next]_vars => DriverInv'
<1> SUFFICES ASSUME DriverInv, Settle, [Next]_vars PROVE DriverInv'
  OBVIOUS
<1>1. TypeInv' /\ Client!PathInv'
  BY TypeStep, PathKept DEF DriverInv, TypeInv
<1>2. CallInv' /\ FreshInv' /\ ReadyInv' /\ ReplyInv' /\ StreamInv'
  BY CallStep, FreshStep, ReadyStep, ReplyStep, StreamStep
<1> QED BY <1>1, <1>2 DEF DriverInv

LEMMA DriverInvariant == ASSUME Settle PROVE Spec => []DriverInv
<1>1. DriverInv /\ [Next]_vars => DriverInv'
  BY DriverStep
<1> QED BY <1>1, DriverInit, PTL DEF Spec

\* The reply that wakes a command answers that command, and that sending of
\* it: sendCommandWithReply() asks nothing of the flag but that it is set.
THEOREM ReplyAnswersCommandAlways == ASSUME Settle PROVE Spec => []ReplyAnswersCommand
<1>1. DriverInv => ReplyAnswersCommand
  BY DEF DriverInv, CallInv, ReplyInv, ReplyAnswersCommand
<1> QED BY <1>1, DriverInvariant, PTL

\* Between commands the lidar streams nothing but what subscription_mode_ says,
\* so that a query which must not be asked of a streaming lidar stops it first.
THEOREM StreamIsKnownAlways == ASSUME Settle PROVE Spec => []StreamIsKnown
<1>1. DriverInv => StreamIsKnown
  BY DEF DriverInv, StreamInv, StreamIsKnown
<1> QED BY <1>1, DriverInvariant, PTL

\* A blocking call never waits on a reader that is gone: as long as a binary
\* command waits for its reply, a read chain is alive.
THEOREM WaitHasReaderAlways == ASSUME Settle PROVE Spec => []WaitHasReader
<1>1. DriverInv => WaitHasReader
  <2> SUFFICES ASSUME DriverInv, step = "wait", command # "PP"
               PROVE  ~stopped /\ ~Tcp!NoChain
    BY DEF WaitHasReader
  <2>1. connected /\ ~stopped
    BY DEF DriverInv, CallInv
  <2>2. ~Client!NoChain
    BY <2>1 DEF DriverInv, Client!PathInv, Client!IInv, Client!ReaderInv
  <2>3. Client!NoChain <=> Tcp!NoChain
    BY DEF Client!NoChain, Tcp!NoChain, Client!ChainReads, Tcp!ChainReads,
       Client!ChainQueued, Tcp!ChainQueued, Client!IoBusy, Tcp!IoBusy, Client!IsChain,
       Tcp!IsChain
  <2> QED BY <2>1, <2>2, <2>3
<1> QED BY <1>1, DriverInvariant, PTL

=============================================================================
