------------------------------- MODULE UamDriver -------------------------------
(***************************************************************************)
(* The network driver of the UAM lidar (uam/uam_driver.h, uam_driver.cpp): *)
(* blocking commands over the asynchronous TcpClient.                      *)
(*                                                                         *)
(* A command clears the "reply is ready" flag, sends its bytes and sleeps  *)
(* on a condition variable; the callback of any reply packet stores it and *)
(* sets the flag.  Nothing in the flag says WHICH command was answered, so *)
(* a reply must never outlive the wait of the command that asked for it.   *)
(*                                                                         *)
(* The lidar is the environment: it answers the commands of a connection   *)
(* in order, may refuse or ignore one, and streams scans on the connection *)
(* that subscribed to them.                                                *)
(***************************************************************************)
EXTENDS Naturals, Sequences

CONSTANTS
  Queries,    \* commands other than the subscriptions that the client issues
  Streaming,  \* the subscription its parameters select: AR02, AR04 or AR07
  MaxAsked,   \* bound: commands the lidar has not answered yet
  MaxWire, MaxQueue, Settle   \* of TcpClient

Modes    == {"AR02", "AR04", "AR07"}
INVALID  == "INVALID"
NoCommand == "none"

\* stopStreaming() sends AR06 to end AR07; the lidar ends AR07 with AR08.
StopCommand(m) == CASE m = "AR02" -> "AR03" [] m = "AR04" -> "AR05" [] m = "AR07" -> "AR06"
EndsStream(m)  == CASE m = "AR02" -> "AR03" [] m = "AR04" -> "AR05" [] m = "AR07" -> "AR08"
ScanOf(m)      == CASE m = "AR02" -> "AR00" [] m = "AR04" -> "AR01" [] m = "AR07" -> "AR06"

Scans    == {"AR00", "AR01", "AR06"}
\* Packets registered to processCommandReply.
CommandReplies == {"VR00", "XR00", "ID00", "YR", "AR02", "AR04", "AR07", "AR03",
                   "AR05", "AR08"}
Commands == Queries \cup {Streaming, StopCommand(Streaming)}

ASSUME QueriesAssumption == Queries \subseteq {"PP", "VR00", "XR00", "ID00", "YR"}
ASSUME StreamingAssumption == Streaming \in Modes
ASSUME MaxAskedAssumption == MaxAsked \in Nat
ASSUME ClientBoundAssumption == MaxWire \in Nat /\ MaxQueue \in Nat /\ Settle \in BOOLEAN

\* A frame names the command it answers; the ticket, which no real frame
\* has, tells two sendings of the same command apart.
Frame(name, ticket) == [name |-> name, ticket |-> ticket]
NoFrame == Frame("none", 0)
Refusal == Frame("refused", 0)   \* status not OK or CRC wrong: no callback
Packets == [name : CommandReplies \cup Scans \cup {"refused"}, ticket : {0, 1}]
Texts   == [name : {"PP"}, ticket : {0, 1}]
Noise   == {}

VARIABLES connected, stopped, caller, dial, open, link, wire, reads, queue, io

Tcp == INSTANCE TcpClient

VARIABLES
  step,     \* where sendCommandWithReply or sendPPCommandWithReply is
  command,  \* the command it sends
  then,     \* the query that follows the stop command of getSensorStatus
  ready,    \* pending_command_reply_ready_
  reply,    \* pending_command_reply_, or pending_scip_reply_
  mode,     \* subscription_mode_
  ticket,   \* of the last command sent
  asked,    \* the lidar: commands of this connection it has not answered
  stream    \* the lidar: what it streams on this connection

client == <<connected, stopped, caller, dial, open, link, wire, reads, queue, io>>
call   == <<step, command, then>>
lidar  == <<asked, stream>>
vars   == <<client, call, ready, reply, mode, ticket, lidar>>

Steps == {"none", "prepare", "send", "read", "wait", "threw"}

TypeOK ==
  /\ Tcp!TypeOK
  /\ step \in Steps
  /\ command \in Commands \cup {NoCommand}
  /\ then \in Queries \cup {NoCommand}
  /\ ready \in BOOLEAN
  /\ reply \in Packets \cup Texts \cup {NoFrame}
  /\ mode \in {INVALID, Streaming}
  /\ ticket \in {0, 1}
  /\ asked \in Seq([name : Commands, ticket : {0, 1}])
  /\ stream \in {INVALID, Streaming}

Init ==
  /\ Tcp!Init
  /\ step = "none" /\ command = NoCommand /\ then = NoCommand
  /\ ready = FALSE /\ reply = NoFrame /\ mode = INVALID /\ ticket = 0
  /\ asked = <<>> /\ stream = INVALID

----------------------------------------------------------------------------
(* The caller's thread: connections *)

\* A new connection is a new session of the lidar.
Connect ==
  /\ step = "none" /\ Tcp!Connect
  /\ asked' = <<>> /\ stream' = INVALID
  /\ UNCHANGED <<call, ready, reply, mode, ticket>>

Connecting ==
  /\ Tcp!ConnectTimeout \/ Tcp!ConnectFailed \/ Tcp!ConnectDone \/ Tcp!SetOption
  /\ UNCHANGED <<call, ready, reply, mode, ticket, lidar>>

\* A client that catches the exception of a call disconnects; disconnect()
\* leaves subscription_mode_ as it is.
Disconnect ==
  /\ step \in {"none", "threw"} /\ Tcp!Disconnect
  /\ step' = "none" /\ command' = NoCommand /\ then' = NoCommand
  /\ UNCHANGED <<ready, reply, mode, ticket, lidar>>

Disconnecting ==
  /\ Tcp!CloseSocket \/ Tcp!SetStopped
  /\ UNCHANGED <<call, ready, reply, mode, ticket, lidar>>

----------------------------------------------------------------------------
(* The caller's thread: commands *)

\* Mutant: the command is sent whether or not somebody reads the replies.
EnsureReaderNot == UNCHANGED client

EnsureReader ==
  \/ stopped /\ Tcp!StartAsyncReadTask
  \/ ~stopped /\ UNCHANGED client

\* Every query starts the reader if it is stopped, then sends its command.  A
\* disconnected client throws before it changes anything.
Call(cmd, following) ==
  /\ step = "none" /\ caller = "idle" /\ connected
  /\ step' = "prepare" /\ command' = cmd /\ then' = following
  /\ EnsureReader
  /\ UNCHANGED <<ready, reply, mode, ticket, lidar>>

\* Mutant: the query does not stop a stream first.
QueryAtOnce(cmd) == Call(cmd, NoCommand)

\* getSensorStatus() and getConfigurationId() stop a stream first.
Query(cmd) ==
  \/ mode = INVALID /\ Call(cmd, NoCommand)
  \/ mode # INVALID /\ Call(StopCommand(mode), cmd)

GetVersionDetails  == Call("VR00", NoCommand)
GetSafetyArea      == Call("YR", NoCommand)
GetSensorStatus    == Query("XR00")
GetConfigurationId == Query("ID00")
StartStreaming     == mode = INVALID /\ Call(Streaming, NoCommand)

\* getScanDetails() refuses to read text while the binary reader runs.
GetScanDetails ==
  /\ step = "none" /\ caller = "idle" /\ connected /\ stopped
  /\ step' = "send" /\ command' = "PP" /\ then' = NoCommand
  /\ UNCHANGED <<client, ready, reply, mode, ticket, lidar>>

StartingReader ==
  /\ Tcp!ClearStopped
  /\ UNCHANGED <<call, ready, reply, mode, ticket, lidar>>

\* Mutant: the flag of the last reply is not cleared.
PrepareNothing ==
  /\ step = "prepare" /\ caller = "idle"
  /\ step' = IF command = "PP" THEN "read" ELSE "send"
  /\ UNCHANGED <<client, command, then, ready, reply, mode, ticket, lidar>>

\* A binary command is prepared and then sent, a text command the other way
\* round, with the read started last.
Prepare ==
  /\ step = "prepare" /\ caller = "idle"
  /\ ready' = FALSE
  /\ step' = IF command = "PP" THEN "read" ELSE "send"
  /\ UNCHANGED <<client, command, then, reply, mode, ticket, lidar>>

Send ==
  /\ step = "send" /\ Len(asked) < MaxAsked
  /\ ticket' = 1 - ticket
  /\ asked' = Append(asked, Frame(command, ticket'))
  /\ step' = IF command = "PP" THEN "prepare" ELSE "wait"
  /\ UNCHANGED <<client, command, then, ready, reply, mode, stream>>

\* asyncSend() fails or times out.
SendFails ==
  /\ step = "send"
  /\ step' = "threw"
  /\ UNCHANGED <<client, command, then, ready, reply, mode, ticket, lidar>>

ReadLine ==
  /\ step = "read" /\ Tcp!AsyncReadLine
  /\ step' = "wait"
  /\ UNCHANGED <<command, then, ready, reply, mode, ticket, lidar>>

\* Mutant: every command sets the mode.
ModeAfterAny(cmd) == cmd

\* Mutant: a subscription does not set it.
ModeAfterNone(cmd) == IF cmd = StopCommand(Streaming) THEN INVALID ELSE mode

\* subscribe() and unsubscribe() set the mode once their reply has come.
ModeAfter(cmd) ==
  CASE cmd \in Modes -> cmd
    [] mode # INVALID /\ cmd = StopCommand(mode) -> INVALID
    [] OTHER -> mode

\* The reply is ready: whatever it is, it is the result of the command.
Return ==
  /\ step = "wait" /\ ready
  /\ IF command = "PP" THEN Tcp!LineReturned ELSE UNCHANGED client
  /\ step' = IF then = NoCommand THEN "none" ELSE "prepare"
  /\ command' = then /\ then' = NoCommand
  /\ mode' = ModeAfter(command)
  /\ UNCHANGED <<ready, reply, ticket, lidar>>

\* wait_for() expires; the exception unwinds every call in progress.
Expire ==
  /\ step = "wait" /\ ~ready
  /\ IF command = "PP" THEN Tcp!LineTimeout ELSE UNCHANGED client
  /\ step' = "threw"
  /\ UNCHANGED <<command, then, ready, reply, mode, ticket, lidar>>

----------------------------------------------------------------------------
(* The io thread *)

ReaderRuns ==
  /\ \/ Tcp!HandleReceive \/ Tcp!StartBody \/ Tcp!HandlePacket \/ Tcp!CheckConnected
     \/ Tcp!ArmHeader \/ Tcp!Die \/ Tcp!HandleConnect
  /\ UNCHANGED <<call, ready, reply, mode, ticket, lidar>>

Signal(frame) == ready' = TRUE /\ reply' = frame

\* packetCallback(): a reply that its worker accepts signals the sender; a
\* scan, or a packet that the worker drops, does not.
PacketCallback ==
  /\ Tcp!CallbackReturns
  /\ IF io.frame.name \in CommandReplies THEN Signal(io.frame)
                                         ELSE UNCHANGED <<ready, reply>>
  /\ UNCHANGED <<call, mode, ticket, lidar>>

\* The handler of the line read: the SCIP worker may find the text malformed.
LineCallback ==
  /\ Tcp!HandleLine
  /\ \/ Head(queue).kind = "line" /\ Head(queue).ok /\ Signal(Head(queue).frame)
     \/ UNCHANGED <<ready, reply>>
  /\ UNCHANGED <<call, mode, ticket, lidar>>

----------------------------------------------------------------------------
(* The lidar and the network *)

Take == asked # <<>> /\ asked' = Tail(asked)

Answer ==
  /\ Take /\ Tcp!Arrive(Head(asked))
  /\ stream' = CASE Head(asked).name \in Modes -> Head(asked).name
                 [] stream # INVALID /\ Head(asked).name = EndsStream(stream) -> INVALID
                 [] OTHER -> stream
  /\ UNCHANGED <<call, ready, reply, mode, ticket>>

\* The worker of YR looks at no status: for it a refusal is an answer.
Refuse ==
  /\ Take /\ Head(asked).name # "YR" /\ Tcp!Arrive(Refusal)
  /\ UNCHANGED <<call, ready, reply, mode, ticket, stream>>

Ignore ==
  /\ Take /\ UNCHANGED <<client, call, ready, reply, mode, ticket, stream>>

StreamScan ==
  /\ stream # INVALID /\ Tcp!Arrive(Frame(ScanOf(stream), 0))
  /\ UNCHANGED <<call, ready, reply, mode, ticket, lidar>>

Network(action) == action /\ UNCHANGED <<call, ready, reply, mode, ticket, lidar>>

Established(ok) == Network(Tcp!Established(ok))
PeerDrops       == Network(Tcp!PeerDrops)
ReadCompletes   == Network(Tcp!ReadCompletes)
ReadFails       == Network(Tcp!ReadFails)

----------------------------------------------------------------------------
Operation ==
  \/ "VR00" \in Queries /\ GetVersionDetails
  \/ "YR" \in Queries /\ GetSafetyArea
  \/ "XR00" \in Queries /\ GetSensorStatus
  \/ "ID00" \in Queries /\ GetConfigurationId
  \/ "PP" \in Queries /\ GetScanDetails
  \/ StartStreaming

Caller ==
  \/ Connect \/ Connecting \/ Disconnect \/ Disconnecting \/ Operation
  \/ StartingReader \/ Prepare \/ Send \/ SendFails \/ ReadLine
  \/ Return \/ Expire

IoThread == ReaderRuns \/ PacketCallback \/ LineCallback

Lidar == Answer \/ Refuse \/ Ignore \/ StreamScan

Next ==
  \/ Caller \/ IoThread \/ Lidar
  \/ \E ok \in BOOLEAN : Established(ok)
  \/ PeerDrops \/ ReadCompletes \/ ReadFails

Spec == Init /\ [][Next]_vars

----------------------------------------------------------------------------
(* Properties *)

\* "The decoded lidar reply message": the reply that wakes a command answers
\* that command, and that sending of it, not an earlier one whose wait expired.
ReplyAnswersCommand ==
  step = "wait" /\ ready => reply = Frame(command, ticket)

\* Between commands, a lidar that streams on this connection is one the driver
\* believes to be streaming: getSensorStatus() would stop it first.
StreamIsKnown ==
  step = "none" /\ connected => stream \in {INVALID, mode}

\* A blocking call never waits on a reader that is gone: as long as a binary
\* command waits, either its reply is ready or a read chain is alive.
WaitHasReader ==
  step = "wait" /\ ~ready /\ command # "PP" => ~stopped /\ ~Tcp!NoChain

=============================================================================
