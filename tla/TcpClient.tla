------------------------------- MODULE TcpClient -------------------------------
(***************************************************************************)
(* The asynchronous TCP client of the UAM driver (uam/io/tcp_client.h and  *)
(* tcp_client.cpp) with the io_service it runs on.                         *)
(*                                                                         *)
(* Two threads share it.  The CALLER (ros::spin) connects, disconnects and *)
(* starts reads; the IO THREAD runs the completion handlers one at a time  *)
(* in the order in which they were queued.  A binary read is a chain: the  *)
(* handler of a header read starts a body read, the handler of the body    *)
(* read starts the next header read, and only a disconnected client ends   *)
(* the chain.  Nothing but two atomic flags tells the threads apart.       *)
(*                                                                         *)
(* The peer and the kernel are the environment: frames arrive whole and in *)
(* order, the peer may drop the connection at any moment.                  *)
(***************************************************************************)
EXTENDS Naturals, Sequences

CONSTANTS
  Packets,   \* frames whose header the filter accepts and whose size is right
  Texts,     \* SCIP text replies, ended by an empty line
  Noise,     \* anything else that a peer may send
  NoFrame,   \* "no frame" (a value outside the three sets)
  MaxWire,   \* bound: frames the kernel holds unread
  MaxQueue,  \* bound: handlers queued when a connection is attempted
  Settle     \* TRUE: a reconnection waits until the io thread is past the
             \* points at which it could still start a read (see Settled)

Frames == Packets \cup Texts \cup Noise

ASSUME FramesAssumption ==
  /\ NoFrame \notin Frames
  /\ Packets \cap Texts = {}
  /\ Packets \cap Noise = {}
  /\ Texts \cap Noise = {}
ASSUME BoundAssumption == MaxWire \in Nat /\ MaxQueue \in Nat /\ Settle \in BOOLEAN

VARIABLES
  connected,  \* connected_
  stopped,    \* stopped_
  caller,     \* where the caller's thread is inside a method of the client
  dial,       \* connect_future: "pending", "ok" or "failed"
  open,       \* socket_.is_open()
  link,       \* the peer's side: "none", "syn", "up", "down"
  wire,       \* frames received by the kernel and not read yet
  reads,      \* read operations outstanding on the socket, first one first
  queue,      \* completed operations whose handlers wait in the io_service
  io          \* io_thread_: which point of a handler it is at

vars == <<connected, stopped, caller, dial, open, link, wire, reads, queue, io>>

(***************************************************************************)
(* An operation is kept as the call of its handler: an outstanding one as  *)
(* it would be called if the socket were closed, with an error.            *)
(***************************************************************************)
Op(kind, ok, frame) == [kind |-> kind, ok |-> ok, frame |-> frame]
ReadKinds == {"header", "body", "line"}
ReadOps   == [kind : ReadKinds, ok : {FALSE}, frame : Frames \cup {NoFrame}]
Handlers  == [kind : ReadKinds \cup {"connect", "abandoned"}, ok : BOOLEAN,
              frame : Frames \cup {NoFrame}]

IoPoints  == {"idle", "body", "callback", "check", "arm", "die"}
At(point) == [at |-> point, frame |-> NoFrame]

FlagsTyped ==
  connected \in BOOLEAN /\ stopped \in BOOLEAN /\ open \in BOOLEAN

DataTyped ==
  /\ caller \in {"idle", "connecting", "option", "starting", "line", "failed",
                 "closing", "stopping"}
  /\ dial \in {"pending", "ok", "failed"}
  /\ link \in {"none", "syn", "up", "down"}
  /\ wire \in Seq(Frames)
  /\ reads \in Seq(ReadOps)
  /\ queue \in Seq(Handlers)
  /\ io \in [at : IoPoints, frame : Frames \cup {NoFrame}]

TypeOK == FlagsTyped /\ DataTyped

Init ==
  /\ connected = FALSE /\ stopped = TRUE /\ caller = "idle" /\ dial = "failed"
  /\ open = FALSE /\ link = "none" /\ wire = <<>>
  /\ reads = <<>> /\ queue = <<>> /\ io = At("idle")

----------------------------------------------------------------------------
(* Helpers *)

\* Mutant: an operation that the close cancels reports success.
StartReadAsSucceeded(kind, frame) ==
  LET op == Op(kind, TRUE, frame) IN
    IF open THEN reads' = Append(reads, op) /\ queue' = queue
            ELSE reads' = reads /\ queue' = Append(queue, op)

\* async_read on a closed socket completes at once with bad_descriptor.
StartRead(kind, frame) ==
  LET op == Op(kind, FALSE, frame) IN
    IF open THEN reads' = Append(reads, op) /\ queue' = queue
            ELSE reads' = reads /\ queue' = Append(queue, op)

IsChain(op)   == op.kind \in {"header", "body"}
IsLine(op)    == op.kind = "line"
IsConnect(op) == op.kind = "connect"
BodyToCome(op) == op.kind = "header" /\ op.ok /\ op.frame \in Packets

LineOutstanding ==
  \/ \E i \in 1..Len(reads) : IsLine(reads[i])
  \/ \E i \in 1..Len(queue) : IsLine(queue[i])

\* socket_.close(): every outstanding operation is cancelled.
CloseDescriptor(handlers) ==
  /\ open' = FALSE /\ link' = "none" /\ wire' = <<>> /\ reads' = <<>>
  /\ queue' = handlers \o reads

\* The handler of a connect the caller no longer waits for, completed already
\* or cancelled now, fulfils a promise that nobody reads.
Abandoned ==
  LET Forget(op) == IF IsConnect(op) THEN Op("abandoned", FALSE, NoFrame) ELSE op
      forgotten  == [i \in 1..Len(queue) |-> Forget(queue[i])]
  IN IF link = "syn" THEN Append(forgotten, Op("abandoned", FALSE, NoFrame))
                     ELSE forgotten

\* The io thread is not about to start a read without looking at connected_:
\* neither between the test of asyncReadData and its async_read, nor with an
\* accepted header whose body read comes next.  The caller waits for
\* reconfiguration_timeout (5 s by default) before it connects again.
Settled ==
  /\ io.at \notin {"arm", "body"}
  /\ \A i \in 1..Len(queue) : ~BodyToCome(queue[i])

----------------------------------------------------------------------------
(* The caller's thread *)

Connect ==
  /\ caller = "idle" /\ ~connected
  /\ Settle => Settled
  /\ Len(queue) <= MaxQueue
  /\ caller' = "connecting" /\ dial' = "pending"
  /\ open' = TRUE /\ link' = "syn" /\ wire' = <<>>
  /\ UNCHANGED <<connected, stopped, reads, queue, io>>

\* connect_future.wait_for(5 s) expires: the socket is closed.
ConnectTimeout ==
  /\ caller = "connecting" /\ dial = "pending"
  /\ caller' = "idle" /\ dial' = "failed"
  /\ CloseDescriptor(Abandoned)
  /\ UNCHANGED <<connected, stopped, io>>

\* connect_future.get() throws: the socket is left open.
ConnectFailed ==
  /\ caller = "connecting" /\ dial = "failed"
  /\ caller' = "idle"
  /\ UNCHANGED <<connected, stopped, dial, open, link, wire, reads, queue, io>>

ConnectDone ==
  /\ caller = "connecting" /\ dial = "ok"
  /\ connected' = TRUE /\ caller' = "option"
  /\ UNCHANGED <<stopped, dial, open, link, wire, reads, queue, io>>

\* set_option(no_delay) succeeds, or fails and the client disconnects.
SetOption ==
  /\ caller = "option"
  /\ \/ caller' = "idle" /\ UNCHANGED connected
     \/ caller' = "closing" /\ connected' = FALSE
  /\ UNCHANGED <<stopped, dial, open, link, wire, reads, queue, io>>

\* disconnect() in three steps: connected_ is cleared first, then the socket
\* is closed, then stopped_ is set; the io thread runs in between.
Disconnect ==
  /\ caller \in {"idle", "failed"} /\ connected
  /\ connected' = FALSE /\ caller' = "closing"
  /\ UNCHANGED <<stopped, dial, open, link, wire, reads, queue, io>>

CloseSocket ==
  /\ caller = "closing"
  /\ CloseDescriptor(queue)
  /\ caller' = "stopping"
  /\ UNCHANGED <<connected, stopped, dial, io>>

SetStopped ==
  /\ caller = "stopping"
  /\ stopped' = TRUE /\ caller' = "idle"
  /\ UNCHANGED <<connected, dial, open, link, wire, reads, queue, io>>

\* Mutant: a reader is started beside the one that runs.
StartAsyncReadTaskTwice ==
  /\ caller = "idle" /\ connected
  /\ StartRead("header", NoFrame)
  /\ caller' = "starting"
  /\ UNCHANGED <<connected, stopped, dial, open, link, wire, io>>

\* startAsyncReadTask(): asyncReadData() and, after it, stopped_ = false.
StartAsyncReadTask ==
  /\ caller = "idle" /\ connected /\ stopped
  /\ StartRead("header", NoFrame)
  /\ caller' = "starting"
  /\ UNCHANGED <<connected, stopped, dial, open, link, wire, io>>

ClearStopped ==
  /\ caller = "starting"
  /\ stopped' = FALSE /\ caller' = "idle"
  /\ UNCHANGED <<connected, dial, open, link, wire, reads, queue, io>>

\* Mutant: the text reader does not ask whether the binary reader runs.
AsyncReadLineUnguarded ==
  /\ caller = "idle" /\ connected
  /\ StartRead("line", NoFrame)
  /\ caller' = "line"
  /\ UNCHANGED <<connected, stopped, dial, open, link, wire, io>>

\* asyncReadLine(): refused while the binary reader runs.
AsyncReadLine ==
  /\ caller = "idle" /\ connected /\ stopped
  /\ StartRead("line", NoFrame)
  /\ caller' = "line"
  /\ UNCHANGED <<connected, stopped, dial, open, link, wire, io>>

\* The one who asked for the line waits for it, and gives the connection up
\* when it does not come (sendPPCommandWithReply throws, configure catches).
LineReturned ==
  /\ caller = "line" /\ ~LineOutstanding
  /\ caller' = "idle"
  /\ UNCHANGED <<connected, stopped, dial, open, link, wire, reads, queue, io>>

LineTimeout ==
  /\ caller = "line"
  /\ caller' = "failed"
  /\ UNCHANGED <<connected, stopped, dial, open, link, wire, reads, queue, io>>

----------------------------------------------------------------------------
(* The io thread: one handler at a time, in the order of the queue *)

Dispatch(kind) ==
  /\ io.at = "idle" /\ queue # <<>>
  /\ Head(queue).kind = kind
  /\ queue' = Tail(queue)

\* handleReceive: an accepted header is followed by the read of its body,
\* with no look at connected_; anything else goes back to asyncReadData.
HandleReceive ==
  /\ Dispatch("header")
  /\ \/ BodyToCome(Head(queue)) /\ io' = [at |-> "body", frame |-> Head(queue).frame]
     \/ ~BodyToCome(Head(queue)) /\ io' = At("check")
  /\ UNCHANGED <<connected, stopped, caller, dial, open, link, wire, reads>>

StartBody ==
  /\ io.at = "body"
  /\ StartRead("body", io.frame)
  /\ io' = At("idle")
  /\ UNCHANGED <<connected, stopped, caller, dial, open, link, wire>>

\* handlePacket: callback_ on success, asyncReadData in every case.
HandlePacket ==
  /\ Dispatch("body")
  /\ \/ Head(queue).ok /\ io' = [at |-> "callback", frame |-> Head(queue).frame]
     \/ ~Head(queue).ok /\ io' = At("check")
  /\ UNCHANGED <<connected, stopped, caller, dial, open, link, wire, reads>>

CallbackReturns ==
  /\ io.at = "callback"
  /\ io' = At("check")
  /\ UNCHANGED <<connected, stopped, caller, dial, open, link, wire, reads, queue>>

\* Mutant: asyncReadData() always reads again.
CheckConnectedNot ==
  /\ io.at = "check"
  /\ io' = At("arm")
  /\ UNCHANGED <<connected, stopped, caller, dial, open, link, wire, reads, queue>>

\* asyncReadData: the test of connected_ and what follows it are two steps.
CheckConnected ==
  /\ io.at = "check"
  /\ \/ connected /\ io' = At("arm")
     \/ ~connected /\ io' = At("die")
  /\ UNCHANGED <<connected, stopped, caller, dial, open, link, wire, reads, queue>>

ArmHeader ==
  /\ io.at = "arm"
  /\ StartRead("header", NoFrame)
  /\ io' = At("idle")
  /\ UNCHANGED <<connected, stopped, caller, dial, open, link, wire>>

Die ==
  /\ io.at = "die"
  /\ stopped' = TRUE /\ io' = At("idle")
  /\ UNCHANGED <<connected, caller, dial, open, link, wire, reads, queue>>

\* The lambda of asyncReadLine, and the promises of async_connect.
HandleLine ==
  /\ Dispatch("line") \/ Dispatch("abandoned")
  /\ UNCHANGED <<connected, stopped, caller, dial, open, link, wire, reads, io>>

HandleConnect ==
  /\ Dispatch("connect")
  /\ dial' = IF Head(queue).ok THEN "ok" ELSE "failed"
  /\ UNCHANGED <<connected, stopped, caller, open, link, wire, reads, io>>

----------------------------------------------------------------------------
(* The kernel and the peer *)

Established(ok) ==
  /\ link = "syn"
  /\ link' = IF ok THEN "up" ELSE "none"
  /\ queue' = Append(queue, Op("connect", ok, NoFrame))
  /\ UNCHANGED <<connected, stopped, caller, dial, open, wire, reads, io>>

Arrive(frame) ==
  /\ link = "up" /\ Len(wire) < MaxWire
  /\ wire' = Append(wire, frame)
  /\ UNCHANGED <<connected, stopped, caller, dial, open, link, reads, queue, io>>

\* The peer closes (what it sent can still be read) or resets.
PeerDrops ==
  /\ link = "up"
  /\ link' = "down" /\ wire' \in {wire, <<>>}
  /\ UNCHANGED <<connected, stopped, caller, dial, open, reads, queue, io>>

Complete(ok, frame) ==
  /\ reads' = Tail(reads)
  /\ queue' = Append(queue, Op(Head(reads).kind, ok, frame))

\* The first operation on the socket is the one that takes the bytes.  A line
\* read swallows whatever comes before the text it waits for.
ReadCompletes ==
  /\ reads # <<>> /\ link \in {"up", "down"}
  /\ \/ /\ Head(reads).kind = "header" /\ wire # <<>>
        /\ Complete(TRUE, Head(wire)) /\ wire' = Tail(wire)
     \/ /\ Head(reads).kind = "body"
        /\ Complete(TRUE, Head(reads).frame) /\ wire' = wire
     \/ /\ IsLine(Head(reads)) /\ wire # <<>> /\ wire' = Tail(wire)
        /\ \/ Head(wire) \in Texts /\ Complete(TRUE, Head(wire))
           \/ Head(wire) \notin Texts /\ UNCHANGED <<reads, queue>>
  /\ UNCHANGED <<connected, stopped, caller, dial, open, link, io>>

\* End of file or a reset; a body may be cut short with its head received.
ReadFails ==
  /\ reads # <<>> /\ link = "down"
  /\ wire = <<>> \/ Head(reads).kind = "body"
  /\ Complete(FALSE, NoFrame)
  /\ UNCHANGED <<connected, stopped, caller, dial, open, link, wire, io>>

----------------------------------------------------------------------------
Caller ==
  \/ Connect \/ ConnectTimeout \/ ConnectFailed \/ ConnectDone \/ SetOption
  \/ Disconnect \/ CloseSocket \/ SetStopped
  \/ StartAsyncReadTask \/ ClearStopped
  \/ AsyncReadLine \/ LineReturned \/ LineTimeout

IoThread ==
  \/ HandleReceive \/ StartBody \/ HandlePacket \/ CallbackReturns
  \/ CheckConnected \/ ArmHeader \/ Die \/ HandleLine \/ HandleConnect

Environment ==
  \/ \E ok \in BOOLEAN : Established(ok)
  \/ \E frame \in Frames : Arrive(frame)
  \/ PeerDrops \/ ReadCompletes \/ ReadFails

Next == Caller \/ IoThread \/ Environment

Spec == Init /\ [][Next]_vars

\* The io thread runs whatever is queued, and a method of the client that has
\* been entered runs to its end; the peer and the caller owe nothing.
Fairness ==
  /\ WF_vars(IoThread)
  /\ WF_vars(CloseSocket \/ SetStopped \/ ClearStopped \/ SetOption)
  /\ WF_vars(ReadFails)

FairSpec == Spec /\ Fairness

----------------------------------------------------------------------------
(* Properties *)

\* The places that hold a link of a binary read chain, or a line read.
ChainReads  == {i \in 1..Len(reads) : IsChain(reads[i])}
ChainQueued == {i \in 1..Len(queue) : IsChain(queue[i])}
LineReads   == {i \in 1..Len(reads) : IsLine(reads[i])}
IoBusy      == io.at # "idle"
NoChain     == ChainReads = {} /\ ChainQueued = {} /\ ~IoBusy

\* At most one link of a read chain exists: either the io thread is inside one
\* of its handlers, or one handler is queued, or one read is outstanding.  Two
\* of them would write receive_buffer_ under a running callback and interleave
\* the bytes of two frames.
OneChain ==
  /\ \A i, j \in ChainReads : i = j
  /\ \A i, j \in ChainQueued : i = j
  /\ ChainReads # {} => ChainQueued = {} /\ ~IoBusy
  /\ ChainQueued # {} => ~IoBusy

\* The text reader and the binary reader never read the socket together
\* ("we need to ask this before starting continuous async reads").
LineReadsAlone == LineReads # {} => NoChain

\* isStopped() tells the caller the truth about the connection it has: it
\* says no exactly when a read chain is alive to receive replies and scans.
StoppedIsTruthful ==
  connected /\ caller \in {"idle", "line", "failed"} =>
    (stopped <=> NoChain)

\* The chain of handlers is one sequential reader that belongs to a session:
\* it lives on between sessions never, dies in a session never, and whatever
\* it was doing when the caller disconnected, it ends.
Reader == INSTANCE PacketReader WITH
  session <- connected,
  reader  <- IF io.at = "callback" THEN "handling" ELSE IF NoChain THEN "stopped" ELSE "waiting"

ReadsLikeOneReader == Reader!FairSpec

=============================================================================
