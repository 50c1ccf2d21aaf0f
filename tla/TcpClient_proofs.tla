---------------------------- MODULE TcpClient_proofs ----------------------------
(***************************************************************************)
(* Theorems about the TCP client: type correctness, and the three safety   *)
(* invariants of TcpClient for every set of frames and every bound, under  *)
(* the assumption Settle (a reconnection waits for the io thread).         *)
(***************************************************************************)
EXTENDS TcpClient, SequenceTheorems, TLAPS

(***************************************************************************)
(* TYPE CORRECTNESS                                                        *)
(***************************************************************************)
\* The flags and the data are typed apart: the first is a matter of logic, the
\* second of sequences and records.
LEMMA FlagsInit == Init => FlagsTyped
  BY Zenon DEF Init, FlagsTyped

LEMMA DataInit == Init => DataTyped
  BY DEF Init, DataTyped, At, IoPoints

LEMMA FlagsStep == FlagsTyped /\ [Next]_vars => FlagsTyped'
  <1>. SUFFICES ASSUME FlagsTyped, [Next]_vars PROVE FlagsTyped'
    OBVIOUS
  <1>1. CASE UNCHANGED vars
    BY <1>1 DEF vars, FlagsTyped
  <1>2. CASE Caller
    BY <1>2, Zenon DEF Caller, FlagsTyped, Connect, ConnectTimeout, ConnectFailed,
       ConnectDone, SetOption, Disconnect, CloseSocket, SetStopped,
       StartAsyncReadTask, ClearStopped, AsyncReadLine, LineReturned,
       LineTimeout, CloseDescriptor
  <1>3. CASE IoThread
    BY <1>3, Zenon DEF IoThread, FlagsTyped, HandleReceive, StartBody, HandlePacket,
       CallbackReturns, CheckConnected, ArmHeader, Die, HandleLine, HandleConnect
  <1>4. CASE Environment
    BY <1>4, Zenon DEF Environment, FlagsTyped, Established, Arrive, PeerDrops,
       ReadCompletes, ReadFails
  <1>. QED
    BY <1>1, <1>2, <1>3, <1>4 DEF Next

LEMMA StartReadType ==
  ASSUME DataTyped, NEW kind \in ReadKinds, NEW frame \in Frames \cup {NoFrame},
         StartRead(kind, frame)
  PROVE  reads' \in Seq(ReadOps) /\ queue' \in Seq(Handlers)
  <1>. DEFINE op == Op(kind, FALSE, frame)
  <1>1. op \in ReadOps /\ op \in Handlers
    BY DEF Op, ReadOps, Handlers
  <1>2. reads \in Seq(ReadOps) /\ queue \in Seq(Handlers)
    BY DEF DataTyped
  <1>. HIDE DEF op
  <1>3. CASE open
    <2>1. reads' = Append(reads, op) /\ queue' = queue
      BY <1>3 DEF StartRead, op
    <2>. QED
      BY <1>1, <1>2, <2>1
  <1>4. CASE ~open
    <2>1. reads' = reads /\ queue' = Append(queue, op)
      BY <1>4 DEF StartRead, op
    <2>. QED
      BY <1>1, <1>2, <2>1
  <1>. QED
    BY <1>3, <1>4

LEMMA ReadOpsAreHandlers == ReadOps \subseteq Handlers
  BY DEF ReadOps, Handlers

LEMMA AbandonedType ==
  ASSUME DataTyped
  PROVE  Abandoned \in Seq(Handlers)
  <1>1. Op("abandoned", FALSE, NoFrame) \in Handlers
    BY DEF Op, Handlers
  <1>. DEFINE none == Op("abandoned", FALSE, NoFrame)
              forgotten == [i \in 1..Len(queue) |->
                              IF IsConnect(queue[i]) THEN none ELSE queue[i]]
  <1>2. queue \in Seq(Handlers)
    BY DEF DataTyped
  <1>3. none \in Handlers
    BY <1>1
  <1>4. Abandoned = IF link = "syn" THEN Append(forgotten, none) ELSE forgotten
    BY DEF Abandoned
  <1>. HIDE DEF none
  <1>5. forgotten \in Seq(Handlers)
    BY <1>2, <1>3
  <1>. HIDE DEF forgotten
  <1>. QED
    BY <1>3, <1>4, <1>5

LEMMA DataStep == DataTyped /\ [Next]_vars => DataTyped'
  <1>. SUFFICES ASSUME DataTyped, [Next]_vars PROVE DataTyped'
    OBVIOUS
  <1>1. CASE UNCHANGED vars
    BY <1>1 DEF vars, DataTyped
  <1>2. CASE Caller
    <2>1. ASSUME NEW handlers \in Seq(Handlers), CloseDescriptor(handlers)
          PROVE  /\ link' \in {"none", "syn", "up", "down"}
                 /\ wire' \in Seq(Frames) /\ reads' \in Seq(ReadOps)
                 /\ queue' \in Seq(Handlers)
      BY <2>1, ReadOpsAreHandlers DEF CloseDescriptor, DataTyped
    <2>2. CASE ConnectTimeout
      BY <2>1, <2>2, AbandonedType DEF ConnectTimeout, DataTyped
    <2>3. CASE CloseSocket
      BY <2>1, <2>3 DEF CloseSocket, DataTyped
    <2>4. CASE StartAsyncReadTask
      BY <2>4, StartReadType DEF StartAsyncReadTask, DataTyped, ReadKinds
    <2>5. CASE AsyncReadLine
      BY <2>5, StartReadType DEF AsyncReadLine, DataTyped, ReadKinds
    <2>6. CASE Connect
      BY <2>6 DEF Connect, DataTyped
    <2>7. CASE \/ ConnectFailed \/ ConnectDone \/ SetOption \/ Disconnect
               \/ SetStopped \/ ClearStopped \/ LineReturned \/ LineTimeout
      BY <2>7 DEF ConnectFailed, ConnectDone, SetOption, Disconnect, SetStopped,
                  ClearStopped, LineReturned, LineTimeout, DataTyped
    <2>. QED
      BY <1>2, <2>2, <2>3, <2>4, <2>5, <2>6, <2>7 DEF Caller
  <1>3. CASE IoThread
    <2>1. ASSUME NEW kind, Dispatch(kind)
          PROVE  queue' \in Seq(Handlers) /\ Head(queue) \in Handlers
      BY <2>1 DEF Dispatch, DataTyped
    <2>2. CASE HandleReceive
      <3>1. Head(queue).frame \in Frames \cup {NoFrame}
        BY <2>1, <2>2 DEF HandleReceive, Handlers
      <3>. QED
        BY <2>1, <2>2, <3>1 DEF HandleReceive, DataTyped, At, IoPoints
    <2>3. CASE HandlePacket
      <3>1. Head(queue).frame \in Frames \cup {NoFrame}
        BY <2>1, <2>3 DEF HandlePacket, Handlers
      <3>. QED
        BY <2>1, <2>3, <3>1 DEF HandlePacket, DataTyped, At, IoPoints
    <2>4. CASE StartBody
      BY <2>4, StartReadType DEF StartBody, DataTyped, At, IoPoints, ReadKinds
    <2>5. CASE ArmHeader
      BY <2>5, StartReadType DEF ArmHeader, DataTyped, At, IoPoints, ReadKinds
    <2>6. CASE HandleLine \/ HandleConnect
      BY <2>1, <2>6 DEF HandleLine, HandleConnect, DataTyped
    <2>7. CASE CallbackReturns \/ CheckConnected \/ Die
      BY <2>7 DEF CallbackReturns, CheckConnected, Die, DataTyped, At, IoPoints
    <2>. QED
      BY <1>3, <2>2, <2>3, <2>4, <2>5, <2>6, <2>7 DEF IoThread
  <1>4. CASE Environment
    <2>1. ASSUME NEW ok \in BOOLEAN, Established(ok) PROVE DataTyped'
      <3>. DEFINE op == Op("connect", ok, NoFrame)
      <3>1. op \in Handlers
        BY DEF Op, Handlers
      <3>. HIDE DEF op
      <3>2. queue' = Append(queue, op) /\ queue \in Seq(Handlers)
        BY <2>1 DEF Established, op, DataTyped
      <3>3. queue' \in Seq(Handlers)
        BY <3>1, <3>2
      <3>. QED
        BY <2>1, <3>3 DEF Established, DataTyped
    <2>2. ASSUME NEW frame \in Frames, Arrive(frame) PROVE DataTyped'
      <3>1. wire \in Seq(Frames) /\ wire' = Append(wire, frame)
        BY <2>2 DEF Arrive, DataTyped
      <3>2. wire' \in Seq(Frames)
        BY <3>1
      <3>3. UNCHANGED <<caller, dial, link, reads, queue, io>>
        BY <2>2 DEF Arrive
      <3>. QED
        BY <3>2, <3>3 DEF DataTyped
    <2>3. CASE PeerDrops
      <3>1. wire' = wire \/ wire' = <<>>
        BY <2>3 DEF PeerDrops
      <3>2. wire' \in Seq(Frames)
        <4>1. wire \in Seq(Frames) /\ <<>> \in Seq(Frames)
          BY DEF DataTyped
        <4>. QED
          BY <3>1, <4>1, Zenon
      <3>3. link' = "down" /\ UNCHANGED <<caller, dial, reads, queue, io>>
        BY <2>3 DEF PeerDrops
      <3>. QED
        BY <3>2, <3>3 DEF DataTyped
    <2>4. ASSUME NEW ok \in BOOLEAN, NEW frame \in Frames \cup {NoFrame},
                 reads # <<>>, Complete(ok, frame)
          PROVE  reads' \in Seq(ReadOps) /\ queue' \in Seq(Handlers)
      <3>. DEFINE op == Op(Head(reads).kind, ok, frame)
      <3>1. reads \in Seq(ReadOps) /\ queue \in Seq(Handlers)
        BY DEF DataTyped
      <3>2. Head(reads) \in ReadOps
        BY <2>4, <3>1
      <3>3. op \in Handlers
        BY <2>4, <3>2 DEF Op, Handlers, ReadOps
      <3>. HIDE DEF op
      <3>4. reads' = Tail(reads) /\ queue' = Append(queue, op)
        BY <2>4 DEF Complete, op
      <3>. QED
        BY <2>4, <3>1, <3>3, <3>4
    <2>5. CASE ReadCompletes
      <3>1. wire # <<>> => Head(wire) \in Frames /\ Tail(wire) \in Seq(Frames)
        BY DEF DataTyped
      <3>2. reads # <<>> => Head(reads).frame \in Frames \cup {NoFrame}
        <4>1. reads # <<>> => Head(reads) \in ReadOps
          BY DEF DataTyped
        <4>. QED
          BY <4>1 DEF ReadOps
      <3>. QED
        BY <2>4, <2>5, <3>1, <3>2 DEF ReadCompletes, DataTyped
    <2>6. CASE ReadFails
      BY <2>4, <2>6 DEF ReadFails, DataTyped
    <2>. QED
      BY <1>4, <2>1, <2>2, <2>3, <2>5, <2>6 DEF Environment
  <1>. QED
    BY <1>1, <1>2, <1>3, <1>4 DEF Next

\* Every variable keeps its type in every behaviour of the client.
THEOREM TypeCorrect == Spec => []TypeOK
  <1>1. Init => TypeOK
    BY FlagsInit, DataInit DEF TypeOK
  <1>2. TypeOK /\ [Next]_vars => TypeOK'
    BY FlagsStep, DataStep DEF TypeOK
  <1>. QED
    BY <1>1, <1>2, PTL DEF Spec

(***************************************************************************)
(* THE SAFETY INVARIANTS                                                   *)
(*                                                                         *)
(* OneChain is not inductive: it says nothing of the client that dials.    *)
(* Three more facts carry it over a reconnection.  The handler of the      *)
(* connect is behind every handler of the old connection (DialInv), no     *)
(* read is outstanding on a socket that is not connected (SocketInv), and  *)
(* stopped_ tells the truth (ReaderInv): so when the caller hears that it  *)
(* is connected the old chain has died, and it starts a new one only then. *)
(***************************************************************************)
ConnectQueued == {i \in 1..Len(queue) : IsConnect(queue[i])}

\* What the position of the caller says of the flags and of the socket.
CallerInv ==
  /\ connected => open /\ caller \notin {"connecting", "closing", "stopping"}
  /\ ~connected => caller \in {"idle", "connecting", "closing", "stopping"}
  /\ ~connected /\ ~stopped => caller \in {"closing", "stopping"}
  /\ caller \in {"option", "starting", "line", "failed", "connecting"} => stopped
  /\ caller \in {"closing", "connecting"} => open
  /\ caller = "stopping" => ~open

\* No read is outstanding, or about to be started, on a socket that is not
\* connected; line reads belong to the caller that waits for them.
SocketInv ==
  /\ ~open => reads = <<>>
  /\ ~connected /\ caller # "closing" => reads = <<>>
  /\ ~connected /\ open /\ caller # "closing" => Settled
  /\ LineReads # {} => caller \in {"line", "failed", "closing"}

\* The handler of the connect comes after every handler of a read chain.
DialInv ==
  /\ ConnectQueued # {} => caller = "connecting" /\ dial = "pending" /\ link # "syn"
  /\ \A i, j \in ConnectQueued : i = j
  /\ \A i \in ConnectQueued, j \in ChainQueued : j < i
  /\ link = "syn" => caller = "connecting" /\ dial = "pending"
  /\ caller = "connecting" /\ dial # "pending" => NoChain

\* stopped_ tells whether a chain is alive.
ReaderInv ==
  /\ connected /\ ~stopped => ~NoChain
  /\ caller = "starting" => ~NoChain
  /\ connected /\ stopped /\ caller # "starting" => NoChain
  /\ io.at = "die" => ~connected

IInv ==
  /\ TypeOK
  /\ OneChain /\ LineReadsAlone
  /\ CallerInv /\ SocketInv /\ DialInv /\ ReaderInv

LEMMA SafetyInit == Init => IInv
  <1>. SUFFICES ASSUME Init PROVE IInv
    OBVIOUS
  <1>1. TypeOK
    BY FlagsInit, DataInit DEF TypeOK
  <1>2. Len(reads) = 0 /\ Len(queue) = 0 /\ io.at = "idle"
    BY DEF Init, At
  <1>3. /\ ChainReads = {} /\ ChainQueued = {} /\ LineReads = {}
        /\ ConnectQueued = {} /\ ~IoBusy
    BY <1>2 DEF ChainReads, ChainQueued, LineReads, ConnectQueued, IoBusy
  <1>4. OneChain /\ LineReadsAlone /\ CallerInv /\ DialInv /\ ReaderInv
    BY <1>2, <1>3 DEF Init, OneChain, LineReadsAlone, CallerInv, DialInv, ReaderInv, NoChain
  <1>5. SocketInv
    BY <1>3 DEF Init, SocketInv
  <1>. QED
    BY <1>1, <1>4, <1>5 DEF IInv

\* A step that leaves the reads, the queue and the io thread alone leaves alone
\* everything that is said of them.
LEMMA SameOps ==
  ASSUME UNCHANGED <<reads, queue, io>>
  PROVE  /\ ChainReads' = ChainReads /\ ChainQueued' = ChainQueued
         /\ LineReads' = LineReads /\ ConnectQueued' = ConnectQueued
         /\ IoBusy' = IoBusy /\ NoChain' = NoChain /\ Settled' = Settled
  BY DEF ChainReads, ChainQueued, LineReads, ConnectQueued, IoBusy, NoChain, Settled

LEMMA StutterStep == IInv /\ UNCHANGED vars => IInv'
  <1>. SUFFICES ASSUME IInv, UNCHANGED vars PROVE IInv'
    OBVIOUS
  <1>1. TypeOK'
    BY FlagsStep, DataStep DEF IInv, TypeOK
  <1>. QED
    BY <1>1, SameOps DEF IInv, vars, OneChain, LineReadsAlone, CallerInv, SocketInv,
       DialInv, ReaderInv

\* The caller's steps between two operations on the socket.
LEMMA FlagSteps ==
  ASSUME IInv, TypeOK', Settle,
         \/ Connect \/ ConnectFailed \/ ConnectDone \/ SetOption \/ Disconnect
         \/ SetStopped \/ ClearStopped \/ LineReturned \/ LineTimeout
         \/ PeerDrops \/ \E frame \in Frames : Arrive(frame)
  PROVE  IInv' /\ NoChain' = NoChain
  <1>. USE DEF IInv
  <1>1. UNCHANGED <<reads, queue, io>>
    BY DEF Connect, ConnectFailed, ConnectDone, SetOption, Disconnect, SetStopped,
       ClearStopped, LineReturned, LineTimeout, PeerDrops, Arrive
  <1>2. OneChain' /\ LineReadsAlone' /\ NoChain' = NoChain
    BY <1>1, SameOps DEF OneChain, LineReadsAlone
  <1>. DEFINE Rest == CallerInv /\ SocketInv /\ DialInv /\ ReaderInv
  <1>3. SUFFICES Rest'
    BY <1>2
  <1>. USE <1>1, SameOps DEF CallerInv, SocketInv, DialInv, ReaderInv
  <1>4. CASE Connect
    BY <1>4 DEF Connect
  <1>5. CASE ConnectFailed
    BY <1>5 DEF ConnectFailed
  <1>6. CASE ConnectDone
    <2>1. ~connected /\ stopped /\ open /\ reads = <<>> /\ NoChain
      BY <1>6 DEF ConnectDone
    <2>2. LineReads = {}
      BY <2>1 DEF LineReads
    <2>3. io.at = "idle"
      BY <2>1 DEF NoChain, IoBusy
    <2>4. CallerInv'
      BY <1>6, <2>1 DEF ConnectDone
    <2>5. ReaderInv'
      BY <1>6, <2>1, <2>3 DEF ConnectDone
    <2>6. SocketInv' /\ DialInv'
      BY <1>6, <2>1, <2>2 DEF ConnectDone
    <2>. QED
      BY <2>4, <2>5, <2>6
  <1>7. CASE SetOption
    BY <1>7 DEF SetOption
  <1>8. CASE Disconnect
    BY <1>8 DEF Disconnect
  <1>9. CASE SetStopped
    BY <1>9 DEF SetStopped
  <1>10. CASE ClearStopped
    BY <1>10 DEF ClearStopped
  <1>11. CASE LineReturned
    <2>1. LineReads = {}
      BY <1>11 DEF LineReturned, LineOutstanding, LineReads
    <2>. QED
      BY <1>11, <2>1 DEF LineReturned
  <1>12. CASE LineTimeout
    BY <1>12 DEF LineTimeout
  <1>13. CASE PeerDrops
    BY <1>13 DEF PeerDrops
  <1>14. CASE \E frame \in Frames : Arrive(frame)
    BY <1>14 DEF Arrive
  <1>. QED
    BY <1>4, <1>5, <1>6, <1>7, <1>8, <1>9, <1>10, <1>11, <1>12, <1>13, <1>14

(***************************************************************************)
(* What the four operations on reads and queue do to the places that hold  *)
(* a link of a chain, a line read or a connect.                            *)
(***************************************************************************)
LEMMA ReadStarts ==
  ASSUME DataTyped, NEW kind \in ReadKinds, NEW frame \in Frames \cup {NoFrame},
         StartRead(kind, frame)
  PROVE  LET atRead == IF open THEN {Len(reads) + 1} ELSE {}
             atQueue == IF open THEN {} ELSE {Len(queue) + 1}
         IN /\ ConnectQueued' = ConnectQueued
            /\ kind = "line" => /\ ChainReads' = ChainReads
                                /\ ChainQueued' = ChainQueued
                                /\ LineReads' = LineReads \cup atRead
            /\ kind # "line" => /\ ChainReads' = ChainReads \cup atRead
                                /\ ChainQueued' = ChainQueued \cup atQueue
                                /\ LineReads' = LineReads
  <1>. DEFINE op == Op(kind, FALSE, frame)
  <1>1. reads \in Seq(ReadOps) /\ queue \in Seq(Handlers)
    BY DEF DataTyped
  <1>2. op \in ReadOps /\ op \in Handlers /\ op.kind = kind
    BY DEF Op, ReadOps, Handlers
  <1>. HIDE DEF op
  <1>3. /\ ~IsConnect(op)
        /\ IsLine(op) <=> kind = "line"
        /\ IsChain(op) <=> kind # "line"
    BY <1>2 DEF IsConnect, IsLine, IsChain, ReadKinds
  <1>4. CASE open
    <2>1. reads' = Append(reads, op) /\ queue' = queue
      BY <1>4 DEF StartRead, op
    <2>2. /\ Len(reads) \in Nat /\ Len(reads') = Len(reads) + 1
          /\ \A i \in 1..Len(reads) : reads'[i] = reads[i]
          /\ reads'[Len(reads) + 1] = op
      BY <1>1, <1>2, <2>1, AppendProperties
    <2>3. /\ kind = "line" => ChainReads' = ChainReads
          /\ kind # "line" => ChainReads' = ChainReads \cup {Len(reads) + 1}
      BY <1>3, <2>2 DEF ChainReads
    <2>4. /\ kind = "line" => LineReads' = LineReads \cup {Len(reads) + 1}
          /\ kind # "line" => LineReads' = LineReads
      BY <1>3, <2>2 DEF LineReads
    <2>5. ChainQueued' = ChainQueued /\ ConnectQueued' = ConnectQueued
      BY <2>1 DEF ChainQueued, ConnectQueued
    <2>. QED
      BY <1>4, <2>3, <2>4, <2>5
  <1>5. CASE ~open
    <2>1. reads' = reads /\ queue' = Append(queue, op)
      BY <1>5 DEF StartRead, op
    <2>2. /\ Len(queue) \in Nat /\ Len(queue') = Len(queue) + 1
          /\ \A i \in 1..Len(queue) : queue'[i] = queue[i]
          /\ queue'[Len(queue) + 1] = op
      BY <1>1, <1>2, <2>1, AppendProperties
    <2>3. /\ kind = "line" => ChainQueued' = ChainQueued
          /\ kind # "line" => ChainQueued' = ChainQueued \cup {Len(queue) + 1}
      BY <1>3, <2>2 DEF ChainQueued
    <2>4. ConnectQueued' = ConnectQueued
      BY <1>3, <2>2 DEF ConnectQueued
    <2>5. ChainReads' = ChainReads /\ LineReads' = LineReads
      BY <2>1 DEF ChainReads, LineReads
    <2>. QED
      BY <1>5, <2>3, <2>4, <2>5
  <1>. QED
    BY <1>4, <1>5

LEMMA HandlerTaken ==
  ASSUME DataTyped, queue # <<>>, queue' = Tail(queue)
  PROVE  /\ ChainQueued' = {i \in Nat \ {0} : i + 1 \in ChainQueued}
         /\ ConnectQueued' = {i \in Nat \ {0} : i + 1 \in ConnectQueued}
         /\ 1 \in ChainQueued <=> IsChain(Head(queue))
         /\ 1 \in ConnectQueued <=> IsConnect(Head(queue))
         /\ ChainQueued \subseteq Nat \ {0} /\ ConnectQueued \subseteq Nat \ {0}
         /\ \A i \in 1..Len(queue') : queue'[i] = queue[i + 1] /\ i + 1 \in 1..Len(queue)
         /\ 1 \in 1..Len(queue) /\ Head(queue) = queue[1]
  <1>1. queue \in Seq(Handlers)
    BY DEF DataTyped
  <1>2. /\ Len(queue) \in Nat \ {0} /\ Len(queue') = Len(queue) - 1
        /\ \A i \in 1..Len(queue') : queue'[i] = queue[i + 1]
        /\ Head(queue) = queue[1]
    BY <1>1, HeadTailProperties, EmptySeq
  <1>3. ChainQueued' = {i \in Nat \ {0} : i + 1 \in ChainQueued}
    BY <1>2 DEF ChainQueued
  <1>4. ConnectQueued' = {i \in Nat \ {0} : i + 1 \in ConnectQueued}
    BY <1>2 DEF ConnectQueued
  <1>5. /\ 1 \in ChainQueued <=> IsChain(Head(queue))
        /\ 1 \in ConnectQueued <=> IsConnect(Head(queue))
        /\ ChainQueued \subseteq Nat \ {0} /\ ConnectQueued \subseteq Nat \ {0}
    BY <1>2 DEF ChainQueued, ConnectQueued
  <1>. QED
    BY <1>2, <1>3, <1>4, <1>5

LEMMA ReadLeaves ==
  ASSUME DataTyped, reads # <<>>, NEW ok \in BOOLEAN,
         NEW frame \in Frames \cup {NoFrame}, Complete(ok, frame)
  PROVE  /\ ChainReads' = {i \in Nat \ {0} : i + 1 \in ChainReads}
         /\ LineReads' = {i \in Nat \ {0} : i + 1 \in LineReads}
         /\ 1 \in ChainReads <=> IsChain(Head(reads))
         /\ 1 \in LineReads <=> ~IsChain(Head(reads))
         /\ ChainQueued' = IF IsChain(Head(reads)) THEN ChainQueued \cup {Len(queue) + 1}
                                                   ELSE ChainQueued
         /\ ConnectQueued' = ConnectQueued
         /\ ChainReads \subseteq Nat \ {0} /\ LineReads \subseteq Nat \ {0}
  <1>. DEFINE op == Op(Head(reads).kind, ok, frame)
  <1>1. reads \in Seq(ReadOps) /\ queue \in Seq(Handlers)
    BY DEF DataTyped
  <1>2. /\ Len(reads) \in Nat \ {0} /\ Len(Tail(reads)) = Len(reads) - 1
        /\ \A i \in 1..Len(Tail(reads)) : Tail(reads)[i] = reads[i + 1]
        /\ Head(reads) = reads[1] /\ Head(reads) \in ReadOps
    BY <1>1, HeadTailProperties, EmptySeq
  <1>3. op \in Handlers /\ op.kind = Head(reads).kind
    BY <1>2 DEF Op, Handlers, ReadOps
  <1>4. Head(reads).kind \in ReadKinds
    BY <1>2 DEF ReadOps
  <1>. HIDE DEF op
  <1>5. /\ IsChain(op) <=> IsChain(Head(reads))
        /\ ~IsConnect(op)
        /\ IsLine(Head(reads)) <=> ~IsChain(Head(reads))
    BY <1>3, <1>4 DEF IsChain, IsLine, IsConnect, ReadKinds
  <1>6. reads' = Tail(reads) /\ queue' = Append(queue, op)
    BY DEF Complete, op
  <1>7. /\ Len(queue) \in Nat /\ Len(queue') = Len(queue) + 1
        /\ \A i \in 1..Len(queue) : queue'[i] = queue[i]
        /\ queue'[Len(queue) + 1] = op
    BY <1>1, <1>3, <1>6, AppendProperties
  <1>8. ChainReads' = {i \in Nat \ {0} : i + 1 \in ChainReads}
    BY <1>2, <1>6 DEF ChainReads
  <1>9. LineReads' = {i \in Nat \ {0} : i + 1 \in LineReads}
    BY <1>2, <1>6 DEF LineReads
  <1>10. ChainQueued' = IF IsChain(Head(reads)) THEN ChainQueued \cup {Len(queue) + 1}
                                                ELSE ChainQueued
    <2>1. IsChain(op) => ChainQueued' = ChainQueued \cup {Len(queue) + 1}
      BY <1>7 DEF ChainQueued
    <2>2. ~IsChain(op) => ChainQueued' = ChainQueued
      BY <1>7 DEF ChainQueued
    <2>. QED
      BY <1>5, <2>1, <2>2
  <1>11. ConnectQueued' = ConnectQueued
    <2>1. ~IsConnect(op)
      BY <1>5
    <2>. QED
      BY <1>7, <2>1 DEF ConnectQueued
  <1>12. /\ 1 \in ChainReads <=> IsChain(Head(reads))
         /\ 1 \in LineReads <=> ~IsChain(Head(reads))
         /\ ChainReads \subseteq Nat \ {0} /\ LineReads \subseteq Nat \ {0}
    BY <1>2, <1>5 DEF ChainReads, LineReads
  <1>. QED
    BY <1>8, <1>9, <1>10, <1>11, <1>12

(***************************************************************************)
(* The steps that move operations.                                         *)
(***************************************************************************)
LEMMA StartSteps ==
  ASSUME IInv, TypeOK', Settle,
         StartAsyncReadTask \/ AsyncReadLine \/ StartBody \/ ArmHeader
  PROVE  IInv' /\ (IF StartAsyncReadTask THEN NoChain /\ ~NoChain' ELSE NoChain' <=> NoChain)
  <1>. USE DEF IInv, CallerInv, SocketInv, DialInv, ReaderInv
  <1>1. DataTyped
    BY DEF TypeOK
  <1>2. Len(reads) + 1 \notin ChainReads \cup LineReads
    BY <1>1 DEF ChainReads, LineReads, DataTyped
  <1>3. CASE StartAsyncReadTask
    <2>1. open /\ connected /\ stopped /\ NoChain /\ LineReads = {}
      BY <1>3 DEF StartAsyncReadTask
    <2>2. /\ ChainReads' = {Len(reads) + 1} /\ ChainQueued' = {}
          /\ LineReads' = {} /\ ConnectQueued' = ConnectQueued /\ ~IoBusy'
      BY <1>1, <1>3, <2>1, ReadStarts
      DEF StartAsyncReadTask, NoChain, IoBusy, ReadKinds
    <2>3. OneChain' /\ LineReadsAlone' /\ ~NoChain'
      BY <2>2 DEF OneChain, LineReadsAlone, NoChain
    <2>4. CallerInv' /\ SocketInv'
      BY <1>3, <2>1, <2>2 DEF StartAsyncReadTask
    <2>5. DialInv' /\ ReaderInv'
      BY <1>3, <2>1, <2>2, <2>3 DEF StartAsyncReadTask
    <2>. QED
      BY <1>3, <2>1, <2>3, <2>4, <2>5
  <1>4. CASE AsyncReadLine
    <2>1. open /\ connected /\ stopped /\ NoChain
      BY <1>4 DEF AsyncReadLine
    <2>2. /\ ChainReads' = {} /\ ChainQueued' = {}
          /\ ConnectQueued' = ConnectQueued /\ ~IoBusy' /\ LineReads' # {}
      BY <1>1, <1>4, <2>1, ReadStarts
      DEF AsyncReadLine, NoChain, IoBusy, ReadKinds
    <2>3. OneChain' /\ LineReadsAlone' /\ NoChain'
      BY <2>2 DEF OneChain, LineReadsAlone, NoChain
    <2>4. CallerInv' /\ SocketInv'
      BY <1>4, <2>1, <2>2 DEF AsyncReadLine
    <2>5. DialInv' /\ ReaderInv'
      BY <1>4, <2>1, <2>2, <2>3 DEF AsyncReadLine
    <2>6. ~StartAsyncReadTask
      BY <1>4, Zenon DEF AsyncReadLine, StartAsyncReadTask
    <2>. QED
      BY <2>1, <2>3, <2>4, <2>5, <2>6
  <1>5. CASE StartBody \/ ArmHeader
    <2>1. /\ IoBusy /\ ~Settled /\ ChainReads = {} /\ ChainQueued = {} /\ LineReads = {}
          /\ UNCHANGED <<connected, stopped, caller, dial, open, link>>
          /\ ~IoBusy' /\ io'.at = "idle"
      BY <1>5 DEF StartBody, ArmHeader, IoBusy, Settled, OneChain, LineReadsAlone, NoChain, At
    <2>2. PICK kind \in {"header", "body"}, frame \in Frames \cup {NoFrame} :
             StartRead(kind, frame)
      BY <1>1, <1>5 DEF StartBody, ArmHeader, DataTyped
    <2>3. ConnectQueued = {}
      BY <2>1
    <2>4. /\ ChainReads' = (IF open THEN {Len(reads) + 1} ELSE {})
          /\ ChainQueued' = (IF open THEN {} ELSE {Len(queue) + 1})
          /\ LineReads' = {} /\ ConnectQueued' = {}
      BY <1>1, <2>1, <2>2, <2>3, ReadStarts DEF ReadKinds
    <2>5. OneChain' /\ LineReadsAlone' /\ ~NoChain'
      BY <2>1, <2>4 DEF OneChain, LineReadsAlone, NoChain
    <2>6. CallerInv'
      BY <2>1
    <2>7. SocketInv'
      <3>1. ~open => reads' = reads
        BY <2>1, <2>2 DEF StartRead
      <3>2. ~connected => ~open \/ caller = "closing"
        BY <2>1
      <3>. QED
        BY <2>1, <2>4, <3>1, <3>2
    <2>8. DialInv'
      <3>1. ~(caller = "connecting")
        BY <2>1
      <3>. QED
        BY <2>1, <2>4, <3>1
    <2>9. ReaderInv'
      <3>1. ~NoChain
        BY <2>1 DEF NoChain
      <3>. QED
        BY <2>1, <2>5, <3>1
    <2>10. ~NoChain /\ ~StartAsyncReadTask
      <3>1. UNCHANGED caller
        BY <2>1
      <3>2. ~StartAsyncReadTask
        BY <3>1 DEF StartAsyncReadTask
      <3>. QED
        BY <2>1, <3>2 DEF NoChain
    <2>. QED
      BY <2>5, <2>6, <2>7, <2>8, <2>9, <2>10
  <1>. QED
    BY <1>3, <1>4, <1>5

LEMMA HandlerSteps ==
  ASSUME IInv, TypeOK', Settle,
         HandleReceive \/ HandlePacket \/ HandleLine \/ HandleConnect
  PROVE  IInv' /\ (NoChain' <=> NoChain)
  <1>. USE DEF IInv
  <1>1. /\ DataTyped /\ queue # <<>> /\ queue' = Tail(queue) /\ ~IoBusy
        /\ UNCHANGED <<connected, stopped, caller, open, link, reads>>
    BY DEF TypeOK, HandleReceive, HandlePacket, HandleLine, HandleConnect, Dispatch, IoBusy
  <1>2. ChainReads' = ChainReads /\ LineReads' = LineReads
    BY <1>1 DEF ChainReads, LineReads
  <1>3. CASE HandleReceive \/ HandlePacket
    <2>1. IsChain(Head(queue)) /\ ~IsConnect(Head(queue)) /\ UNCHANGED dial
      BY <1>3 DEF HandleReceive, HandlePacket, Dispatch, IsChain, IsConnect
    <2>2. /\ 1 \in ChainQueued /\ ChainQueued = {1} /\ ChainQueued' = {}
          /\ ChainReads = {} /\ LineReads = {}
      BY <1>1, <2>1, HandlerTaken DEF OneChain, LineReadsAlone, NoChain
    <2>3. IoBusy' /\ io'.at \notin {"arm", "die"} /\ (io'.at = "body" => BodyToCome(Head(queue)))
      BY <1>3 DEF HandleReceive, HandlePacket, IoBusy, At
    <2>4. OneChain' /\ LineReadsAlone' /\ ~NoChain'
      BY <1>2, <2>2, <2>3 DEF OneChain, LineReadsAlone, NoChain
    <2>5. CallerInv'
      BY <1>1 DEF CallerInv
    <2>6. SocketInv'
      <3>1. Settled => Settled'
        <4>1. \A i \in 1..Len(queue') : queue'[i] = queue[i + 1] /\ i + 1 \in 1..Len(queue)
          BY <1>1, HandlerTaken
        <4>2. 1 \in 1..Len(queue) /\ Head(queue) = queue[1]
          BY <1>1, HandlerTaken
        <4>. QED
          BY <2>3, <4>1, <4>2 DEF Settled
      <3>. QED
        BY <1>1, <1>2, <3>1 DEF SocketInv
    <2>7. DialInv'
      <3>1. ConnectQueued' = {i \in Nat \ {0} : i + 1 \in ConnectQueued}
        BY <1>1, HandlerTaken
      <3>2. ~(caller = "connecting" /\ dial # "pending")
        BY <2>2 DEF DialInv, NoChain
      <3>3. /\ ConnectQueued' # {} => ConnectQueued # {}
            /\ \A i, j \in ConnectQueued' : i = j
        BY <3>1 DEF DialInv
      <3>. QED
        BY <1>1, <2>1, <2>2, <3>2, <3>3 DEF DialInv
    <2>8. ReaderInv'
      <3>1. ~NoChain
        BY <2>2 DEF NoChain
      <3>. QED
        BY <1>1, <2>3, <2>4, <3>1 DEF ReaderInv
    <2>9. ~NoChain
      BY <2>2 DEF NoChain
    <2>. QED
      BY <2>4, <2>5, <2>6, <2>7, <2>8, <2>9
  <1>4. CASE HandleLine \/ HandleConnect
    <2>1. ~IsChain(Head(queue)) /\ UNCHANGED io /\ ~IoBusy'
      BY <1>1, <1>4 DEF HandleLine, HandleConnect, Dispatch, IsChain, IoBusy
    <2>2. /\ 1 \notin ChainQueued
          /\ ChainQueued' = {i \in Nat \ {0} : i + 1 \in ChainQueued}
          /\ ChainQueued \subseteq Nat \ {0}
      BY <1>1, <2>1, HandlerTaken
    <2>3. ChainQueued' = {} <=> ChainQueued = {}
      <3>1. \A i \in ChainQueued : i - 1 \in Nat \ {0} /\ (i - 1) + 1 = i
        BY <2>2
      <3>. QED
        BY <2>2, <3>1
    <2>4. \A i, j \in ChainQueued' : i = j
      BY <2>2 DEF OneChain
    <2>5. NoChain' <=> NoChain
      BY <1>1, <1>2, <2>1, <2>3 DEF NoChain
    <2>6. OneChain' /\ LineReadsAlone'
      BY <1>1, <1>2, <2>1, <2>3, <2>4, <2>5 DEF OneChain, LineReadsAlone
    <2>7. CallerInv'
      BY <1>1 DEF CallerInv
    <2>8. SocketInv'
      <3>1. Settled => Settled'
        <4>1. \A i \in 1..Len(queue') : queue'[i] = queue[i + 1] /\ i + 1 \in 1..Len(queue)
          BY <1>1, HandlerTaken
        <4>. QED
          BY <2>1, <4>1 DEF Settled
      <3>. QED
        BY <1>1, <1>2, <3>1 DEF SocketInv
    <2>9. ReaderInv'
      BY <1>1, <2>1, <2>5 DEF ReaderInv
    <2>10. /\ ConnectQueued' = {i \in Nat \ {0} : i + 1 \in ConnectQueued}
           /\ ConnectQueued \subseteq Nat \ {0}
           /\ 1 \in ConnectQueued <=> IsConnect(Head(queue))
      BY <1>1, HandlerTaken
    <2>11. CASE HandleLine
      <3>1. UNCHANGED dial
        BY <2>11 DEF HandleLine
      <3>2. /\ ConnectQueued' # {} => ConnectQueued # {}
            /\ \A i, j \in ConnectQueued' : i = j
            /\ \A i \in ConnectQueued', j \in ChainQueued' : j < i
        BY <2>2, <2>10 DEF DialInv
      <3>3. DialInv'
        BY <1>1, <2>5, <3>1, <3>2 DEF DialInv
      <3>. QED
        BY <2>5, <2>6, <2>7, <2>8, <2>9, <3>3
    <2>12. CASE HandleConnect
      <3>1. IsConnect(Head(queue))
        BY <2>12 DEF HandleConnect, Dispatch, IsConnect
      <3>2. 1 \in ConnectQueued
        BY <2>10, <3>1
      <3>3. ConnectQueued' = {}
        BY <2>10, <3>2 DEF DialInv
      <3>4. ChainQueued = {}
        BY <2>2, <3>2 DEF DialInv
      <3>5. caller = "connecting" /\ link # "syn"
        BY <3>2 DEF DialInv
      <3>6. NoChain
        <4>1. reads = <<>>
          BY <3>5 DEF CallerInv, SocketInv
        <4>2. ChainReads = {}
          BY <4>1 DEF ChainReads
        <4>. QED
          BY <1>1, <3>4, <4>2 DEF NoChain
      <3>7. DialInv'
        BY <1>1, <2>5, <3>3, <3>5, <3>6 DEF DialInv
      <3>. QED
        BY <2>5, <2>6, <2>7, <2>8, <2>9, <3>7
    <2>. QED
      BY <1>4, <2>11, <2>12
  <1>. QED
    BY <1>3, <1>4

LEMMA CheckSteps ==
  ASSUME IInv, TypeOK', Settle, CallbackReturns \/ CheckConnected \/ Die
  PROVE  IInv' /\ ~NoChain /\ (IF Die THEN NoChain' ELSE ~NoChain')
  <1>. USE DEF IInv
  <1>1. /\ IoBusy /\ UNCHANGED <<reads, queue, connected, caller, open, link, dial>>
        /\ ChainReads' = ChainReads /\ ChainQueued' = ChainQueued
        /\ LineReads' = LineReads /\ ConnectQueued' = ConnectQueued
    BY DEF CallbackReturns, CheckConnected, Die, IoBusy, ChainReads, ChainQueued,
       LineReads, ConnectQueued
  <1>2. ChainReads = {} /\ ChainQueued = {} /\ LineReads = {} /\ ~NoChain
    BY <1>1 DEF OneChain, LineReadsAlone, NoChain
  <1>3. OneChain' /\ LineReadsAlone'
    BY <1>1, <1>2 DEF OneChain, LineReadsAlone
  <1>4. ~(caller = "connecting" /\ dial # "pending")
    BY <1>2 DEF DialInv
  <1>5. DialInv'
    BY <1>1, <1>4 DEF DialInv
  <1>6. CASE CallbackReturns \/ CheckConnected
    <2>1. /\ UNCHANGED stopped /\ IoBusy' /\ io'.at # "body"
          /\ (io'.at = "arm" => connected) /\ (io'.at = "die" => ~connected)
      BY <1>6 DEF CallbackReturns, CheckConnected, IoBusy, At
    <2>2. ~NoChain'
      BY <2>1 DEF NoChain
    <2>3. CallerInv' /\ ReaderInv'
      BY <1>1, <1>2, <2>1, <2>2 DEF CallerInv, ReaderInv
    <2>4. SocketInv'
      BY <1>1, <2>1 DEF SocketInv, Settled
    <2>5. ~Die
      BY <2>1 DEF IoBusy, Die, At
    <2>. QED
      BY <1>2, <1>3, <1>5, <2>2, <2>3, <2>4, <2>5
  <1>7. CASE Die
    <2>1. stopped' = TRUE /\ ~connected /\ io'.at = "idle"
      BY <1>7 DEF Die, ReaderInv, At
    <2>2. caller # "starting"
      BY <2>1 DEF CallerInv
    <2>3. CallerInv' /\ ReaderInv'
      BY <1>1, <2>1, <2>2 DEF CallerInv, ReaderInv
    <2>4. SocketInv'
      BY <1>1, <2>1 DEF SocketInv, Settled
    <2>5. NoChain'
      BY <1>1, <1>2, <2>1 DEF NoChain, IoBusy
    <2>. QED
      BY <1>2, <1>3, <1>5, <1>7, <2>3, <2>4, <2>5
  <1>. QED
    BY <1>6, <1>7

LEMMA ReadSteps ==
  ASSUME IInv, TypeOK', Settle, ReadCompletes \/ ReadFails
  PROVE  IInv' /\ (NoChain' <=> NoChain)
  <1>. USE DEF IInv
  <1>1. /\ DataTyped /\ reads # <<>>
        /\ UNCHANGED <<connected, stopped, caller, dial, open, link, io>>
    BY DEF TypeOK, ReadCompletes, ReadFails
  <1>2. open /\ (connected \/ caller = "closing") /\ caller # "connecting"
    BY <1>1 DEF SocketInv, CallerInv
  <1>3. ConnectQueued = {} /\ link # "syn"
    BY <1>2 DEF DialInv
  <1>4. CASE UNCHANGED <<reads, queue>>
    <2>1. UNCHANGED <<reads, queue, io>>
      BY <1>1, <1>4
    <2>. QED
      BY <1>1, <2>1, SameOps DEF OneChain, LineReadsAlone, CallerInv, SocketInv, DialInv, ReaderInv
  <1>5. ASSUME NEW ok \in BOOLEAN, NEW frame \in Frames \cup {NoFrame}, Complete(ok, frame)
        PROVE  IInv' /\ (NoChain' <=> NoChain)
    <2>1. /\ ChainReads' = {i \in Nat \ {0} : i + 1 \in ChainReads}
          /\ LineReads' = {i \in Nat \ {0} : i + 1 \in LineReads}
          /\ 1 \in ChainReads <=> IsChain(Head(reads))
          /\ 1 \in LineReads <=> ~IsChain(Head(reads))
          /\ ConnectQueued' = {}
          /\ ChainReads \subseteq Nat \ {0} /\ LineReads \subseteq Nat \ {0}
      BY <1>1, <1>3, <1>5, ReadLeaves
    <2>2. IsChain(Head(reads)) => ChainQueued' = ChainQueued \cup {Len(queue) + 1}
      BY <1>1, <1>5, ReadLeaves
    <2>3. ~IsChain(Head(reads)) => ChainQueued' = ChainQueued
      BY <1>1, <1>5, ReadLeaves
    <2>4. IoBusy' = IoBusy
      BY <1>1 DEF IoBusy
    <2>5. LineReads' # {} => LineReads # {}
      BY <2>1
    <2>6. OneChain' /\ LineReadsAlone' /\ (NoChain <=> NoChain')
      <3>1. CASE IsChain(Head(reads))
        <4>1. ChainReads = {1} /\ ChainQueued = {} /\ ~IoBusy /\ LineReads = {}
          BY <2>1, <3>1 DEF OneChain, LineReadsAlone, NoChain
        <4>2. ChainReads' = {} /\ ChainQueued' = {Len(queue) + 1} /\ LineReads' = {}
          BY <2>1, <2>2, <3>1, <4>1
        <4>3. ~NoChain /\ ~NoChain'
          BY <4>1, <4>2 DEF NoChain
        <4>. QED
          BY <2>4, <4>1, <4>2, <4>3 DEF OneChain, LineReadsAlone
      <3>2. CASE ~IsChain(Head(reads))
        <4>1. NoChain
          BY <2>1, <3>2 DEF LineReadsAlone
        <4>2. ChainReads' = {} /\ ChainQueued' = {} /\ ~IoBusy'
          BY <2>1, <2>3, <2>4, <3>2, <4>1 DEF NoChain
        <4>3. NoChain'
          BY <4>2 DEF NoChain
        <4>. QED
          BY <4>1, <4>2, <4>3, Zenon DEF OneChain, LineReadsAlone, NoChain
      <3>. QED
        BY <3>1, <3>2
    <2>7. CallerInv'
      BY <1>1 DEF CallerInv
    <2>8. SocketInv'
      BY <1>1, <1>2, <2>5 DEF SocketInv
    <2>9. DialInv'
      BY <1>1, <1>2, <1>3, <2>1 DEF DialInv
    <2>10. ReaderInv'
      BY <1>1, <2>6 DEF ReaderInv
    <2>. QED
      BY <2>6, <2>7, <2>8, <2>9, <2>10
  <1>6. CASE ReadCompletes
    <2>1. wire # <<>> => Head(wire) \in Frames
      BY <1>1 DEF DataTyped
    <2>2. Head(reads).frame \in Frames \cup {NoFrame}
      <3>1. Head(reads) \in ReadOps
        BY <1>1 DEF DataTyped
      <3>. QED
        BY <3>1 DEF ReadOps
    <2>3. \/ UNCHANGED <<reads, queue>>
          \/ wire # <<>> /\ Complete(TRUE, Head(wire))
          \/ Complete(TRUE, Head(reads).frame)
      BY <1>6 DEF ReadCompletes
    <2>. QED
      BY <1>4, <1>5, <2>1, <2>2, <2>3
  <1>7. CASE ReadFails
    <2>1. Complete(FALSE, NoFrame)
      BY <1>7 DEF ReadFails
    <2>2. FALSE \in BOOLEAN /\ NoFrame \in Frames \cup {NoFrame}
      BY Zenon
    <2>. QED
      BY <1>5, <2>1, <2>2, Zenon
  <1>. QED
    BY <1>6, <1>7

LEMMA EstablishedStep ==
  ASSUME IInv, TypeOK', Settle, NEW ok \in BOOLEAN, Established(ok)
  PROVE  IInv' /\ (NoChain' <=> NoChain)
  <1>. USE DEF IInv
  <1>. DEFINE op == Op("connect", ok, NoFrame)
  <1>1. queue \in Seq(Handlers)
    BY DEF TypeOK, DataTyped
  <1>2. op \in Handlers /\ IsConnect(op) /\ ~IsChain(op) /\ ~BodyToCome(op)
    BY DEF Op, Handlers, IsConnect, IsChain, BodyToCome
  <1>3. queue' = Append(queue, op)
    BY DEF Established
  <1>. HIDE DEF op
  <1>4. /\ Len(queue) \in Nat /\ Len(queue') = Len(queue) + 1
        /\ \A i \in 1..Len(queue) : queue'[i] = queue[i]
        /\ queue'[Len(queue) + 1] = op
    BY <1>1, <1>2, <1>3, AppendProperties
  <1>5. /\ link = "syn" /\ link' # "syn"
        /\ UNCHANGED <<connected, stopped, caller, dial, open, reads, io>>
        /\ ChainReads' = ChainReads /\ LineReads' = LineReads /\ IoBusy' = IoBusy
    BY DEF Established, ChainReads, LineReads, IoBusy
  <1>6. ChainQueued' = ChainQueued /\ ChainQueued \subseteq 1..Len(queue)
    BY <1>2, <1>4 DEF ChainQueued
  <1>7. ConnectQueued' = ConnectQueued \cup {Len(queue) + 1}
    BY <1>2, <1>4 DEF ConnectQueued
  <1>8. ConnectQueued = {} /\ caller = "connecting" /\ dial = "pending"
    BY <1>5 DEF DialInv
  <1>9. Settled => Settled'
    <2>1. Settled => \A i \in 1..Len(queue') : ~BodyToCome(queue'[i])
      BY <1>2, <1>4 DEF Settled
    <2>. QED
      BY <1>5, <2>1 DEF Settled
  <1>10. OneChain' /\ LineReadsAlone' /\ (NoChain <=> NoChain')
    BY <1>5, <1>6 DEF OneChain, LineReadsAlone, NoChain
  <1>11. CallerInv' /\ SocketInv'
    BY <1>5, <1>9 DEF CallerInv, SocketInv
  <1>12. DialInv'
    BY <1>4, <1>5, <1>6, <1>7, <1>8 DEF DialInv
  <1>13. ReaderInv'
    BY <1>5, <1>10 DEF ReaderInv
  <1>. QED
    BY <1>10, <1>11, <1>12, <1>13

LEMMA CloseSteps ==
  ASSUME IInv, TypeOK', Settle, CloseSocket \/ ConnectTimeout
  PROVE  IInv' /\ (NoChain' <=> NoChain)
  <1>. USE DEF IInv
  <1>1. /\ ~open' /\ reads' = <<>> /\ link' = "none"
        /\ UNCHANGED <<connected, stopped, io>>
    BY Zenon DEF CloseSocket, ConnectTimeout, CloseDescriptor
  <1>2. ~connected /\ caller' \in {"idle", "stopping"}
    BY DEF CloseSocket, ConnectTimeout, CallerInv
  <1>3. ChainReads' = {} /\ LineReads' = {} /\ IoBusy' = IoBusy
    BY <1>1 DEF ChainReads, LineReads, IoBusy
  <1>4. caller = "connecting" => stopped
    BY DEF CallerInv
  <1>5. CallerInv'
    BY <1>1, <1>2, <1>4 DEF CallerInv, CloseSocket, ConnectTimeout
  <1>6. SocketInv'
    BY <1>1, <1>2, <1>3 DEF SocketInv
  <1>7. ReaderInv'
    BY <1>1, <1>2 DEF ReaderInv
  <1>8. queue \in Seq(Handlers) /\ reads \in Seq(Handlers)
    BY ReadOpsAreHandlers DEF TypeOK, DataTyped
  <1>9. CASE CloseSocket
    <2>1. caller = "closing" /\ queue' = queue \o reads
      BY <1>9 DEF CloseSocket, CloseDescriptor
    <2>2. /\ Len(queue) \in Nat /\ Len(reads) \in Nat /\ Len(queue') = Len(queue) + Len(reads)
          /\ \A i \in 1..Len(queue') :
               queue'[i] = IF i <= Len(queue) THEN queue[i] ELSE reads[i - Len(queue)]
      BY <1>8, <2>1, ConcatProperties
    <2>3. \A i \in 1..Len(reads) : ~IsConnect(reads[i])
      <3>1. \A i \in 1..Len(reads) : reads[i] \in ReadOps
        BY DEF TypeOK, DataTyped
      <3>. QED
        BY <3>1 DEF ReadOps, IsConnect, ReadKinds
    <2>4. ConnectQueued' = {}
      <3>1. ConnectQueued = {}
        BY <2>1 DEF DialInv
      <3>. QED
        BY <2>2, <2>3, <3>1 DEF ConnectQueued
    <2>5. \A i \in ChainQueued' : \/ i \in ChainQueued
                                  \/ i - Len(queue) \in ChainReads
      BY <2>2 DEF ChainQueued, ChainReads
    <2>6. \A i \in ChainQueued' : i \in Nat
      BY <1>8, <2>2 DEF ChainQueued
    <2>7. OneChain' /\ LineReadsAlone'
      <3>1. \A i, j \in ChainQueued' : i = j
        BY <2>2, <2>5, <2>6 DEF OneChain
      <3>2. ChainQueued' # {} => ~IoBusy
        BY <2>5 DEF OneChain
      <3>. QED
        BY <1>3, <3>1, <3>2 DEF OneChain, LineReadsAlone
    <2>8. DialInv'
      BY <1>1, <2>1, <2>4, <1>9 DEF DialInv, CloseSocket
    <2>9. NoChain' <=> NoChain
      <3>1. \A i \in ChainQueued : i \in ChainQueued'
        BY <2>2 DEF ChainQueued
      <3>2. \A i \in ChainReads : i + Len(queue) \in ChainQueued'
        BY <2>2 DEF ChainQueued, ChainReads
      <3>3. ChainQueued' = {} <=> ChainQueued = {} /\ ChainReads = {}
        BY <2>5, <3>1, <3>2
      <3>. QED
        BY <1>3, <3>3 DEF NoChain
    <2>. QED
      BY <1>5, <1>6, <1>7, <2>7, <2>8, <2>9
  <1>10. CASE ConnectTimeout
    <2>1. reads = <<>> /\ caller' = "idle"
      BY <1>10, <1>2 DEF ConnectTimeout, SocketInv
    <2>2. queue' = Abandoned
      <3>1. Abandoned \in Seq(Handlers)
        BY AbandonedType DEF TypeOK
      <3>2. queue' = Abandoned \o <<>>
        BY <1>10, <2>1 DEF ConnectTimeout, CloseDescriptor
      <3>. QED
        BY <3>1, <3>2, ConcatEmptySeq
    <2>. DEFINE none == Op("abandoned", FALSE, NoFrame)
                forgotten == [i \in 1..Len(queue) |->
                                IF IsConnect(queue[i]) THEN none ELSE queue[i]]
    <2>3. none \in Handlers /\ ~IsChain(none) /\ ~IsConnect(none)
      BY DEF Op, Handlers, IsChain, IsConnect
    <2>4. queue' = IF link = "syn" THEN Append(forgotten, none) ELSE forgotten
      BY <2>2 DEF Abandoned
    <2>. HIDE DEF none
    <2>5. /\ forgotten \in Seq(Handlers) /\ Len(forgotten) = Len(queue) /\ Len(queue) \in Nat
          /\ \A i \in 1..Len(queue) :
               forgotten[i] = IF IsConnect(queue[i]) THEN none ELSE queue[i]
      BY <1>8, <2>3
    <2>. HIDE DEF forgotten
    <2>6. /\ Len(queue') \in Nat /\ Len(queue') >= Len(queue)
          /\ \A i \in 1..Len(queue) : queue'[i] = forgotten[i]
          /\ \A i \in 1..Len(queue') : i > Len(queue) => queue'[i] = none
      <3>1. CASE link = "syn"
        BY <2>3, <2>4, <2>5, <3>1, AppendProperties
      <3>2. CASE link # "syn"
        BY <2>4, <2>5, <3>2
      <3>. QED
        BY <3>1, <3>2
    <2>7. ConnectQueued' = {}
      BY <2>3, <2>5, <2>6 DEF ConnectQueued
    <2>8. ChainQueued' \subseteq ChainQueued
      BY <2>3, <2>5, <2>6 DEF ChainQueued
    <2>9. OneChain' /\ LineReadsAlone'
      BY <1>3, <2>8 DEF OneChain, LineReadsAlone
    <2>10. DialInv'
      BY <1>1, <2>1, <2>7 DEF DialInv
    <2>11. NoChain' <=> NoChain
      <3>1. \A i \in ChainQueued : ~IsConnect(queue[i])
        BY DEF ChainQueued, IsChain, IsConnect
      <3>2. ChainQueued \subseteq ChainQueued'
        BY <2>5, <2>6, <3>1 DEF ChainQueued
      <3>3. ChainReads = {}
        BY <2>1 DEF ChainReads
      <3>. QED
        BY <1>3, <2>8, <3>2, <3>3 DEF NoChain
    <2>. QED
      BY <1>5, <1>6, <1>7, <2>9, <2>10, <2>11
  <1>. QED
    BY <1>9, <1>10

LEMMA SafetyStep == IInv /\ Settle /\ [Next]_vars => IInv'
  <1>. SUFFICES ASSUME IInv, Settle, [Next]_vars PROVE IInv'
    OBVIOUS
  <1>1. TypeOK'
    BY FlagsStep, DataStep DEF IInv, TypeOK
  <1>2. CASE UNCHANGED vars
    BY <1>2, StutterStep
  <1>3. CASE Caller
    BY <1>1, <1>3, FlagSteps, StartSteps, CloseSteps DEF Caller
  <1>4. CASE IoThread
    BY <1>1, <1>4, StartSteps, HandlerSteps, CheckSteps DEF IoThread
  <1>5. CASE Environment
    BY <1>1, <1>5, FlagSteps, ReadSteps, EstablishedStep DEF Environment
  <1>. QED
    BY <1>2, <1>3, <1>4, <1>5 DEF Next

LEMMA InvariantHolds == ASSUME Settle PROVE Spec => []IInv
  <1>1. Init => IInv
    BY SafetyInit
  <1>2. IInv /\ [Next]_vars => IInv'
    BY SafetyStep
  <1>. QED
    BY <1>1, <1>2, PTL DEF Spec

\* The chain of reads of an old connection is dead before a new connection is
\* usable: receive_buffer_ has one writer, for every sequence of connections,
\* disconnections, timeouts and dropped links.
THEOREM OneChainAlways == ASSUME Settle PROVE Spec => []OneChain
  <1>1. IInv => OneChain
    BY DEF IInv
  <1>. QED
    BY <1>1, InvariantHolds, PTL

\* The SCIP text reader never competes with the binary reader for the bytes of
\* a connection.
THEOREM LineReadsAloneAlways == ASSUME Settle PROVE Spec => []LineReadsAlone
  <1>1. IInv => LineReadsAlone
    BY DEF IInv
  <1>. QED
    BY <1>1, InvariantHolds, PTL

\* isStopped() answers for the present connection, never for an earlier one.
THEOREM StoppedIsTruthfulAlways ==
  ASSUME Settle PROVE Spec => []StoppedIsTruthful
  <1>1. IInv => StoppedIsTruthful
    BY DEF IInv, ReaderInv, StoppedIsTruthful, TypeOK, FlagsTyped
  <1>. QED
    BY <1>1, InvariantHolds, PTL

(***************************************************************************)
(* THE ONE READER                                                          *)
(*                                                                         *)
(* Under the invariant every step of the client is a step of PacketReader, *)
(* or leaves the session and the reader as they are.                       *)
(***************************************************************************)
ReaderState ==
  IF io.at = "callback" THEN "handling" ELSE IF NoChain THEN "stopped" ELSE "waiting"

LEMMA ReaderSteps ==
  /\ Reader!Open <=> ~connected /\ ReaderState = "stopped" /\ connected' = TRUE
                       /\ ReaderState' = ReaderState
  /\ Reader!Close <=> connected /\ connected' = FALSE /\ ReaderState' = ReaderState
  /\ Reader!Start <=> connected /\ ReaderState = "stopped" /\ ReaderState' = "waiting"
                        /\ connected' = connected
  /\ Reader!Deliver <=> ReaderState = "waiting" /\ ReaderState' = "handling"
                          /\ connected' = connected
  /\ Reader!Resume <=> ReaderState = "handling" /\ ReaderState' = "waiting"
                         /\ connected' = connected
  /\ Reader!End <=> ~connected /\ ReaderState = "waiting" /\ ReaderState' = "stopped"
                      /\ connected' = connected
  /\ UNCHANGED Reader!vars <=> connected' = connected /\ ReaderState' = ReaderState
  BY DEF Reader!Open, Reader!Close, Reader!Start, Reader!Deliver, Reader!Resume,
     Reader!End, Reader!vars, ReaderState

\* A client that handles a packet has a chain.
LEMMA ReaderStates ==
  /\ ReaderState = "handling" <=> io.at = "callback"
  /\ ReaderState = "stopped" <=> NoChain
  /\ ReaderState = "waiting" <=> ~NoChain /\ io.at # "callback"
  /\ ReaderState \in {"handling", "stopped", "waiting"}
  BY DEF ReaderState, NoChain, IoBusy

LEMMA SameReader ==
  ASSUME NoChain' <=> NoChain, io'.at = "callback" <=> io.at = "callback"
  PROVE  ReaderState' = ReaderState
  BY DEF ReaderState

\* The caller opens and closes sessions and starts the reader.
LEMMA CallerReads ==
  ASSUME IInv, TypeOK', Settle, Caller
  PROVE  [Reader!Next]_Reader!vars
  <1>. USE DEF IInv
  <1>1. UNCHANGED io
    BY DEF Caller, Connect, ConnectTimeout, ConnectFailed, ConnectDone, SetOption,
       Disconnect, CloseSocket, SetStopped, StartAsyncReadTask, ClearStopped,
       AsyncReadLine, LineReturned, LineTimeout
  <1>2. CASE StartAsyncReadTask
    <2>1. NoChain /\ ~NoChain'
      BY <1>2, StartSteps
    <2>2. connected /\ connected' = connected
      BY <1>2, Zenon DEF StartAsyncReadTask
    <2>3. io'.at # "callback"
      BY <1>1, <2>1 DEF NoChain, IoBusy
    <2>4. Reader!Start
      BY <1>1, <2>1, <2>2, <2>3, ReaderSteps DEF ReaderState
    <2>. QED
      BY <2>4 DEF Reader!Next
  <1>3. CASE ~StartAsyncReadTask
    <2>1. NoChain' <=> NoChain
      BY <1>3, FlagSteps, StartSteps, CloseSteps DEF Caller
    <2>2. ReaderState' = ReaderState
      BY <1>1, <2>1, SameReader
    <2>3. CASE ConnectDone
      <3>1. ~connected /\ connected' = TRUE /\ NoChain
        BY <2>3 DEF ConnectDone, CallerInv, DialInv
      <3>2. Reader!Open
        BY <2>2, <3>1, ReaderSteps, ReaderStates
      <3>. QED
        BY <3>2 DEF Reader!Next
    <2>4. CASE SetOption \/ Disconnect
      <3>1. connected' = connected \/ connected' = FALSE
        BY <2>4, Zenon DEF SetOption, Disconnect
      <3>2. connected \in BOOLEAN
        BY DEF TypeOK, FlagsTyped
      <3>3. connected' = connected \/ Reader!Close
        BY <2>2, <3>1, <3>2, ReaderSteps, Zenon
      <3>. QED
        BY <2>2, <3>3, ReaderSteps DEF Reader!Next
    <2>5. CASE ~(ConnectDone \/ SetOption \/ Disconnect)
      <3>1. connected' = connected
        BY <1>3, <2>5, Zenon
        DEF Caller, Connect, ConnectTimeout, ConnectFailed, CloseSocket, SetStopped,
            ClearStopped, AsyncReadLine, LineReturned, LineTimeout
      <3>. QED
        BY <2>2, <3>1, ReaderSteps
    <2>. QED
      BY <2>3, <2>4, <2>5
  <1>. QED
    BY <1>2, <1>3

\* The io thread hands packets over, and ends the reader after the session.
LEMMA IoThreadReads ==
  ASSUME IInv, TypeOK', Settle, IoThread
  PROVE  [Reader!Next]_Reader!vars
  <1>. USE DEF IInv
  <1>1. connected' = connected
    BY Zenon DEF IoThread, HandleReceive, StartBody, HandlePacket, CallbackReturns,
       CheckConnected, ArmHeader, Die, HandleLine, HandleConnect
  <1>2. CASE HandlePacket
    <2>1. NoChain' <=> NoChain
      BY <1>2, HandlerSteps
    <2>2. io.at = "idle" /\ io'.at \in {"callback", "check"}
      BY <1>2 DEF HandlePacket, Dispatch, At
    <2>3. ~NoChain'
      BY <2>2 DEF NoChain, IoBusy
    <2>4. ReaderState = "waiting" /\ ReaderState' \in {"handling", "waiting"}
      BY <2>1, <2>2, <2>3 DEF ReaderState
    <2>. QED
      BY <1>1, <2>4, ReaderSteps DEF Reader!Next
  <1>3. CASE CallbackReturns
    <2>1. ReaderState = "handling" /\ ReaderState' = "waiting"
      BY <1>3 DEF CallbackReturns, At, ReaderState, NoChain, IoBusy
    <2>. QED
      BY <1>1, <2>1, ReaderSteps DEF Reader!Next
  <1>4. CASE Die
    <2>1. ~NoChain /\ NoChain'
      BY <1>4, CheckSteps
    <2>2. ~connected /\ io.at # "callback" /\ io'.at # "callback"
      BY <1>4 DEF Die, ReaderInv, At
    <2>3. ReaderState = "waiting" /\ ReaderState' = "stopped"
      BY <2>1, <2>2 DEF ReaderState
    <2>. QED
      BY <1>1, <2>2, <2>3, ReaderSteps DEF Reader!Next
  <1>5. CASE ~(HandlePacket \/ CallbackReturns \/ Die)
    <2>1. io.at # "callback" /\ io'.at # "callback"
      BY <1>5 DEF IoThread, HandleReceive, StartBody, CheckConnected, ArmHeader,
         HandleLine, HandleConnect, Dispatch, At
    <2>2. CASE StartBody \/ ArmHeader
      <3>1. ~StartAsyncReadTask
        BY <2>2, Zenon DEF StartBody, ArmHeader, StartAsyncReadTask, At
      <3>. QED
        BY <1>1, <2>1, <2>2, <3>1, StartSteps, SameReader, ReaderSteps
    <2>3. CASE HandleReceive \/ HandleLine \/ HandleConnect
      BY <1>1, <2>1, <2>3, HandlerSteps, SameReader, ReaderSteps
    <2>4. CASE CheckConnected
      BY <1>1, <1>5, <2>1, <2>4, CheckSteps, SameReader, ReaderSteps
    <2>. QED
      BY <1>5, <2>2, <2>3, <2>4 DEF IoThread
  <1>. QED
    BY <1>2, <1>3, <1>4, <1>5

LEMMA EnvironmentReads ==
  ASSUME IInv, TypeOK', Settle, Environment
  PROVE  [Reader!Next]_Reader!vars
  <1>1. connected' = connected /\ io' = io
    BY Zenon DEF Environment, Established, Arrive, PeerDrops, ReadCompletes, ReadFails
  <1>2. NoChain' <=> NoChain
    BY FlagSteps, ReadSteps, EstablishedStep DEF Environment
  <1>. QED
    BY <1>1, <1>2, SameReader, ReaderSteps

\* handleReceive, handlePacket and asyncReadData, chained through the
\* io_service and shared with a caller that connects and disconnects, behave as
\* ONE loop that is started in a session and ended after it: the safety half of
\* ReadsLikeOneReader.
THEOREM OneReaderRefined == ASSUME Settle PROVE Spec => Reader!Spec
  <1>1. Init => Reader!Init
    <2>. SUFFICES ASSUME Init PROVE Reader!Init
      OBVIOUS
    <2>1. IInv
      BY SafetyInit
    <2>2. connected = FALSE /\ reads = <<>> /\ queue = <<>> /\ io.at = "idle"
      BY DEF Init, At
    <2>3. NoChain
      BY <2>2 DEF NoChain, ChainReads, ChainQueued, IoBusy
    <2>. QED
      BY <2>2, <2>3 DEF Reader!Init
  <1>2. IInv /\ [Next]_vars => [Reader!Next]_Reader!vars
    <2>. SUFFICES ASSUME IInv, [Next]_vars PROVE [Reader!Next]_Reader!vars
      OBVIOUS
    <2>1. TypeOK'
      BY FlagsStep, DataStep DEF IInv, TypeOK
    <2>2. CASE UNCHANGED vars
      <3>1. connected' = connected /\ UNCHANGED <<reads, queue, io>>
        BY <2>2 DEF vars
      <3>2. NoChain' <=> NoChain
        BY <3>1, SameOps
      <3>. QED
        BY <3>1, <3>2, SameReader, ReaderSteps
    <2>. QED
      BY <2>1, <2>2, CallerReads, IoThreadReads, EnvironmentReads DEF Next
  <1>. QED
    BY <1>1, <1>2, InvariantHolds, PTL DEF Spec, Reader!Spec

(***************************************************************************)
(* THE LINE READ AND THE FRAMES                                            *)
(*                                                                         *)
(* Two more invariants, for those who use the client: a handler of a line  *)
(* read does not outlive the session in which it was started (LineInv),    *)
(* and an operation carries a frame only where one was read (FrameInv).    *)
(***************************************************************************)
LineQueued == {i \in 1..Len(queue) : IsLine(queue[i])}

LineInv ==
  /\ \A i \in ConnectQueued, j \in LineQueued : j < i
  /\ caller = "connecting" /\ dial # "pending" => LineQueued = {}
  /\ connected /\ caller \notin {"line", "failed"} => LineQueued = {}

FrameInv ==
  /\ \A i \in 1..Len(reads) : reads[i].kind # "body" => reads[i].frame = NoFrame
  /\ \A i \in 1..Len(queue) : IsLine(queue[i]) /\ queue[i].ok => queue[i].frame \in Texts
  /\ io.at \notin {"body", "callback"} => io.frame = NoFrame

PathInv == IInv /\ LineInv /\ FrameInv

\* What one operation more, or one less, at the ends of a sequence changes.
LEMMA OneMore ==
  ASSUME NEW S, NEW seq \in Seq(S), NEW elt \in S, NEW more, more = Append(seq, elt)
  PROVE  /\ Len(seq) \in Nat /\ Len(more) = Len(seq) + 1
         /\ \A i \in 1..Len(seq) : more[i] = seq[i] /\ i \in 1..Len(more)
         /\ more[Len(seq) + 1] = elt /\ Len(seq) + 1 \in 1..Len(more)
         /\ \A i \in 1..Len(more) : i \in 1..Len(seq) \/ i = Len(seq) + 1
  BY AppendProperties

LEMMA OneLess ==
  ASSUME NEW S, NEW seq \in Seq(S), seq # <<>>, NEW less, less = Tail(seq)
  PROVE  /\ Len(seq) \in Nat \ {0} /\ Len(less) = Len(seq) - 1 /\ Len(less) \in Nat
         /\ \A i \in 1..Len(less) : less[i] = seq[i + 1] /\ i + 1 \in 1..Len(seq)
         /\ Head(seq) = seq[1] /\ 1 \in 1..Len(seq) /\ Head(seq) \in S
         /\ \A i \in 1..Len(seq) : i = 1 \/ i - 1 \in 1..Len(less)
  BY HeadTailProperties, EmptySeq

LEMMA PathInit == Init => PathInv
  <1>. SUFFICES ASSUME Init PROVE PathInv
    OBVIOUS
  <1>1. reads = <<>> /\ queue = <<>> /\ io = At("idle") /\ connected = FALSE
    BY DEF Init
  <1>2. ConnectQueued = {} /\ LineQueued = {}
    BY <1>1 DEF ConnectQueued, LineQueued
  <1>3. LineInv
    BY <1>1, <1>2 DEF LineInv
  <1>4. FrameInv
    BY <1>1 DEF FrameInv, At
  <1>. QED
    BY <1>3, <1>4, SafetyInit DEF PathInv

\* The handlers that are queued, after a step that moves one of them.
LEMMA LinesTaken ==
  ASSUME DataTyped, queue # <<>>, queue' = Tail(queue)
  PROVE  /\ \A i \in LineQueued' : i + 1 \in LineQueued /\ i \in Nat
         /\ \A i \in ConnectQueued' : i + 1 \in ConnectQueued /\ i \in Nat
         /\ IsConnect(Head(queue)) => 1 \in ConnectQueued
         /\ LineQueued \subseteq Nat \ {0}
  <1>1. queue \in Seq(Handlers)
    BY DEF DataTyped
  <1>. QED
    BY <1>1, OneLess DEF LineQueued, ConnectQueued

LEMMA LinesMore ==
  ASSUME DataTyped, NEW op \in Handlers, queue' = Append(queue, op)
  PROVE  /\ LineQueued' = IF IsLine(op) THEN LineQueued \cup {Len(queue) + 1} ELSE LineQueued
         /\ ConnectQueued' = IF IsConnect(op) THEN ConnectQueued \cup {Len(queue) + 1}
                                              ELSE ConnectQueued
         /\ \A i \in LineQueued : i < Len(queue) + 1
  <1>1. queue \in Seq(Handlers)
    BY DEF DataTyped
  <1>2. /\ Len(queue) \in Nat /\ Len(queue') = Len(queue) + 1
        /\ \A i \in 1..Len(queue) : queue'[i] = queue[i]
        /\ queue'[Len(queue) + 1] = op
    BY <1>1, OneMore
  <1>3. CASE IsLine(op)
    <2>1. ~IsConnect(op)
      BY <1>3 DEF IsLine, IsConnect
    <2>. QED
      BY <1>2, <1>3, <2>1 DEF LineQueued, ConnectQueued
  <1>4. CASE ~IsLine(op)
    <2>1. LineQueued' = LineQueued /\ \A i \in LineQueued : i < Len(queue) + 1
      BY <1>2, <1>4 DEF LineQueued
    <2>2. CASE IsConnect(op)
      BY <1>2, <1>4, <2>1, <2>2 DEF ConnectQueued
    <2>3. CASE ~IsConnect(op)
      BY <1>2, <1>4, <2>1, <2>3 DEF ConnectQueued
    <2>. QED
      BY <2>2, <2>3
  <1>. QED
    BY <1>3, <1>4

LEMMA LineStep == IInv /\ IInv' /\ LineInv /\ [Next]_vars => LineInv'
  <1>. SUFFICES ASSUME IInv, IInv', LineInv, [Next]_vars PROVE LineInv'
    OBVIOUS
  <1>1. DataTyped
    BY DEF IInv, TypeOK
  \* Nothing is to be shown of a client that neither dials nor is connected.
  <1>2. ConnectQueued' # {} => caller' = "connecting"
    BY DEF IInv, DialInv
  <1>3. CASE UNCHANGED queue
    <2>1. LineQueued' = LineQueued /\ ConnectQueued' = ConnectQueued
      BY <1>3 DEF LineQueued, ConnectQueued
    <2>2. CASE UNCHANGED <<connected, caller, dial>>
      BY <2>1, <2>2 DEF LineInv
    <2>3. CASE Connect
      BY <2>1, <2>3 DEF Connect, LineInv
    <2>4. CASE ConnectDone
      BY <2>1, <2>4 DEF ConnectDone, LineInv
    <2>5. CASE ConnectFailed \/ SetOption \/ Disconnect \/ SetStopped \/ ClearStopped
                 \/ LineTimeout
      BY <2>1, <2>5 DEF ConnectFailed, SetOption, Disconnect, SetStopped, ClearStopped,
         LineTimeout, LineInv, IInv, CallerInv
    <2>6. CASE LineReturned
      <3>1. LineQueued = {}
        BY <2>6 DEF LineReturned, LineOutstanding, LineQueued
      <3>. QED
        BY <2>1, <2>6, <3>1 DEF LineReturned, LineInv
    <2>7. CASE ConnectTimeout \/ CloseSocket
      BY <1>2, <2>7 DEF ConnectTimeout, CloseSocket, LineInv, IInv, CallerInv
    <2>8. CASE StartAsyncReadTask \/ AsyncReadLine
      BY <2>1, <2>8 DEF StartAsyncReadTask, AsyncReadLine, LineInv
    <2>9. CASE HandleConnect
      <3>1. queue \in Seq(Handlers) /\ queue # <<>> /\ queue' = Tail(queue)
        BY <1>1, <2>9 DEF HandleConnect, Dispatch, DataTyped
      <3>2. Len(queue') # Len(queue)
        BY <3>1, OneLess
      <3>. QED
        BY <1>3, <3>2
    <2>10. CASE UNCHANGED vars
      BY <2>2, <2>10 DEF vars
    <2>11. CASE IoThread /\ ~HandleConnect
      BY <2>2, <2>11 DEF IoThread, HandleReceive, StartBody, HandlePacket, CallbackReturns,
         CheckConnected, ArmHeader, Die, HandleLine
    <2>12. CASE Environment
      BY <2>2, <2>12 DEF Environment, Established, Arrive, PeerDrops, ReadCompletes, ReadFails
    <2>. QED
      BY <2>3, <2>4, <2>5, <2>6, <2>7, <2>8, <2>9, <2>10, <2>11, <2>12 DEF Next, Caller
  <1>4. CASE CloseSocket \/ ConnectTimeout
    BY <1>2, <1>4 DEF ConnectTimeout, CloseSocket, LineInv, IInv, CallerInv
  <1>5. CASE HandleReceive \/ HandlePacket \/ HandleLine
    <2>1. queue # <<>> /\ queue' = Tail(queue) /\ UNCHANGED <<connected, caller, dial>>
      BY <1>5 DEF HandleReceive, HandlePacket, HandleLine, Dispatch
    <2>2. /\ \A i \in LineQueued' : i + 1 \in LineQueued /\ i \in Nat
          /\ \A i \in ConnectQueued' : i + 1 \in ConnectQueued /\ i \in Nat
      BY <1>1, <2>1, LinesTaken
    <2>. QED
      BY <2>1, <2>2 DEF LineInv
  <1>6. CASE HandleConnect
    <2>1. /\ queue # <<>> /\ queue' = Tail(queue) /\ UNCHANGED <<connected, caller>>
          /\ IsConnect(Head(queue))
      BY <1>6 DEF HandleConnect, Dispatch, IsConnect
    <2>2. /\ \A i \in LineQueued' : i + 1 \in LineQueued /\ i \in Nat
          /\ 1 \in ConnectQueued
      BY <1>1, <2>1, LinesTaken
    <2>3. LineQueued = {}
      <3>1. \A j \in LineQueued : j < 1 /\ j \in Nat \ {0}
        BY <1>1, <2>1, <2>2, LinesTaken DEF LineInv
      <3>. QED
        BY <3>1
    <2>4. LineQueued' = {}
      BY <2>2, <2>3
    <2>. QED
      BY <2>4 DEF LineInv
  <1>7. ASSUME NEW kind \in {"header", "body"}, NEW frame \in Frames \cup {NoFrame},
               StartRead(kind, frame), ~UNCHANGED queue, UNCHANGED <<connected, caller, dial>>
        PROVE  LineInv'
    <2>. DEFINE op == Op(kind, FALSE, frame)
    <2>1. op \in Handlers /\ ~IsLine(op) /\ ~IsConnect(op)
      BY DEF Op, Handlers, IsLine, IsConnect, ReadKinds
    <2>2. queue' = Append(queue, op)
      BY <1>7 DEF StartRead
    <2>. HIDE DEF op
    <2>3. LineQueued' = LineQueued /\ ConnectQueued' = ConnectQueued
      BY <1>1, <2>1, <2>2, LinesMore
    <2>. QED
      BY <1>7, <2>3 DEF LineInv
  <1>8. ASSUME NEW ok \in BOOLEAN, NEW frame \in Frames \cup {NoFrame}, reads # <<>>,
               Complete(ok, frame), UNCHANGED <<connected, caller, dial>>
        PROVE  LineInv'
    <2>. DEFINE op == Op(Head(reads).kind, ok, frame)
    <2>1. /\ Head(reads) \in ReadOps /\ Head(reads) = reads[1] /\ 1 \in 1..Len(reads)
      BY <1>1, <1>8, OneLess DEF DataTyped
    <2>2. op \in Handlers /\ op.kind = Head(reads).kind /\ ~IsConnect(op)
      BY <2>1 DEF Op, Handlers, ReadOps, IsConnect, ReadKinds
    <2>3. queue' = Append(queue, op)
      BY <1>8 DEF Complete
    <2>. HIDE DEF op
    <2>4. caller # "connecting"
      BY <1>8 DEF IInv, CallerInv, SocketInv
    <2>5. IsLine(op) => caller \in {"line", "failed", "closing"}
      <3>1. IsLine(op) => 1 \in LineReads
        BY <2>1, <2>2 DEF LineReads, IsLine
      <3>. QED
        BY <3>1 DEF IInv, SocketInv
    <2>6. ~IsLine(op) => LineQueued' = LineQueued
      BY <1>1, <2>2, <2>3, LinesMore
    <2>7. caller = "closing" => ~connected
      BY DEF IInv, CallerInv
    <2>. QED
      BY <1>2, <1>8, <2>4, <2>5, <2>6, <2>7 DEF LineInv
  <1>9. ASSUME NEW ok \in BOOLEAN, Established(ok) PROVE LineInv'
    <2>. DEFINE op == Op("connect", ok, NoFrame)
    <2>1. op \in Handlers /\ ~IsLine(op) /\ IsConnect(op)
      BY DEF Op, Handlers, IsLine, IsConnect
    <2>2. queue' = Append(queue, op) /\ UNCHANGED <<connected, caller, dial>> /\ link = "syn"
      BY <1>9 DEF Established
    <2>. HIDE DEF op
    <2>3. /\ LineQueued' = LineQueued /\ ConnectQueued' = ConnectQueued \cup {Len(queue) + 1}
          /\ \A i \in LineQueued : i < Len(queue) + 1
      BY <1>1, <2>1, <2>2, LinesMore
    <2>. QED
      BY <2>2, <2>3 DEF LineInv
  <1>10. CASE StartAsyncReadTask \/ AsyncReadLine
    <2>1. open
      BY <1>10 DEF StartAsyncReadTask, AsyncReadLine, IInv, CallerInv
    <2>2. UNCHANGED queue
      BY <1>10, <2>1 DEF StartAsyncReadTask, AsyncReadLine, StartRead
    <2>. QED
      BY <1>3, <2>2
  <1>11. CASE StartBody \/ ArmHeader
    BY <1>1, <1>3, <1>7, <1>11 DEF StartBody, ArmHeader, DataTyped
  <1>12. CASE ReadCompletes
    <2>1. wire # <<>> => Head(wire) \in Frames
      BY <1>1 DEF DataTyped
    <2>2. reads # <<>> => Head(reads).frame \in Frames \cup {NoFrame}
      <3>1. reads # <<>> => Head(reads) \in ReadOps
        BY <1>1 DEF DataTyped
      <3>. QED
        BY <3>1 DEF ReadOps
    <2>. QED
      BY <1>3, <1>8, <1>12, <2>1, <2>2 DEF ReadCompletes
  <1>13. CASE ReadFails
    <2>1. reads # <<>> /\ Complete(FALSE, NoFrame) /\ UNCHANGED <<connected, caller, dial>>
      BY <1>13 DEF ReadFails
    <2>2. FALSE \in BOOLEAN /\ NoFrame \in Frames \cup {NoFrame}
      BY Zenon
    <2>. QED
      BY <1>8, <2>1, <2>2, Zenon
  <1>. QED
    BY <1>3, <1>4, <1>5, <1>6, <1>9, <1>10, <1>11, <1>12, <1>13
    DEF Next, Caller, IoThread, Environment, vars, Connect, ConnectFailed, ConnectDone,
        SetOption, Disconnect, SetStopped, ClearStopped, LineReturned, LineTimeout,
        CallbackReturns, CheckConnected, Die, Arrive, PeerDrops

\* A read that is started carries a frame only if it is the read of a body.
LEMMA FrameStarts ==
  ASSUME DataTyped, FrameInv, NEW kind \in ReadKinds, NEW frame \in Frames \cup {NoFrame},
         kind # "body" => frame = NoFrame, StartRead(kind, frame), io' = io \/ io' = At("idle")
  PROVE  FrameInv'
  <1>. DEFINE op == Op(kind, FALSE, frame)
  <1>1. /\ op \in ReadOps /\ op \in Handlers /\ op.kind = kind /\ op.frame = frame
        /\ op.ok = FALSE
    BY DEF Op, ReadOps, Handlers
  <1>2. reads \in Seq(ReadOps) /\ queue \in Seq(Handlers)
    BY DEF DataTyped
  <1>3. (io.at \notin {"body", "callback"} => io.frame = NoFrame)'
    BY DEF FrameInv, At
  <1>4. \/ reads' = Append(reads, op) /\ queue' = queue
        \/ reads' = reads /\ queue' = Append(queue, op)
    BY DEF StartRead
  <1>. HIDE DEF op
  <1>5. CASE reads' = Append(reads, op) /\ queue' = queue
    BY <1>1, <1>2, <1>3, <1>5, OneMore DEF FrameInv
  <1>6. CASE reads' = reads /\ queue' = Append(queue, op)
    BY <1>1, <1>2, <1>3, <1>6, OneMore DEF FrameInv
  <1>. QED
    BY <1>4, <1>5, <1>6

\* A read that completes leaves its frame to its handler.
LEMMA FrameCompletes ==
  ASSUME DataTyped, FrameInv, reads # <<>>, NEW ok \in BOOLEAN,
         NEW frame \in Frames \cup {NoFrame}, Complete(ok, frame), UNCHANGED io,
         ok /\ IsLine(Head(reads)) => frame \in Texts
  PROVE  FrameInv'
  <1>. DEFINE op == Op(Head(reads).kind, ok, frame)
  <1>1. reads \in Seq(ReadOps) /\ queue \in Seq(Handlers)
    BY DEF DataTyped
  <1>2. Head(reads) \in ReadOps
    BY <1>1
  <1>3. op \in Handlers /\ op.kind = Head(reads).kind /\ op.frame = frame /\ op.ok = ok
    BY <1>2 DEF Op, Handlers, ReadOps
  <1>4. reads' = Tail(reads) /\ queue' = Append(queue, op)
    BY DEF Complete
  <1>5. IsLine(op) /\ op.ok => op.frame \in Texts
    BY <1>3 DEF IsLine
  <1>. HIDE DEF op
  <1>6. \A i \in 1..Len(reads') : reads'[i].kind # "body" => reads'[i].frame = NoFrame
    BY <1>1, <1>4, OneLess DEF FrameInv
  <1>7. \A i \in 1..Len(queue') :
          IsLine(queue'[i]) /\ queue'[i].ok => queue'[i].frame \in Texts
    BY <1>1, <1>3, <1>4, <1>5, OneMore DEF FrameInv
  <1>. QED
    BY <1>6, <1>7 DEF FrameInv, IsLine

LEMMA FrameStep == DataTyped /\ FrameInv /\ [Next]_vars => FrameInv'
  <1>. SUFFICES ASSUME DataTyped, FrameInv, [Next]_vars PROVE FrameInv'
    OBVIOUS
  <1>1. reads \in Seq(ReadOps) /\ queue \in Seq(Handlers)
    BY DEF DataTyped
  <1>2. CASE UNCHANGED <<reads, queue>> /\ (UNCHANGED io \/ io'.frame = NoFrame)
    BY <1>2 DEF FrameInv
  <1>3. CASE StartAsyncReadTask \/ AsyncReadLine \/ StartBody \/ ArmHeader
    <2>1. PICK kind \in ReadKinds, frame \in Frames \cup {NoFrame} :
             StartRead(kind, frame) /\ (kind # "body" => frame = NoFrame)
      BY <1>3 DEF StartAsyncReadTask, AsyncReadLine, StartBody, ArmHeader, ReadKinds, DataTyped
    <2>2. io' = io \/ io' = At("idle")
      BY <1>3 DEF StartAsyncReadTask, AsyncReadLine, StartBody, ArmHeader
    <2>. QED
      BY <2>1, <2>2, FrameStarts
  <1>4. CASE HandleReceive \/ HandlePacket \/ HandleLine \/ HandleConnect
    <2>1. /\ queue # <<>> /\ queue' = Tail(queue) /\ UNCHANGED reads
          /\ UNCHANGED io \/ io'.frame = NoFrame \/ io'.at \in {"body", "callback"}
      BY <1>4 DEF HandleReceive, HandlePacket, HandleLine, HandleConnect, Dispatch, At
    <2>2. \A i \in 1..Len(queue') : queue'[i] = queue[i + 1] /\ i + 1 \in 1..Len(queue)
      BY <1>1, <2>1, OneLess
    <2>. QED
      BY <2>1, <2>2 DEF FrameInv, IsLine
  <1>5. CASE CallbackReturns \/ CheckConnected \/ Die
    BY <1>2, <1>5 DEF CallbackReturns, CheckConnected, Die, At
  <1>6. ASSUME NEW ok \in BOOLEAN, Established(ok) PROVE FrameInv'
    <2>. DEFINE op == Op("connect", ok, NoFrame)
    <2>1. op \in Handlers /\ ~IsLine(op)
      BY DEF Op, Handlers, IsLine
    <2>2. queue' = Append(queue, op) /\ UNCHANGED <<reads, io>>
      BY <1>6 DEF Established
    <2>. HIDE DEF op
    <2>3. \A i \in 1..Len(queue') :
            IsLine(queue'[i]) /\ queue'[i].ok => queue'[i].frame \in Texts
      BY <1>1, <2>1, <2>2, OneMore DEF FrameInv
    <2>. QED
      BY <2>2, <2>3 DEF FrameInv, IsLine
  <1>7. CASE ReadCompletes
    <2>1. reads # <<>> /\ UNCHANGED io
      BY <1>7 DEF ReadCompletes
    <2>2. wire # <<>> => Head(wire) \in Frames
      BY DEF DataTyped
    <2>3. Head(reads).frame \in Frames \cup {NoFrame}
      <3>1. Head(reads) \in ReadOps
        BY <1>1, <2>1
      <3>. QED
        BY <3>1 DEF ReadOps
    <2>4. CASE Head(reads).kind = "header" /\ wire # <<>> /\ Complete(TRUE, Head(wire))
      BY <2>1, <2>2, <2>4, FrameCompletes DEF IsLine
    <2>5. CASE Head(reads).kind = "body" /\ Complete(TRUE, Head(reads).frame)
      BY <2>1, <2>3, <2>5, FrameCompletes DEF IsLine
    <2>6. CASE wire # <<>> /\ Head(wire) \in Texts /\ Complete(TRUE, Head(wire))
      BY <2>1, <2>2, <2>6, FrameCompletes
    <2>7. CASE UNCHANGED <<reads, queue>>
      BY <1>2, <2>1, <2>7
    <2>. QED
      BY <1>7, <2>4, <2>5, <2>6, <2>7 DEF ReadCompletes
  <1>8. CASE ReadFails
    <2>1. reads # <<>> /\ Complete(FALSE, NoFrame) /\ UNCHANGED io
      BY <1>8 DEF ReadFails
    <2>2. FALSE \in BOOLEAN /\ NoFrame \in Frames \cup {NoFrame}
      BY Zenon
    <2>. QED
      BY <2>1, <2>2, FrameCompletes, Zenon
  <1>9. CASE CloseSocket \/ ConnectTimeout
    <2>1. PICK handlers \in Seq(Handlers) :
            /\ queue' = handlers \o reads /\ reads' = <<>> /\ UNCHANGED io
            /\ \A i \in 1..Len(handlers) :
                 IsLine(handlers[i]) /\ handlers[i].ok => handlers[i].frame \in Texts
      <3>1. CASE CloseSocket
        BY <1>1, <3>1 DEF CloseSocket, CloseDescriptor, FrameInv
      <3>2. CASE ConnectTimeout
        <4>. DEFINE none == Op("abandoned", FALSE, NoFrame)
                    forgotten == [i \in 1..Len(queue) |->
                                    IF IsConnect(queue[i]) THEN none ELSE queue[i]]
        <4>1. none \in Handlers /\ ~IsLine(none)
          BY DEF Op, Handlers, IsLine
        <4>2. Abandoned = IF link = "syn" THEN Append(forgotten, none) ELSE forgotten
          BY DEF Abandoned
        <4>. HIDE DEF none
        <4>3. /\ forgotten \in Seq(Handlers) /\ Len(forgotten) = Len(queue)
              /\ \A i \in 1..Len(queue) :
                   forgotten[i] = IF IsConnect(queue[i]) THEN none ELSE queue[i]
          BY <1>1, <4>1
        <4>. HIDE DEF forgotten
        <4>4. \A i \in 1..Len(forgotten) :
                IsLine(forgotten[i]) /\ forgotten[i].ok => forgotten[i].frame \in Texts
          BY <4>1, <4>3 DEF FrameInv
        <4>5. \A i \in 1..Len(Abandoned) :
                IsLine(Abandoned[i]) /\ Abandoned[i].ok => Abandoned[i].frame \in Texts
          BY <4>1, <4>2, <4>3, <4>4, OneMore
        <4>6. Abandoned \in Seq(Handlers)
          BY AbandonedType
        <4>7. queue' = Abandoned \o reads /\ reads' = <<>> /\ UNCHANGED io
          BY <3>2, Zenon DEF ConnectTimeout, CloseDescriptor
        <4>. QED
          BY <4>5, <4>6, <4>7
      <3>. QED
        BY <1>9, <3>1, <3>2
    <2>2. reads \in Seq(Handlers)
      BY <1>1, ReadOpsAreHandlers
    <2>3. /\ Len(handlers) \in Nat /\ Len(reads) \in Nat
          /\ Len(queue') = Len(handlers) + Len(reads)
          /\ \A i \in 1..Len(queue') :
               queue'[i] = IF i <= Len(handlers) THEN handlers[i] ELSE reads[i - Len(handlers)]
      BY <2>1, <2>2, ConcatProperties
    <2>4. \A i \in 1..Len(reads) : ~reads[i].ok
      <3>1. \A i \in 1..Len(reads) : reads[i] \in ReadOps
        BY <1>1
      <3>. QED
        BY <3>1 DEF ReadOps
    <2>5. \A i \in 1..Len(queue') :
            IsLine(queue'[i]) /\ queue'[i].ok => queue'[i].frame \in Texts
      BY <2>1, <2>3, <2>4
    <2>. QED
      BY <2>1, <2>5 DEF FrameInv, IsLine
  <1>. QED
    BY <1>2, <1>3, <1>4, <1>5, <1>6, <1>7, <1>8, <1>9
    DEF Next, Caller, IoThread, Environment, vars, Connect, ConnectFailed, ConnectDone,
        SetOption, Disconnect, SetStopped, ClearStopped, LineReturned, LineTimeout,
        Arrive, PeerDrops

LEMMA PathStep == PathInv /\ Settle /\ [Next]_vars => PathInv'
  <1>1. IInv => DataTyped
    BY DEF IInv, TypeOK
  <1>. QED
    BY <1>1, SafetyStep, LineStep, FrameStep DEF PathInv

\* The handler of a line read, which holds a reference to what the caller gave
\* asyncReadLine(), is never called in a session other than its own, nor when
\* nobody waits for the line.
THEOREM NoLateLine ==
  ASSUME Settle
  PROVE  Spec => [](connected /\ caller \notin {"line", "failed"} => ~LineOutstanding)
  <1>1. Init => PathInv
    BY PathInit
  <1>2. PathInv /\ [Next]_vars => PathInv'
    BY PathStep
  <1>3. PathInv => (connected /\ caller \notin {"line", "failed"} => ~LineOutstanding)
    <2>. SUFFICES ASSUME PathInv, connected, caller \notin {"line", "failed"}
                  PROVE  ~LineOutstanding
      OBVIOUS
    <2>1. LineQueued = {} /\ LineReads = {}
      BY DEF PathInv, LineInv, IInv, SocketInv, CallerInv
    <2>. QED
      BY <2>1 DEF LineOutstanding, LineQueued, LineReads
  <1>. QED
    BY <1>1, <1>2, <1>3, PTL DEF Spec

=============================================================================
