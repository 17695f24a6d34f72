-------------------------- MODULE MqttClientProofs --------------------------
(***************************************************************************)
(* Proofs about the requests of an MQTT client: for every set of requests, *)
(* every range of packet ids and any number of connections, a request is   *)
(* completed at most once, an acknowledged one has reached the broker, and *)
(* the pipe's one send handle is never started twice.                      *)
(***************************************************************************)
EXTENDS MqttClient, SequenceTheorems, FiniteSetTheorems, TLAPS

\* The packets that a pipe has to send, or has sent: a message of a request
\* carries the id of the request, and a PUBREL the id of one that has arrived.
Arrived(i) == \E q \in got : pid[q] = i
Outgoing == {p \in Packets :
    \/ p.r \in Req /\ p.t = kind[p.r] /\ p.id = pid[p.r] /\ (WithId(p.r) => p.id \in Pid)
    \/ p.t = "rel" /\ p.r = None /\ p.id \in Pid /\ Arrived(p.id)
    \/ p.t = "ping" /\ p.r = None}

\* The answers of the broker have the id of a request that has arrived.
Incoming == {p \in Packets : p.t \in {"rec", "ack"} /\ p.id \in Pid /\ Arrived(p.id)}

Wires ==
    /\ tx \in Seq(Packets) /\ send_messages \in Seq(Outgoing)
    /\ toBroker \in Seq(Outgoing) /\ toClient \in Seq(Incoming)
    /\ Len(send_messages) <= SendLmq

\* The send handle: who has it, pipe by pipe.
Handle ==
    /\ Len(tx) <= 1
    /\ scb => tx = <<>>
    /\ pipe = "none" => tx = <<>> /\ ~scb
    /\ pipe # "up" => send_messages = <<>>
    /\ pipe = "up" => (busy <=> tx # <<>> \/ scb)

\* Where a request is.
Untouched == \A r \in Req : st[r] = "new" => pid[r] = 0 /\ prov[r] = 0
Tracked == \A i \in Pid : sent_unack[i] # None =>
    /\ st[sent_unack[i]] = "busy" /\ pid[sent_unack[i]] = i /\ prov[sent_unack[i]] = i
    /\ WithId(sent_unack[i])
Waiting ==
    /\ \A k \in 1..Len(send_queue) :
         /\ st[send_queue[k]] = "busy" /\ prov[send_queue[k]] = 0
         /\ \A i \in Pid : sent_unack[i] # send_queue[k]
         /\ (WithId(send_queue[k]) => pid[send_queue[k]] \in Pid)
    /\ \A k, l \in 1..Len(send_queue) : send_queue[k] = send_queue[l] => k = l
Placed == \A r \in Req :
    /\ fin[r] <= 1 /\ (st[r] # "done" => fin[r] = 0)
    /\ st[r] = "busy" /\ r \notin robbed =>
         \/ \E i \in Pid : sent_unack[i] = r
         \/ \E k \in 1..Len(send_queue) : send_queue[k] = r
Reached == \A r \in acked : pid[r] \in Pid /\ (r \in got \/ \E q \in Req \ {r} : pid[q] = pid[r])

Inv == TypeOK /\ Wires /\ Handle /\ Untouched /\ Tracked /\ Waiting /\ Placed /\ Reached

-----------------------------------------------------------------------------
(* What no step takes back.                                                *)

\* A request has its kind and, once it has one, its packet id for good; what the
\* broker has got it has got.
Stable ==
    /\ kind' = kind /\ pidmax' = pidmax /\ got \subseteq got'
    /\ \A q \in Req : pid'[q] = pid[q] \/ (st[q] = "new" /\ WithId(q))

LEMMA SeqOfMore ==
    ASSUME NEW S, NEW T, S \subseteq T, NEW s \in Seq(S)
    PROVE  s \in Seq(T)
OBVIOUS

LEMMA StableIds ==
    ASSUME Inv, Stable
    PROVE  /\ Pid' = Pid /\ Packets' = Packets
           /\ \A r \in Req : WithId(r)' = WithId(r) /\ (pid[r] \in Pid => pid'[r] = pid[r])
           /\ \A i \in Pid : Arrived(i) => Arrived(i)'
<1>1. Pid' = Pid /\ Packets' = Packets /\ \A r \in Req : WithId(r)' = WithId(r)
  BY DEF Stable, Pid, Packets, WithId
<1>2. 0 \notin Pid
  BY ClientAssumption DEF Pid, Inv, TypeOK
<1>3. \A r \in Req : pid[r] \in Pid => pid'[r] = pid[r]
  BY <1>2 DEF Stable, Inv, Untouched
<1>4. ASSUME NEW i \in Pid, Arrived(i)
      PROVE  Arrived(i)'
  BY <1>3, <1>4 DEF Arrived, Stable, Inv, TypeOK
<1> QED
  BY <1>1, <1>3, <1>4

LEMMA StablePackets ==
    ASSUME Inv, Stable
    PROVE  Outgoing \subseteq Outgoing' /\ Incoming \subseteq Incoming'
<1>1. ASSUME NEW p \in Outgoing, p.r \in Req
      PROVE  pid'[p.r] = pid[p.r]
  <2>1. WithId(p.r) => p.id \in Pid /\ p.id = pid[p.r]
    BY ClientAssumption, <1>1 DEF Outgoing, WithId
  <2> QED
    BY <1>1, <2>1, StableIds DEF Stable
<1>2. ASSUME NEW p \in Outgoing
      PROVE  p \in Outgoing'
  BY <1>1, <1>2, StableIds DEF Outgoing, Stable
<1>3. ASSUME NEW p \in Incoming
      PROVE  p \in Incoming'
  BY <1>3, StableIds DEF Incoming
<1> QED
  BY <1>2, <1>3

LEMMA NextStable ==
    ASSUME Inv, [Next]_vars
    PROVE  Stable
<1> USE DEF Stable, sock_vars, pipe_vars, aio_vars, net_vars, hist_vars
<1>1. ASSUME NEW r \in Req, mqtt_ctx_send(r)
      PROVE  Stable
  BY <1>1 DEF mqtt_ctx_send, Inv, TypeOK
<1>2. ASSUME NEW r \in Req, TakeCancel(r) \/ mqtt_ctx_cancel_send(r)
      PROVE  Stable
  BY <1>2 DEF TakeCancel, mqtt_ctx_cancel_send
<1>3. CASE mqtt_pipe_start \/ Break \/ CloseLost \/ PipeDestroy
  BY <1>3 DEF mqtt_pipe_start, Break, CloseLost, PipeDestroy
<1>4. CASE SendError \/ SendDone \/ mqtt_send_cb
  BY <1>4 DEF SendError, SendDone, mqtt_send_cb
<1>5. CASE TimerPing \/ (\E i \in Pid : TimerResend(i))
  BY <1>5 DEF TimerPing, TimerResend
<1>6. CASE mqtt_recv_cb \/ Broker
  BY <1>6 DEF mqtt_recv_cb, Broker
<1>7. CASE UNCHANGED vars
  BY <1>7 DEF vars
<1> QED
  BY <1>1, <1>2, <1>3, <1>4, <1>5, <1>6, <1>7 DEF Next

-----------------------------------------------------------------------------
(* The pipe: Wires and Handle.                                             *)

\* The message of a request may be sent once the request has its id.
LEMMA RequestPacket ==
    ASSUME Inv, Stable, NEW r \in Req, pid' \in [Req -> 0..pidmax], WithId(r) => pid'[r] \in Pid
    PROVE  Packet(kind[r], r, pid'[r]) \in Outgoing'
<1>1. kind[r] \in KindSet /\ kind'[r] = kind[r] /\ pid'[r] \in 0..pidmax
  BY ClientAssumption DEF Inv, TypeOK, Stable
<1>2. Packet(kind[r], r, pid'[r]) \in Packets'
  BY <1>1, StableIds DEF Packets, Packet, KindSet
<1> QED
  BY <1>1, <1>2, StableIds DEF Outgoing, Packet

\* So may a PUBREL for what has arrived, and a PINGREQ.
LEMMA OtherPacket ==
    ASSUME Inv, Stable
    PROVE  /\ Packet("ping", None, 0) \in Outgoing'
           /\ \A i \in Pid : Arrived(i) => Packet("rel", None, i) \in Outgoing'
<1>1. 0 \in 0..pidmax /\ Pid \subseteq 0..pidmax
  BY ClientAssumption DEF Inv, TypeOK, Pid
<1>2. Packet("ping", None, 0) \in Packets
  BY <1>1 DEF Packet, Packets
<1>3. \A i \in Pid : Packet("rel", None, i) \in Packets
  BY <1>1 DEF Packet, Packets
<1>4. Packet("ping", None, 0) \in Outgoing'
  BY <1>2, StableIds DEF Outgoing, Packet
<1>5. ASSUME NEW i \in Pid, Arrived(i)
      PROVE  Packet("rel", None, i) \in Outgoing'
  BY <1>3, <1>5, StableIds DEF Outgoing, Packet
<1> QED
  BY <1>4, <1>5

\* What travels, and stays on its way, is still in order after the step.
LEMMA StableWires ==
    ASSUME Inv, Stable
    PROVE  /\ tx \in Seq(Packets') /\ send_messages \in Seq(Outgoing')
           /\ toBroker \in Seq(Outgoing') /\ toClient \in Seq(Incoming')
           /\ Outgoing' \subseteq Packets' /\ Incoming' \subseteq Packets'
<1>1. tx \in Seq(Packets')
  BY StableIds DEF Inv, Wires
<1>2. send_messages \in Seq(Outgoing') /\ toBroker \in Seq(Outgoing') /\ toClient \in Seq(Incoming')
  BY StablePackets, SeqOfMore DEF Inv, Wires
<1> QED
  BY <1>1, <1>2 DEF Outgoing, Incoming

\* A packet that is sent or queued is one that may be.
LEMMA SendWires ==
    ASSUME Inv, Stable, NEW pkt \in Outgoing', Send(pkt)
    PROVE  tx' \in Seq(Packets') /\ toBroker' \in Seq(Outgoing')
BY StableWires DEF Send

\* mqtt_send_msg starts the handle only if it is free, and leaves it taken.
LEMMA SendPipeKeeps ==
    ASSUME Inv, Stable, NEW r \in Req, NEW b \in BOOLEAN, SendPipe(r, b),
           pid' \in [Req -> 0..pidmax], WithId(r) => pid'[r] \in Pid,
           ~b => tx = <<>>
    PROVE  /\ tx' \in Seq(Packets') /\ toBroker' \in Seq(Outgoing')
           /\ send_messages' \in Seq(Outgoing') /\ Len(send_messages') <= SendLmq
           /\ busy' = TRUE /\ (b => tx' = tx) /\ (~b => tx' # <<>> /\ Len(tx') <= 1)
<1> DEFINE pkt == Packet(kind[r], r, pid'[r])
<1>1. pkt \in Outgoing'
  BY RequestPacket
<1>2. CASE ~b
  <2>1. busy' = TRUE /\ Send(pkt) /\ send_messages' = send_messages
    BY <1>2 DEF SendPipe
  <2>2. tx' = Append(<<>>, pkt)
    BY <1>2, <2>1 DEF Send
  <2>3. tx' # <<>> /\ Len(tx') <= 1
    BY <2>2
  <2> QED
    BY <1>1, <1>2, <2>1, <2>3, StableWires, SendWires DEF Inv, Wires
<1>3. CASE b
  <2>1. send_messages' = Queued(r, pkt) /\ tx' = tx /\ toBroker' = toBroker /\ busy' = TRUE
    BY <1>3 DEF SendPipe
  <2>2. send_messages \in Seq(Outgoing') /\ Len(send_messages) <= SendLmq
    BY StableWires DEF Inv, Wires
  <2>3. SendLmq \in Nat \ {0}
    BY ClientAssumption
  <2>4. send_messages' \in Seq(Outgoing') /\ Len(send_messages') <= SendLmq
    <3>1. CASE send_messages' = send_messages
      BY <2>2, <3>1
    <3>2. CASE send_messages' = Append(send_messages, pkt) /\ Len(send_messages) < SendLmq
      BY <1>1, <2>2, <2>3, <3>2
    <3>3. CASE send_messages' = Append(Tail(send_messages), pkt) /\ ~(Len(send_messages) < SendLmq)
      <4>1. send_messages # <<>>
        BY <2>2, <2>3, <3>3
      <4>2. Tail(send_messages) \in Seq(Outgoing') /\ Len(Tail(send_messages)) = Len(send_messages) - 1
        BY <2>2, <4>1
      <4> QED
        BY <1>1, <2>2, <2>3, <3>3, <4>2
    <3> QED
      BY <2>1, <3>1, <3>2, <3>3 DEF Queued
  <2> QED
    BY <1>3, <2>1, <2>4, StableWires
<1> QED
  BY <1>2, <1>3

\* A PUBREL, a PINGREQ or a repeated message: sent if the handle is free.
LEMMA SendOrQueueKeeps ==
    ASSUME Inv, Stable, NEW pkt \in Outgoing', SendOrQueue(pkt), pipe = "up",
           pipe' = pipe, scb' = scb, toClient' \in Seq(Incoming')
    PROVE  Wires' /\ Handle'
<1>1. busy \in BOOLEAN /\ scb \in BOOLEAN /\ SendLmq \in Nat /\ tx \in Seq(Packets)
  BY ClientAssumption DEF Inv, TypeOK
<1>2. CASE ~busy
  BY <1>1, <1>2, StableWires, SendWires DEF SendOrQueue, Send, Inv, Wires, Handle
<1>3. CASE busy
  <2>1. send_messages' \in Seq(Outgoing') /\ Len(send_messages') <= SendLmq
    <3>1. CASE send_messages' = send_messages
      BY <3>1, StableWires DEF Inv, Wires
    <3>2. CASE send_messages' = Append(send_messages, pkt) /\ Len(send_messages) < SendLmq
      BY <1>1, <3>2, StableWires DEF Inv, Wires
    <3> QED
      BY <1>3, <3>1, <3>2 DEF SendOrQueue
  <2> QED
    BY <1>1, <1>3, <2>1, StableWires DEF SendOrQueue, Inv, Wires, Handle
<1> QED
  BY <1>2, <1>3

\* mqtt_send_msg on the pipe that is up, by whoever finds the handle as busy says.
LEMMA SendMsgKeeps ==
    ASSUME Inv, Stable, NEW r \in Req, NEW b \in BOOLEAN, mqtt_send_msg(r, b),
           pid' \in [Req -> 0..pidmax], WithId(r) => pid'[r] \in Pid,
           pipe' = "up", toClient' = toClient,
           \/ ~b /\ tx = <<>> /\ ~scb'
           \/ b /\ busy /\ pipe = "up" /\ scb' = scb
    PROVE  Wires' /\ Handle'
<1>1. CASE SendPipe(r, b)
  <2>1. /\ tx' \in Seq(Packets') /\ toBroker' \in Seq(Outgoing')
        /\ send_messages' \in Seq(Outgoing') /\ Len(send_messages') <= SendLmq
        /\ busy' = TRUE /\ (b => tx' = tx) /\ (~b => tx' # <<>> /\ Len(tx') <= 1)
    BY <1>1, SendPipeKeeps
  <2>2. Wires'
    BY <2>1, StableWires DEF Wires
  <2>3. Handle'
    <3>1. CASE ~b
      BY <2>1, <3>1 DEF Handle
    <3>2. CASE b
      BY <2>1, <3>2 DEF Handle, Inv
    <3> QED
      BY <3>1, <3>2
  <2> QED
    BY <2>2, <2>3
<1>2. CASE busy' = b /\ UNCHANGED <<tx, toBroker, send_messages>>
  <2>1. Wires'
    BY <1>2, StableWires DEF Inv, Wires
  <2>2. Handle'
    <3>1. CASE ~b
      BY <1>2, <3>1 DEF Handle
    <3>2. CASE b
      BY <1>2, <3>2 DEF Handle, Inv
    <3> QED
      BY <3>1, <3>2
  <2> QED
    BY <2>1, <2>2
<1> QED
  BY <1>1, <1>2 DEF mqtt_send_msg

LEMMA SendCalls ==
    ASSUME Inv, Stable, NEW r \in Req, mqtt_ctx_send(r)
    PROVE  /\ pid' \in [Req -> 0..pidmax] /\ (WithId(r) => pid'[r] \in Pid)
           /\ next_packet_id' \in Pid
<1>1. next_packet_id \in Pid /\ Pid \subseteq 0..pidmax /\ pidmax \in Nat \ {0} /\ Pid = 1..pidmax
  BY ClientAssumption DEF Inv, TypeOK, Pid
<1>2. NextId \in Pid
  BY <1>1 DEF NextId
<1> QED
  BY <1>1, <1>2 DEF mqtt_ctx_send, Inv, TypeOK

LEMMA CtxSendPipe ==
    ASSUME Inv, Stable, NEW r \in Req, mqtt_ctx_send(r)
    PROVE  Wires' /\ Handle'
<1>1. CASE pipe # "up"
  BY <1>1, StableWires DEF mqtt_ctx_send, Inv, Wires, Handle
<1>2. CASE pipe = "up"
  <2>1. mqtt_send_msg(r, busy) /\ pipe' = pipe /\ scb' = scb /\ toClient' = toClient
    BY <1>2 DEF mqtt_ctx_send
  <2>2. busy \in BOOLEAN /\ (~busy => tx = <<>> /\ ~scb)
    BY <1>2 DEF Inv, TypeOK, Handle
  <2> QED
    BY <1>2, <2>1, <2>2, SendCalls, SendMsgKeeps
<1> QED
  BY <1>1, <1>2

\* The context that waits longest, served when the pipe starts or a send ends.
LEMMA HeadWaits ==
    ASSUME Inv, send_queue # <<>>
    PROVE  /\ Head(send_queue) \in Req /\ 1 \in 1..Len(send_queue)
           /\ Head(send_queue) = send_queue[1]
           /\ WithId(Head(send_queue)) => pid[Head(send_queue)] \in Pid
           /\ st[Head(send_queue)] = "busy" /\ prov[Head(send_queue)] = 0
           /\ \A i \in Pid : sent_unack[i] # Head(send_queue)
<1>1. Head(send_queue) \in Req /\ 1 \in 1..Len(send_queue) /\ Head(send_queue) = send_queue[1]
  BY DEF Inv, TypeOK
<1> QED
  BY <1>1 DEF Inv, Waiting

LEMMA StartPipe ==
    ASSUME Inv, Stable, mqtt_pipe_start
    PROVE  Wires' /\ Handle'
<1>1. tx = <<>> /\ ~scb /\ scb' = scb /\ pipe' = "up" /\ toClient' = toClient
  BY DEF mqtt_pipe_start, Inv, Handle
<1>2. CASE send_queue = <<>>
  BY <1>1, <1>2, StableWires DEF mqtt_pipe_start, Inv, Wires, Handle
<1>3. CASE send_queue # <<>>
  <2>1. mqtt_send_msg(Head(send_queue), FALSE) /\ pid' = pid /\ pid' \in [Req -> 0..pidmax]
    BY <1>3 DEF mqtt_pipe_start, Inv, TypeOK
  <2> QED
    BY <1>1, <1>3, <2>1, HeadWaits, SendMsgKeeps
<1> QED
  BY <1>2, <1>3

LEMMA LostPipe ==
    ASSUME Inv, Stable, Break \/ CloseLost \/ PipeDestroy \/ SendError
    PROVE  Wires' /\ Handle'
<1> USE StableWires DEF Wires, Handle, pipe_vars
<1>1. CASE Break
  BY <1>1 DEF Break, Inv
<1>2. CASE CloseLost
  BY <1>2, ClientAssumption DEF CloseLost, mqtt_pipe_close, Inv
<1>3. CASE PipeDestroy
  BY <1>3 DEF PipeDestroy, net_vars, Inv
<1>4. CASE SendError
  <2>1. tx' \in Seq(Packets') /\ Len(tx') <= 1 /\ tx' = <<>> /\ scb' = scb
    BY <1>4 DEF SendError, Inv
  <2>2. CASE pipe = "up"
    BY <1>4, <2>1, <2>2, ClientAssumption DEF SendError, mqtt_pipe_close, Inv
  <2>3. CASE pipe # "up"
    BY <1>4, <2>1, <2>3 DEF SendError, Inv
  <2> QED
    BY <2>2, <2>3
<1> QED
  BY <1>1, <1>2, <1>3, <1>4

LEMMA SentPipe ==
    ASSUME Inv, Stable, SendDone \/ mqtt_send_cb
    PROVE  Wires' /\ Handle'
<1>1. CASE SendDone
  <2>1. tx' \in Seq(Packets') /\ tx' = <<>> /\ scb' = (pipe = "up") /\ tx # <<>>
    BY <1>1, StableWires DEF SendDone, Inv, Wires, Handle
  <2> QED
    BY <1>1, <2>1, StableWires, SMTT(60) DEF SendDone, net_vars, Inv, TypeOK, Wires, Handle
<1>2. CASE mqtt_send_cb
  <2>1. scb /\ ~scb' /\ tx = <<>> /\ pipe # "none" /\ pipe' = pipe /\ pid' = pid /\ toClient' = toClient
    BY <1>2 DEF mqtt_send_cb, Inv, Handle
  <2>2. CASE send_queue # <<>> /\ pipe # "up"
    BY <1>2, <2>1, <2>2, StableWires DEF mqtt_send_cb, Inv, Wires, Handle
  <2>3. CASE send_queue # <<>> /\ pipe = "up"
    <3>1. mqtt_send_msg(Head(send_queue), FALSE) /\ pid' \in [Req -> 0..pidmax]
      BY <1>2, <2>1, <2>3 DEF mqtt_send_cb, Inv, TypeOK
    <3> QED
      BY <2>1, <2>3, <3>1, HeadWaits, SendMsgKeeps
  <2>4. CASE send_queue = <<>> /\ send_messages # <<>>
    <3>1. /\ busy' = TRUE /\ Send(Head(send_messages)) /\ send_messages' = Tail(send_messages)
          /\ pipe = "up"
      BY <1>2, <2>4 DEF mqtt_send_cb, Inv, Handle
    <3>2. Head(send_messages) \in Outgoing' /\ Tail(send_messages) \in Seq(Outgoing')
          /\ Len(Tail(send_messages)) <= SendLmq
      BY <2>4, StableWires, ClientAssumption DEF Inv, Wires
    <3> QED
      BY <2>1, <3>1, <3>2, SendWires, StableWires DEF Send, Wires, Handle
  <2>5. CASE send_queue = <<>> /\ send_messages = <<>>
    BY <1>2, <2>1, <2>5, StableWires DEF mqtt_send_cb, NotBusy, Inv, Wires, Handle
  <2> QED
    BY <2>2, <2>3, <2>4, <2>5
<1> QED
  BY <1>1, <1>2

LEMMA TimerPipe ==
    ASSUME Inv, Stable, TimerPing \/ (\E i \in Pid : TimerResend(i))
    PROVE  Wires' /\ Handle'
<1>1. CASE TimerPing
  <2>1. /\ Send(Packet("ping", None, 0)) /\ Packet("ping", None, 0) \in Outgoing'
        /\ pipe = "up" /\ ~busy /\ tx = <<>> /\ ~scb
    BY <1>1, OtherPacket DEF TimerPing, Inv, TypeOK, Handle
  <2> QED
    BY <1>1, <2>1, SendWires, StableWires DEF TimerPing, Send, Inv, Wires, Handle
<1>2. ASSUME NEW i \in Pid, TimerResend(i)
      PROVE  Wires' /\ Handle'
  <2> DEFINE r == sent_unack[i]
  <2>1. r \in Req /\ pid[r] = i /\ pid' = pid /\ pid \in [Req -> 0..pidmax]
    BY <1>2 DEF TimerResend, sock_vars, Inv, Tracked, TypeOK
  <2>2. Packet(kind[r], r, i) \in Outgoing'
    BY <2>1, RequestPacket
  <2> QED
    BY <1>2, <2>2, StableWires, SendOrQueueKeeps DEF TimerResend, Inv
<1> QED
  BY <1>1, <1>2

LEMMA RecvPipe ==
    ASSUME Inv, Stable, mqtt_recv_cb
    PROVE  Wires' /\ Handle'
<1> DEFINE pkt == Head(toClient)
<1>1. /\ pkt \in Incoming /\ toClient' = Tail(toClient) /\ toClient' \in Seq(Incoming')
      /\ pipe = "up" /\ pipe' = pipe /\ scb' = scb
  BY StableWires DEF mqtt_recv_cb, Inv, Wires
<1>2. CASE RecvPubrec(pkt)
  <2>1. Packet("rel", None, pkt.id) \in Outgoing'
    BY <1>1, OtherPacket DEF Incoming
  <2> QED
    BY <1>1, <1>2, <2>1, SendOrQueueKeeps DEF RecvPubrec
<1>3. CASE RecvAck(pkt)
  BY <1>1, <1>3, StableWires DEF RecvAck, Inv, Wires, Handle
<1> QED
  BY <1>2, <1>3 DEF mqtt_recv_cb

LEMMA BrokerPipe ==
    ASSUME Inv, Stable, Broker
    PROVE  Wires' /\ Handle'
<1> DEFINE pkt == Head(toBroker)
<1>1. pkt \in Outgoing /\ toBroker' = Tail(toBroker) /\ toBroker' \in Seq(Outgoing')
  BY StableWires DEF Broker, Inv, Wires
<1>2. got' = got \union ({pkt.r} \ {None})
  BY DEF Broker
<1>3. ASSUME NEW i, i = pkt.id, pkt.t \in {"pub1", "pub2", "sub", "rel"}
      PROVE  i \in Pid /\ Arrived(i)'
  <2>1. CASE pkt.r \in Req /\ pkt.t = kind[pkt.r]
    <3>1. i \in Pid /\ i = pid[pkt.r]
      BY <1>1, <1>3, <2>1, ClientAssumption DEF Outgoing, WithId, Inv, TypeOK, KindSet
    <3>2. pid' = pid /\ pkt.r \in got'
      BY <1>2, <2>1, ClientAssumption DEF Broker, sock_vars
    <3> QED
      BY <3>1, <3>2 DEF Arrived
  <2>2. CASE pkt.t = "rel" /\ pkt.id \in Pid /\ Arrived(pkt.id)
    BY <1>3, <2>2, StableIds
  <2> QED
    BY <1>1, <1>3, <2>1, <2>2 DEF Outgoing
<1>4. ASSUME NEW i \in Pid, Arrived(i)', NEW t \in {"rec", "ack"}
      PROVE  Packet(t, None, i) \in Incoming'
  <2>1. Pid \subseteq 0..pidmax
    BY ClientAssumption DEF Inv, TypeOK, Pid
  <2>2. Packet(t, None, i) \in Packets
    BY <2>1 DEF Packet, Packets
  <2> QED
    BY <1>4, <2>2, StableIds DEF Incoming, Packet
<1>5. toClient' \in Seq(Incoming')
  <2>1. CASE toClient' = toClient
    BY <2>1, StableWires
  <2>2. ASSUME NEW t \in {"rec", "ack"}, toClient' = Append(toClient, Packet(t, None, pkt.id)),
               pkt.t \in {"pub1", "pub2", "sub", "rel"}
        PROVE  toClient' \in Seq(Incoming')
    <3>1. Packet(t, None, pkt.id) \in Incoming'
      BY <1>3, <1>4, <2>2
    <3> QED
      BY <2>2, <3>1, StableWires
  <2> QED
    BY <2>1, <2>2 DEF Broker
<1> QED
  BY <1>1, <1>5, StableWires DEF Broker, pipe_vars, Inv, Wires, Handle

-----------------------------------------------------------------------------
(* The requests.                                                           *)

Requests == Untouched /\ Tracked /\ Waiting /\ Placed /\ Reached
RequestTypes ==
    /\ next_packet_id \in Pid /\ send_queue \in Seq(Req) /\ sent_unack \in [Pid -> Req \union {None}]
    /\ kind \in Kinds /\ pid \in [Req -> 0..pidmax] /\ pidmax \in PidMaxes
    /\ st \in [Req -> {"new", "busy", "done"}] /\ fin \in [Req -> Nat]
    /\ cancel \in [Req -> {"no", "set", "taken"}] /\ prov \in [Req -> 0..pidmax]
    /\ acked \subseteq Req /\ robbed \subseteq Req

\* A step that moves no request.
LEMMA RequestsUntouched ==
    ASSUME Inv, Stable,
           UNCHANGED <<next_packet_id, send_queue, sent_unack, pid, st, fin, prov, acked, robbed>>,
           cancel' \in [Req -> {"no", "set", "taken"}]
    PROVE  Requests' /\ RequestTypes'
<1>1. RequestTypes'
  BY StableIds DEF Inv, TypeOK, RequestTypes, Stable
<1>2. Untouched' /\ Placed'
  BY StableIds DEF Inv, Untouched, Placed
<1>3. Tracked'
  BY StableIds DEF Inv, TypeOK, Tracked
<1>4. Waiting'
  <2>1. \A k \in 1..Len(send_queue) : send_queue[k] \in Req
    BY DEF Inv, TypeOK
  <2> QED
    BY <2>1, StableIds DEF Inv, Waiting
<1>5. Reached'
  BY StableIds DEF Inv, TypeOK, Reached, Stable
<1> QED
  BY <1>1, <1>2, <1>3, <1>4, <1>5 DEF Requests

\* Nothing is said of an acknowledged request that a step can take back.
LEMMA ReachedStable ==
    ASSUME Inv, Stable, acked' = acked
    PROVE  Reached'
<1> SUFFICES ASSUME NEW r \in acked
             PROVE  pid'[r] \in Pid' /\ (r \in got' \/ \E q \in Req \ {r} : pid'[q] = pid'[r])
  BY DEF Reached
<1>1. r \in Req /\ pid[r] \in Pid /\ pid'[r] = pid[r] /\ Pid' = Pid
  BY StableIds DEF Inv, TypeOK, Reached
<1>2. CASE r \in got
  BY <1>1, <1>2 DEF Stable
<1>3. ASSUME NEW q \in Req \ {r}, pid[q] = pid[r]
      PROVE  pid'[q] = pid'[r]
  BY <1>1, <1>3, StableIds
<1> QED
  BY <1>1, <1>2, <1>3 DEF Inv, Reached

\* send_queue without the request r, which is its first or not in it.
Without(r) ==
    /\ send_queue' \in Seq(Req)
    /\ \A k \in 1..Len(send_queue') : \E l \in 1..Len(send_queue) :
          send_queue'[k] = send_queue[l] /\ send_queue[l] # r
    /\ \A k, l \in 1..Len(send_queue') : send_queue'[k] = send_queue'[l] => k = l
    /\ \A l \in 1..Len(send_queue) : send_queue[l] # r =>
          \E k \in 1..Len(send_queue') : send_queue'[k] = send_queue[l]

\* What is known of the contexts that wait.
QueueFacts == \A k \in 1..Len(send_queue) :
    /\ send_queue[k] \in Req /\ st[send_queue[k]] = "busy" /\ prov[send_queue[k]] = 0
    /\ WithId(send_queue[k]) => pid[send_queue[k]] \in Pid
    /\ \A i \in Pid : sent_unack[i] # send_queue[k]

LEMMA QueueHolds == ASSUME Inv PROVE QueueFacts
<1>1. \A k \in 1..Len(send_queue) : send_queue[k] \in Req
  BY DEF Inv, TypeOK
<1> QED
  BY <1>1 DEF Inv, Waiting, QueueFacts

LEMMA SameQueue ==
    ASSUME Inv, NEW r \in Req, send_queue' = send_queue, st[r] # "busy"
    PROVE  Without(r)
BY DEF Without, Inv, Waiting, TypeOK

LEMMA TailQueue ==
    ASSUME Inv, send_queue # <<>>, send_queue' = Tail(send_queue)
    PROVE  Without(Head(send_queue))
<1>1. /\ send_queue \in Seq(Req) /\ Head(send_queue) = send_queue[1] /\ Len(send_queue) \in Nat
      /\ 1 \in 1..Len(send_queue)
  BY DEF Inv, TypeOK
<1>2. /\ send_queue' \in Seq(Req) /\ Len(send_queue') = Len(send_queue) - 1
      /\ \A k \in 1..Len(send_queue') : send_queue'[k] = send_queue[k + 1]
  BY <1>1
<1>3. \A k, l \in 1..Len(send_queue) : send_queue[k] = send_queue[l] => k = l
  BY DEF Inv, Waiting
<1>4. \A k \in 1..Len(send_queue') :
         k + 1 \in 1..Len(send_queue) /\ send_queue'[k] = send_queue[k + 1] /\ send_queue[k + 1] # send_queue[1]
  BY <1>1, <1>2, <1>3
<1>5. ASSUME NEW k \in 1..Len(send_queue'), NEW l \in 1..Len(send_queue'),
             send_queue'[k] = send_queue'[l]
      PROVE  k = l
  <2>1. k + 1 = l + 1
    BY <1>3, <1>4, <1>5
  <2> QED
    BY <2>1
<1>6. ASSUME NEW l \in 1..Len(send_queue), send_queue[l] # send_queue[1]
      PROVE  \E k \in 1..Len(send_queue') : send_queue'[k] = send_queue[l]
  <2>1. l - 1 \in 1..Len(send_queue') /\ (l - 1) + 1 = l
    BY <1>1, <1>2, <1>6
  <2> QED
    BY <1>2, <2>1
<1> QED
  BY <1>1, <1>2, <1>4, <1>5, <1>6 DEF Without

\* mqtt_send_msg with a packet id: r has its place in sent_unack, and the request
\* that had it before is done.
LEMMA SendTrackedMoves ==
    ASSUME Inv, Stable, NEW r \in Req, SendTracked(r), pid' \in [Req -> 0..pidmax],
           pid'[r] \in Pid, \A i \in Pid : sent_unack[i] # r
    PROVE  LET i == pid'[r]
               e == sent_unack[i]
           IN  /\ sent_unack' = [sent_unack EXCEPT ![i] = r]
               /\ sent_unack' \in [Pid -> Req \union {None}]
               /\ st' = [q \in Req |-> IF q = r THEN "busy" ELSE IF q = e THEN "done" ELSE st[q]]
               /\ fin' = [q \in Req |-> IF q = e THEN fin[q] + 1 ELSE fin[q]]
               /\ cancel' \in [Req -> {"no", "set", "taken"}]
               /\ prov' = [prov EXCEPT ![r] = i] /\ prov' \in [Req -> 0..pidmax]
<1> DEFINE i == pid'[r]
           e == sent_unack[i]
<1>1. sent_unack' = [sent_unack EXCEPT ![i] = r] /\ sent_unack' \in [Pid -> Req \union {None}]
  BY DEF SendTracked, Inv, TypeOK
<1>2. prov' = [prov EXCEPT ![r] = i] /\ prov' \in [Req -> 0..pidmax]
  BY DEF SendTracked, Inv, TypeOK
<1>3. Evicted(r) = {e} \ {None} /\ e # r
  BY DEF Evicted
<1>4. \A q \in Req : q \in Evicted(r) <=> q = e
  BY <1>3, ClientAssumption
<1>5. st' = [q \in Req |-> IF q = r THEN "busy" ELSE IF q = e THEN "done" ELSE st[q]]
  BY <1>3, <1>4 DEF SendTracked, Finish, Inv, TypeOK
<1>6. fin' = [q \in Req |-> IF q = e THEN fin[q] + 1 ELSE fin[q]]
  BY <1>4 DEF SendTracked, Finish, Inv, TypeOK
<1>7. cancel' \in [Req -> {"no", "set", "taken"}]
  <2> DEFINE c == [cancel EXCEPT ![r] = "set"]
  <2>1. c \in [Req -> {"no", "set", "taken"}]
    BY DEF Inv, TypeOK
  <2>2. cancel' = [q \in Req |-> IF q \in Evicted(r) /\ c[q] = "set" THEN "no" ELSE c[q]]
    BY DEF SendTracked, Finish
  <2> HIDE DEF c
  <2> QED
    BY <2>1, <2>2
<1> QED
  BY <1>1, <1>2, <1>5, <1>6, <1>7

\* If it is refused, both are done, and nobody has the place.
LEMMA SendRefusedMoves ==
    ASSUME Inv, Stable, NEW r \in Req, SendRefused(r), pid' \in [Req -> 0..pidmax],
           pid'[r] \in Pid, \A i \in Pid : sent_unack[i] # r
    PROVE  LET i == pid'[r]
               e == sent_unack[i]
           IN  /\ sent_unack' = [sent_unack EXCEPT ![i] = None]
               /\ sent_unack' \in [Pid -> Req \union {None}]
               /\ st' = [q \in Req |-> IF q = r \/ q = e THEN "done" ELSE st[q]]
               /\ fin' = [q \in Req |-> IF q = r \/ q = e THEN fin[q] + 1 ELSE fin[q]]
               /\ cancel' \in [Req -> {"no", "set", "taken"}]
               /\ prov' = [prov EXCEPT ![r] = i] /\ prov' \in [Req -> 0..pidmax]
<1> DEFINE i == pid'[r]
           e == sent_unack[i]
<1>1. sent_unack' = [sent_unack EXCEPT ![i] = None] /\ sent_unack' \in [Pid -> Req \union {None}]
  BY DEF SendRefused, Inv, TypeOK
<1>2. prov' = [prov EXCEPT ![r] = i] /\ prov' \in [Req -> 0..pidmax]
  BY DEF SendRefused, Inv, TypeOK
<1>3. \A q \in Req : q \in {r} \union Evicted(r) <=> q = r \/ q = e
  BY ClientAssumption DEF Evicted
<1>4. st' = [q \in Req |-> IF q = r \/ q = e THEN "done" ELSE st[q]]
  BY <1>3 DEF SendRefused, Finish, Inv, TypeOK
<1>5. fin' = [q \in Req |-> IF q = r \/ q = e THEN fin[q] + 1 ELSE fin[q]]
  BY <1>3 DEF SendRefused, Finish, Inv, TypeOK
<1>6. cancel' \in [Req -> {"no", "set", "taken"}]
  BY DEF SendRefused, Finish, Inv, TypeOK
<1> QED
  BY <1>1, <1>2, <1>4, <1>5, <1>6

\* A request that goes to the pipe leaves the queue, or comes from the application.
LEMMA SendMsgRequests ==
    ASSUME Inv, Stable, NEW r \in Req, NEW b, mqtt_send_msg(r, b),
           pid' \in [Req -> 0..pidmax], WithId(r) => pid'[r] \in Pid,
           next_packet_id' \in Pid, st[r] # "done", prov[r] = 0,
           \A i \in Pid : sent_unack[i] # r, Without(r),
           \A q \in Req : q # r => pid'[q] = pid[q],
           robbed' = robbed, acked' = acked
    PROVE  Requests' /\ RequestTypes'
<1> USE DEF WithId
<1>1. Pid' = Pid /\ kind' = kind /\ pidmax' = pidmax
  BY StableIds DEF Stable
<1>2. QueueFacts
  BY QueueHolds
<1>3. Reached'
  BY ReachedStable
<1>4. CASE WithId(r) /\ SendTracked(r)
  <2> DEFINE i == pid'[r]
             e == sent_unack[i]
  <2>1. /\ sent_unack' = [sent_unack EXCEPT ![i] = r]
        /\ sent_unack' \in [Pid -> Req \union {None}]
        /\ st' = [q \in Req |-> IF q = r THEN "busy" ELSE IF q = e THEN "done" ELSE st[q]]
        /\ fin' = [q \in Req |-> IF q = e THEN fin[q] + 1 ELSE fin[q]]
        /\ cancel' \in [Req -> {"no", "set", "taken"}]
        /\ prov' = [prov EXCEPT ![r] = i] /\ prov' \in [Req -> 0..pidmax]
    BY <1>4, SendTrackedMoves
  <2>2. i \in Pid /\ e # r /\ (e \in Req => st[e] = "busy" /\ fin[e] = 0)
    BY <1>4, ClientAssumption DEF Inv, Tracked, Placed
  <2>3. RequestTypes'
    BY <1>1, <2>1, SMTT(60) DEF RequestTypes, Without, Inv, TypeOK
  <2>4. Untouched'
    BY <2>1, <2>2 DEF Untouched, Inv, TypeOK
  <2>5. Tracked'
    BY <1>1, <1>4, <2>1, <2>2 DEF Tracked, Inv, TypeOK
  <2>6. Waiting'
    <3>1. ASSUME NEW k \in 1..Len(send_queue')
          PROVE  /\ st'[send_queue'[k]] = "busy" /\ prov'[send_queue'[k]] = 0
                 /\ \A j \in Pid : sent_unack'[j] # send_queue'[k]
                 /\ WithId(send_queue'[k]) => pid'[send_queue'[k]] \in Pid
      <4>1. PICK l \in 1..Len(send_queue) : send_queue'[k] = send_queue[l] /\ send_queue[l] # r
        BY DEF Without
      <4> DEFINE q == send_queue[l]
      <4>2. /\ q \in Req /\ st[q] = "busy" /\ prov[q] = 0 /\ (WithId(q) => pid[q] \in Pid)
            /\ \A j \in Pid : sent_unack[j] # q
        BY <1>2 DEF QueueFacts
      <4>3. q # e /\ q # r
        BY <2>2, <4>1, <4>2
      <4>4. st'[q] = "busy" /\ prov'[q] = 0 /\ pid'[q] = pid[q]
        BY <2>1, <4>2, <4>3 DEF Inv, TypeOK
      <4>5. \A j \in Pid : sent_unack'[j] # q
        BY <2>1, <4>2, <4>3 DEF Inv, TypeOK
      <4> QED
        BY <4>1, <4>2, <4>4, <4>5
    <3> QED
      BY <1>1, <3>1 DEF Waiting, Without
  <2>7. Placed'
    <3> SUFFICES ASSUME NEW q \in Req
                 PROVE  /\ fin'[q] <= 1 /\ (st'[q] # "done" => fin'[q] = 0)
                        /\ st'[q] = "busy" /\ q \notin robbed =>
                              \/ \E j \in Pid : sent_unack'[j] = q
                              \/ \E k \in 1..Len(send_queue') : send_queue'[k] = q
      BY <1>1 DEF Placed
    <3>1. CASE q = r
      BY <2>1, <2>2, <3>1 DEF Inv, TypeOK, Placed
    <3>2. CASE q = e
      BY <2>1, <2>2, <3>2
    <3>3. CASE q # r /\ q # e
      <4>1. st'[q] = st[q] /\ fin'[q] = fin[q]
        BY <2>1, <3>3
      <4>2. \A j \in Pid : sent_unack[j] = q => sent_unack'[j] = q
        BY <2>1, <3>3 DEF Inv, TypeOK
      <4>3. /\ fin[q] <= 1 /\ (st[q] # "done" => fin[q] = 0)
            /\ st[q] = "busy" /\ q \notin robbed =>
                 \/ \E j \in Pid : sent_unack[j] = q
                 \/ \E k \in 1..Len(send_queue) : send_queue[k] = q
        BY DEF Inv, Placed
      <4>4. ASSUME NEW l \in 1..Len(send_queue), send_queue[l] = q
            PROVE  \E k \in 1..Len(send_queue') : send_queue'[k] = q
        <5>1. PICK k \in 1..Len(send_queue') : send_queue'[k] = send_queue[l]
          BY <3>3, <4>4 DEF Without
        <5> QED
          BY <4>4, <5>1
      <4> QED
        BY <4>1, <4>2, <4>3, <4>4
    <3> QED
      BY <3>1, <3>2, <3>3
  <2> QED
    BY <1>3, <2>3, <2>4, <2>5, <2>6, <2>7 DEF Requests
<1>5. CASE ~WithId(r)
  <2>1. /\ sent_unack' = sent_unack /\ prov' = prov
        /\ st' = [q \in Req |-> IF q = r THEN "done" ELSE st[q]]
        /\ fin' = [q \in Req |-> IF q = r THEN fin[q] + 1 ELSE fin[q]]
        /\ cancel' \in [Req -> {"no", "set", "taken"}]
    BY <1>5 DEF mqtt_send_msg, SendQos0, Finish, Inv, TypeOK
  <2>2. fin[r] = 0
    BY DEF Inv, Placed
  <2>3. RequestTypes'
    BY <1>1, <2>1 DEF RequestTypes, Without, Inv, TypeOK
  <2>4. Untouched'
    BY <2>1 DEF Untouched, Inv, TypeOK
  <2>5. Tracked'
    BY <1>1, <2>1 DEF Tracked, Inv, TypeOK
  <2>6. Waiting'
    <3>1. ASSUME NEW k \in 1..Len(send_queue')
          PROVE  /\ st'[send_queue'[k]] = "busy" /\ prov'[send_queue'[k]] = 0
                 /\ \A j \in Pid : sent_unack'[j] # send_queue'[k]
                 /\ WithId(send_queue'[k]) => pid'[send_queue'[k]] \in Pid
      <4>1. PICK l \in 1..Len(send_queue) : send_queue'[k] = send_queue[l] /\ send_queue[l] # r
        BY DEF Without
      <4> DEFINE q == send_queue[l]
      <4>2. /\ q \in Req /\ st[q] = "busy" /\ prov[q] = 0 /\ (WithId(q) => pid[q] \in Pid)
            /\ \A j \in Pid : sent_unack[j] # q
        BY <1>2 DEF QueueFacts
      <4>3. st'[q] = "busy" /\ pid'[q] = pid[q]
        BY <2>1, <4>1, <4>2
      <4> QED
        BY <2>1, <4>1, <4>2, <4>3
    <3> QED
      BY <1>1, <3>1 DEF Waiting, Without
  <2>7. Placed'
    <3> SUFFICES ASSUME NEW q \in Req
                 PROVE  /\ fin'[q] <= 1 /\ (st'[q] # "done" => fin'[q] = 0)
                        /\ st'[q] = "busy" /\ q \notin robbed =>
                              \/ \E j \in Pid : sent_unack'[j] = q
                              \/ \E k \in 1..Len(send_queue') : send_queue'[k] = q
      BY <1>1 DEF Placed
    <3>1. CASE q = r
      BY <2>1, <2>2, <3>1
    <3>2. CASE q # r
      <4>1. /\ fin[q] <= 1 /\ (st[q] # "done" => fin[q] = 0)
            /\ st[q] = "busy" /\ q \notin robbed =>
                 \/ \E j \in Pid : sent_unack[j] = q
                 \/ \E k \in 1..Len(send_queue) : send_queue[k] = q
        BY DEF Inv, Placed
      <4>2. ASSUME NEW l \in 1..Len(send_queue), send_queue[l] = q
            PROVE  \E k \in 1..Len(send_queue') : send_queue'[k] = q
        <5>1. PICK k \in 1..Len(send_queue') : send_queue'[k] = send_queue[l]
          BY <3>2, <4>2 DEF Without
        <5> QED
          BY <4>2, <5>1
      <4> QED
        BY <2>1, <3>2, <4>1, <4>2
    <3> QED
      BY <3>1, <3>2
  <2> QED
    BY <1>3, <2>3, <2>4, <2>5, <2>6, <2>7 DEF Requests
<1>6. CASE WithId(r) /\ SendRefused(r)
  <2> DEFINE i == pid'[r]
             e == sent_unack[i]
  <2>1. /\ sent_unack' = [sent_unack EXCEPT ![i] = None]
        /\ sent_unack' \in [Pid -> Req \union {None}]
        /\ st' = [q \in Req |-> IF q = r \/ q = e THEN "done" ELSE st[q]]
        /\ fin' = [q \in Req |-> IF q = r \/ q = e THEN fin[q] + 1 ELSE fin[q]]
        /\ cancel' \in [Req -> {"no", "set", "taken"}]
        /\ prov' = [prov EXCEPT ![r] = i] /\ prov' \in [Req -> 0..pidmax]
    BY <1>6, SendRefusedMoves
  <2>2. i \in Pid /\ e # r /\ fin[r] = 0 /\ (e \in Req => st[e] = "busy" /\ fin[e] = 0)
    BY <1>6, ClientAssumption DEF Inv, Tracked, Placed
  <2>3. RequestTypes'
    BY <1>1, <2>1, SMTT(60) DEF RequestTypes, Without, Inv, TypeOK
  <2>4. Untouched'
    BY <2>1, <2>2 DEF Untouched, Inv, TypeOK
  <2>5. Tracked'
    BY <1>1, <1>6, <2>1, <2>2 DEF Tracked, Inv, TypeOK
  <2>6. Waiting'
    <3>1. ASSUME NEW k \in 1..Len(send_queue')
          PROVE  /\ st'[send_queue'[k]] = "busy" /\ prov'[send_queue'[k]] = 0
                 /\ \A j \in Pid : sent_unack'[j] # send_queue'[k]
                 /\ WithId(send_queue'[k]) => pid'[send_queue'[k]] \in Pid
      <4>1. PICK l \in 1..Len(send_queue) : send_queue'[k] = send_queue[l] /\ send_queue[l] # r
        BY DEF Without
      <4> DEFINE q == send_queue[l]
      <4>2. /\ q \in Req /\ st[q] = "busy" /\ prov[q] = 0 /\ (WithId(q) => pid[q] \in Pid)
            /\ \A j \in Pid : sent_unack[j] # q
        BY <1>2 DEF QueueFacts
      <4>3. q # e /\ q # r
        BY <2>2, <4>1, <4>2
      <4>4. st'[q] = "busy" /\ prov'[q] = 0 /\ pid'[q] = pid[q]
        BY <2>1, <4>2, <4>3 DEF Inv, TypeOK
      <4>5. \A j \in Pid : sent_unack'[j] # q
        BY ClientAssumption, <2>1, <4>2, <4>3 DEF Inv, TypeOK
      <4> QED
        BY <4>1, <4>2, <4>4, <4>5
    <3> QED
      BY <1>1, <3>1 DEF Waiting, Without
  <2>7. Placed'
    <3> SUFFICES ASSUME NEW q \in Req
                 PROVE  /\ fin'[q] <= 1 /\ (st'[q] # "done" => fin'[q] = 0)
                        /\ st'[q] = "busy" /\ q \notin robbed =>
                              \/ \E j \in Pid : sent_unack'[j] = q
                              \/ \E k \in 1..Len(send_queue') : send_queue'[k] = q
      BY <1>1 DEF Placed
    <3>1. CASE q = r
      BY <2>1, <2>2, <3>1 DEF Inv, TypeOK, Placed
    <3>2. CASE q = e
      BY <2>1, <2>2, <3>2
    <3>3. CASE q # r /\ q # e
      <4>1. st'[q] = st[q] /\ fin'[q] = fin[q]
        BY <2>1, <3>3
      <4>2. \A j \in Pid : sent_unack[j] = q => sent_unack'[j] = q
        BY <2>1, <3>3 DEF Inv, TypeOK
      <4>3. /\ fin[q] <= 1 /\ (st[q] # "done" => fin[q] = 0)
            /\ st[q] = "busy" /\ q \notin robbed =>
                 \/ \E j \in Pid : sent_unack[j] = q
                 \/ \E k \in 1..Len(send_queue) : send_queue[k] = q
        BY DEF Inv, Placed
      <4>4. ASSUME NEW l \in 1..Len(send_queue), send_queue[l] = q
            PROVE  \E k \in 1..Len(send_queue') : send_queue'[k] = q
        <5>1. PICK k \in 1..Len(send_queue') : send_queue'[k] = send_queue[l]
          BY <3>3, <4>4 DEF Without
        <5> QED
          BY <4>4, <5>1
      <4> QED
        BY <4>1, <4>2, <4>3, <4>4
    <3> QED
      BY <3>1, <3>2, <3>3
  <2> QED
    BY <1>3, <2>3, <2>4, <2>5, <2>6, <2>7 DEF Requests
<1> QED
  BY <1>4, <1>5, <1>6 DEF mqtt_send_msg

LEMMA CtxSendRequests ==
    ASSUME Inv, Stable, NEW r \in Req, mqtt_ctx_send(r)
    PROVE  Requests' /\ RequestTypes'
<1>1. /\ pid' \in [Req -> 0..pidmax] /\ (WithId(r) => pid'[r] \in Pid) /\ next_packet_id' \in Pid
      /\ (\A q \in Req : q # r => pid'[q] = pid[q])
  BY SendCalls DEF mqtt_ctx_send, Inv, TypeOK
<1>2. st[r] = "new" /\ prov[r] = 0 /\ robbed' = robbed /\ acked' = acked
  BY DEF mqtt_ctx_send, hist_vars, Inv, Untouched
<1>3. /\ \A i \in Pid : sent_unack[i] # r
      /\ \A k \in 1..Len(send_queue) : send_queue[k] # r
  <2>1. None # r
    BY ClientAssumption
  <2> QED
    BY <1>2, <2>1 DEF Inv, Tracked, Waiting
<1>4. CASE pipe = "up"
  BY <1>1, <1>2, <1>3, <1>4, SameQueue, SendMsgRequests DEF mqtt_ctx_send
<1>5. CASE pipe # "up"
  <2>1. /\ st' = [st EXCEPT ![r] = "busy"] /\ send_queue' = Append(send_queue, r)
        /\ UNCHANGED <<sent_unack, fin, cancel, prov>>
    BY <1>5 DEF mqtt_ctx_send
  <2>2. Pid' = Pid /\ kind' = kind /\ pidmax' = pidmax
    BY StableIds DEF Stable
  <2>3. /\ send_queue' \in Seq(Req) /\ Len(send_queue') = Len(send_queue) + 1 /\ Len(send_queue) \in Nat
        /\ \A k \in 1..Len(send_queue) : send_queue'[k] = send_queue[k] /\ send_queue[k] \in Req
        /\ send_queue'[Len(send_queue')] = r
    BY <2>1 DEF Inv, TypeOK
  <2>4. RequestTypes'
    BY <1>1, <1>2, <2>1, <2>2, <2>3 DEF RequestTypes, Inv, TypeOK
  <2>5. Untouched' /\ Tracked'
    BY <1>1, <1>2, <1>3, <2>1, <2>2 DEF Untouched, Tracked, WithId, Inv, TypeOK
  <2>6. Waiting'
    <3>1. ASSUME NEW k \in 1..Len(send_queue')
          PROVE  /\ st'[send_queue'[k]] = "busy" /\ prov'[send_queue'[k]] = 0
                 /\ \A j \in Pid : sent_unack'[j] # send_queue'[k]
                 /\ WithId(send_queue'[k]) => pid'[send_queue'[k]] \in Pid
      <4>1. CASE k \in 1..Len(send_queue)
        <5> DEFINE q == send_queue[k]
        <5>1. /\ q \in Req /\ st[q] = "busy" /\ prov[q] = 0 /\ (WithId(q) => pid[q] \in Pid)
              /\ \A j \in Pid : sent_unack[j] # q
          BY <4>1, QueueHolds DEF QueueFacts
        <5>2. st'[q] = "busy" /\ pid'[q] = pid[q]
          BY <1>1, <1>3, <2>1, <4>1, <5>1 DEF Inv, TypeOK
        <5> QED
          BY <2>1, <2>3, <4>1, <5>1, <5>2
      <4>2. CASE k = Len(send_queue')
        BY <1>1, <1>2, <1>3, <2>1, <2>3, <4>2 DEF Inv, TypeOK
      <4> QED
        BY <2>3, <4>1, <4>2
    <3>2. \A k, l \in 1..Len(send_queue') : send_queue'[k] = send_queue'[l] => k = l
      BY <1>3, <2>3 DEF Inv, Waiting
    <3> QED
      BY <2>2, <3>1, <3>2 DEF Waiting, WithId
  <2>7. Placed'
    <3> SUFFICES ASSUME NEW q \in Req
                 PROVE  /\ fin'[q] <= 1 /\ (st'[q] # "done" => fin'[q] = 0)
                        /\ st'[q] = "busy" /\ q \notin robbed =>
                              \/ \E j \in Pid : sent_unack'[j] = q
                              \/ \E k \in 1..Len(send_queue') : send_queue'[k] = q
      BY <1>2, <2>2 DEF Placed
    <3>1. CASE q = r
      BY <1>2, <2>1, <2>3, <3>1 DEF Inv, TypeOK, Placed
    <3>2. CASE q # r
      <4>1. /\ fin[q] <= 1 /\ (st[q] # "done" => fin[q] = 0)
            /\ st[q] = "busy" /\ q \notin robbed =>
                 \/ \E j \in Pid : sent_unack[j] = q
                 \/ \E k \in 1..Len(send_queue) : send_queue[k] = q
        BY DEF Inv, Placed
      <4>2. st'[q] = st[q]
        BY <2>1, <3>2 DEF Inv, TypeOK
      <4>3. \A l \in 1..Len(send_queue) : l \in 1..Len(send_queue') /\ send_queue'[l] = send_queue[l]
        BY <2>3
      <4> QED
        BY <2>1, <4>1, <4>2, <4>3
    <3> QED
      BY <3>1, <3>2
  <2> QED
    BY <1>2, <2>4, <2>5, <2>6, <2>7, ReachedStable DEF Requests
<1> QED
  BY <1>4, <1>5

\* An entry of sent_unack is taken out: its request is done, or it is robbed.
LEMMA UntrackRequests ==
    ASSUME Inv, Stable, NEW i \in Pid, NEW t \in Req, sent_unack[i] = t,
           sent_unack' = [sent_unack EXCEPT ![i] = None], prov' = [prov EXCEPT ![t] = 0],
           UNCHANGED <<next_packet_id, send_queue, pid>>,
           cancel' \in [Req -> {"no", "set", "taken"}], acked' \subseteq Req,
           \/ /\ st' = [q \in Req |-> IF q = t THEN "done" ELSE st[q]]
              /\ fin' = [q \in Req |-> IF q = t THEN fin[q] + 1 ELSE fin[q]]
              /\ robbed' = robbed
           \/ st' = st /\ fin' = fin /\ robbed' = robbed \union {t}
    PROVE  Untouched' /\ Tracked' /\ Waiting' /\ Placed' /\ RequestTypes'
<1> USE DEF WithId
<1>1. Pid' = Pid /\ kind' = kind /\ pidmax' = pidmax
  BY StableIds DEF Stable
<1>2. st[t] = "busy" /\ fin[t] = 0 /\ pid[t] = i /\ t # None
  BY ClientAssumption DEF Inv, Tracked, Placed
<1>3. /\ st' \in [Req -> {"new", "busy", "done"}] /\ fin' \in [Req -> Nat]
      /\ \A q \in Req : q # t => st'[q] = st[q] /\ fin'[q] = fin[q] /\ prov'[q] = prov[q]
      /\ fin'[t] <= 1 /\ st'[t] # "new" /\ (st'[t] # "done" => fin'[t] = 0 /\ t \in robbed')
      /\ robbed \subseteq robbed' /\ robbed' \subseteq Req
  <2>1. st' \in [Req -> {"new", "busy", "done"}] /\ fin' \in [Req -> Nat]
    <3>1. st \in [Req -> {"new", "busy", "done"}] /\ fin \in [Req -> Nat]
      BY DEF Inv, TypeOK
    <3> QED
      BY <3>1
  <2>2. ASSUME NEW q \in Req, q # t
        PROVE  st'[q] = st[q] /\ fin'[q] = fin[q] /\ prov'[q] = prov[q]
    BY <2>2 DEF Inv, TypeOK
  <2>3. fin'[t] <= 1 /\ st'[t] # "new" /\ (st'[t] # "done" => fin'[t] = 0 /\ t \in robbed')
    BY <1>2
  <2>4. robbed \subseteq robbed' /\ robbed' \subseteq Req
    BY DEF Inv, TypeOK
  <2> QED
    BY <2>1, <2>2, <2>3, <2>4
<1>4. /\ sent_unack' \in [Pid -> Req \union {None}] /\ sent_unack'[i] = None
      /\ \A j \in Pid : j # i => sent_unack'[j] = sent_unack[j] /\ sent_unack[j] # t
  BY <1>2 DEF Inv, TypeOK, Tracked
<1>5. RequestTypes'
  <2>1. 0 \in 0..pidmax
    BY ClientAssumption DEF Inv, TypeOK
  <2>2. prov' \in [Req -> 0..pidmax]
    BY <2>1 DEF Inv, TypeOK
  <2> QED
    BY <1>1, <1>3, <1>4, <2>2 DEF RequestTypes, Inv, TypeOK
<1>6. Untouched'
  BY <1>3 DEF Untouched, Inv
<1>7. Tracked'
  <2> SUFFICES ASSUME NEW j \in Pid, sent_unack'[j] # None
               PROVE  LET q == sent_unack'[j]
                      IN  st'[q] = "busy" /\ pid'[q] = j /\ prov'[q] = j /\ WithId(q)
    BY <1>1 DEF Tracked
  <2>1. j # i /\ sent_unack'[j] = sent_unack[j] /\ sent_unack[j] # t /\ sent_unack[j] \in Req
    BY <1>4 DEF Inv, TypeOK
  <2> QED
    BY <1>3, <2>1 DEF Inv, Tracked
<1>8. Waiting'
  <2>1. ASSUME NEW k \in 1..Len(send_queue)
        PROVE  LET q == send_queue[k]
               IN  /\ st'[q] = "busy" /\ prov'[q] = 0 /\ (WithId(q) => pid'[q] \in Pid)
                   /\ \A j \in Pid : sent_unack'[j] # q
    <3> DEFINE q == send_queue[k]
    <3>1. /\ q \in Req /\ st[q] = "busy" /\ prov[q] = 0 /\ (WithId(q) => pid[q] \in Pid)
          /\ \A j \in Pid : sent_unack[j] # q
      BY QueueHolds DEF QueueFacts
    <3>2. q # t /\ q # None
      BY <3>1, ClientAssumption
    <3>3. \A j \in Pid : sent_unack'[j] # q
      BY <1>4, <3>1, <3>2
    <3> QED
      BY <1>3, <3>1, <3>2, <3>3
  <2>2. \A k, l \in 1..Len(send_queue) : send_queue[k] = send_queue[l] => k = l
    BY DEF Inv, Waiting
  <2> QED
    BY <1>1, <2>1, <2>2 DEF Waiting
<1>9. Placed'
  <2> SUFFICES ASSUME NEW q \in Req
               PROVE  /\ fin'[q] <= 1 /\ (st'[q] # "done" => fin'[q] = 0)
                      /\ st'[q] = "busy" /\ q \notin robbed' =>
                            \/ \E j \in Pid : sent_unack'[j] = q
                            \/ \E k \in 1..Len(send_queue) : send_queue[k] = q
    BY <1>1 DEF Placed
  <2>1. CASE q = t
    BY <1>3, <2>1
  <2>2. CASE q # t
    <3>1. /\ fin[q] <= 1 /\ (st[q] # "done" => fin[q] = 0)
          /\ st[q] = "busy" /\ q \notin robbed =>
               \/ \E j \in Pid : sent_unack[j] = q
               \/ \E k \in 1..Len(send_queue) : send_queue[k] = q
      BY DEF Inv, Placed
    <3>2. \A j \in Pid : sent_unack[j] = q => sent_unack'[j] = q
      BY <1>4, <2>2
    <3> QED
      BY <1>3, <2>2, <3>1, <3>2
  <2> QED
    BY <2>1, <2>2
<1> QED
  BY <1>5, <1>6, <1>7, <1>8, <1>9

LEMMA FinishTypes ==
    ASSUME Inv, NEW S, NEW c \in [Req -> {"no", "set", "taken"}], Finish(S, st, c)
    PROVE  /\ cancel' \in [Req -> {"no", "set", "taken"}]
           /\ S = {} => st' = st /\ fin' = fin
           /\ \A t : S = {t} =>
                /\ st' = [q \in Req |-> IF q = t THEN "done" ELSE st[q]]
                /\ fin' = [q \in Req |-> IF q = t THEN fin[q] + 1 ELSE fin[q]]
BY DEF Finish, Inv, TypeOK

LEMMA CancelRequests ==
    ASSUME Inv, Stable, NEW r \in Req, mqtt_ctx_cancel_send(r)
    PROVE  Requests' /\ RequestTypes'
<1> DEFINE i == prov[r]
           taio == IF i = 0 THEN None ELSE sent_unack[i]
           routine == [cancel EXCEPT ![r] = "no"]
           S == IF taio = r THEN {r} ELSE {}
<1>1. /\ sent_unack' = IF taio = None THEN sent_unack ELSE [sent_unack EXCEPT ![i] = None]
      /\ prov' = IF taio = None THEN prov ELSE [prov EXCEPT ![taio] = 0]
      /\ Finish(S, st, routine)
      /\ robbed' = robbed \union ({taio} \ {None, r})
      /\ UNCHANGED <<next_packet_id, send_queue, kind, pid, pidmax, acked>>
  BY DEF mqtt_ctx_cancel_send
<1>2. routine \in [Req -> {"no", "set", "taken"}]
  BY DEF Inv, TypeOK
<1>3. /\ cancel' \in [Req -> {"no", "set", "taken"}]
      /\ S = {} => st' = st /\ fin' = fin
      /\ S = {r} => /\ st' = [q \in Req |-> IF q = r THEN "done" ELSE st[q]]
                    /\ fin' = [q \in Req |-> IF q = r THEN fin[q] + 1 ELSE fin[q]]
  <2> HIDE DEF S, routine
  <2> QED
    BY <1>1, <1>2, FinishTypes
<1>4. CASE taio = None
  <2>1. S = {} /\ robbed' = robbed
    BY <1>1, <1>4, ClientAssumption
  <2> QED
    BY <1>1, <1>3, <1>4, <2>1, RequestsUntouched
<1>5. CASE taio # None
  <2>1. i \in Pid /\ taio = sent_unack[i] /\ taio \in Req
    BY <1>5, ClientAssumption DEF Inv, TypeOK, Pid
  <2>2. \/ /\ st' = [q \in Req |-> IF q = taio THEN "done" ELSE st[q]]
           /\ fin' = [q \in Req |-> IF q = taio THEN fin[q] + 1 ELSE fin[q]]
           /\ robbed' = robbed
        \/ st' = st /\ fin' = fin /\ robbed' = robbed \union {taio}
    <3>1. CASE taio = r
      BY <1>1, <1>3, <3>1
    <3>2. CASE taio # r
      BY <1>1, <1>3, <1>5, <3>2
    <3> QED
      BY <3>1, <3>2
  <2>3. acked' = acked /\ acked' \subseteq Req
    BY <1>1 DEF Inv, TypeOK
  <2>4. Untouched' /\ Tracked' /\ Waiting' /\ Placed' /\ RequestTypes'
    <3> HIDE DEF taio, i, S, routine
    <3> QED
      BY <1>1, <1>3, <1>5, <2>1, <2>2, <2>3, UntrackRequests
  <2> QED
    BY <2>3, <2>4, ReachedStable DEF Requests
<1> QED
  BY <1>4, <1>5

LEMMA AckRequests ==
    ASSUME Inv, Stable, mqtt_recv_cb
    PROVE  Requests' /\ RequestTypes'
<1> DEFINE pkt == Head(toClient)
           i == pkt.id
           r == sent_unack[i]
<1>1. pkt \in Incoming /\ i \in Pid /\ Arrived(i) /\ r \in Req \union {None}
  BY DEF mqtt_recv_cb, Inv, Wires, Incoming, TypeOK
<1>2. UNCHANGED <<next_packet_id, send_queue, pid, kind, pidmax, robbed, got>>
  BY DEF mqtt_recv_cb
<1>3. cancel \in [Req -> {"no", "set", "taken"}]
  BY DEF Inv, TypeOK
<1>4. CASE UNCHANGED <<sent_unack, st, fin, cancel, prov, acked>>
  BY <1>2, <1>3, <1>4, RequestsUntouched
<1>5. CASE /\ r # None /\ sent_unack' = [sent_unack EXCEPT ![i] = None]
           /\ prov' = [prov EXCEPT ![r] = 0]
           /\ Finish({r}, st, cancel) /\ acked' = acked \union {r}
  <2>1. /\ cancel' \in [Req -> {"no", "set", "taken"}]
        /\ st' = [q \in Req |-> IF q = r THEN "done" ELSE st[q]]
        /\ fin' = [q \in Req |-> IF q = r THEN fin[q] + 1 ELSE fin[q]]
    BY <1>3, <1>5, FinishTypes
  <2>2. r \in Req /\ acked' \subseteq Req
    BY <1>1, <1>5 DEF Inv, TypeOK
  <2>3. Untouched' /\ Tracked' /\ Waiting' /\ Placed' /\ RequestTypes'
    <3> HIDE DEF r, i
    <3>1. r = sent_unack[i]
      BY DEF r
    <3> QED
      BY <1>1, <1>2, <1>5, <2>1, <2>2, <3>1, UntrackRequests
  <2>4. pid[r] = i
    BY <1>1, <1>5 DEF Inv, Tracked
  <2>5. PICK q \in got : pid[q] = i
    BY <1>1 DEF Arrived
  <2>6. Reached'
    BY <1>1, <1>2, <1>5, <2>2, <2>4, <2>5 DEF Reached, Inv, TypeOK, Pid
  <2> QED
    BY <2>3, <2>6 DEF Requests
<1> QED
  BY <1>4, <1>5 DEF mqtt_recv_cb, RecvPubrec, RecvAck, Acked, aio_vars

\* The first context that waits goes to the pipe, or ends with the closed pipe.
LEMMA ServeRequests ==
    ASSUME Inv, Stable, mqtt_pipe_start \/ mqtt_send_cb
    PROVE  Requests' /\ RequestTypes'
<1>1. UNCHANGED <<next_packet_id, pid, kind, pidmax, acked, robbed>>
  BY DEF mqtt_pipe_start, mqtt_send_cb, hist_vars
<1>2. pid' \in [Req -> 0..pidmax] /\ next_packet_id' \in Pid
      /\ cancel \in [Req -> {"no", "set", "taken"}]
  BY <1>1 DEF Inv, TypeOK
<1>3. CASE UNCHANGED <<send_queue, sent_unack, st, fin, cancel, prov>>
  BY <1>1, <1>2, <1>3, RequestsUntouched
<1>4. CASE send_queue # <<>> /\ send_queue' = Tail(send_queue)
           /\ mqtt_send_msg(Head(send_queue), FALSE)
  BY <1>1, <1>2, <1>4, HeadWaits, TailQueue, SendMsgRequests
<1>5. CASE /\ send_queue # <<>> /\ send_queue' = Tail(send_queue)
           /\ Finish({Head(send_queue)}, st, cancel) /\ UNCHANGED <<sent_unack, prov>>
  <2> DEFINE r == Head(send_queue)
  <2>1. /\ cancel' \in [Req -> {"no", "set", "taken"}]
        /\ st' = [q \in Req |-> IF q = r THEN "done" ELSE st[q]]
        /\ fin' = [q \in Req |-> IF q = r THEN fin[q] + 1 ELSE fin[q]]
    <3>1. Finish({r}, st, cancel)
      BY <1>5
    <3> HIDE DEF r
    <3> QED
      BY <1>2, <3>1 DEF Finish, Inv, TypeOK
  <2>2. r \in Req /\ st[r] = "busy" /\ \A i \in Pid : sent_unack[i] # r
    BY <1>5, HeadWaits
  <2>3. fin[r] = 0
    BY <2>2 DEF Inv, Placed
  <2>4. Without(r)
    BY <1>5, TailQueue
  <2>5. Pid' = Pid
    BY StableIds
  <2> HIDE DEF r
  <2>6. RequestTypes'
    <3>1. st' \in [Req -> {"new", "busy", "done"}] /\ fin' \in [Req -> Nat]
      BY <2>1, <2>2 DEF Inv, TypeOK
    <3>2. send_queue' \in Seq(Req)
      BY <2>4 DEF Without
    <3>3. UNCHANGED <<sent_unack, prov>>
      BY <1>5
    <3> QED
      BY <1>1, <1>2, <2>1, <2>5, <3>1, <3>2, <3>3 DEF RequestTypes, Inv, TypeOK
  <2>7. Untouched' /\ Tracked'
    BY <1>1, <1>5, <2>1, <2>2, <2>5, SMTT(60) DEF Untouched, Tracked, WithId, Inv, TypeOK
  <2>8. Waiting'
    <3>1. ASSUME NEW k \in 1..Len(send_queue')
          PROVE  /\ st'[send_queue'[k]] = "busy" /\ prov[send_queue'[k]] = 0
                 /\ \A j \in Pid : sent_unack[j] # send_queue'[k]
                 /\ WithId(send_queue'[k]) => pid[send_queue'[k]] \in Pid
      <4>1. PICK l \in 1..Len(send_queue) : send_queue'[k] = send_queue[l] /\ send_queue[l] # r
        BY <2>4 DEF Without
      <4> QED
        BY <2>1, <4>1, QueueHolds DEF QueueFacts
    <3> QED
      BY <1>1, <1>5, <2>4, <2>5, <3>1 DEF Waiting, Without, WithId
  <2>9. Placed'
    <3> SUFFICES ASSUME NEW q \in Req
                 PROVE  /\ fin'[q] <= 1 /\ (st'[q] # "done" => fin'[q] = 0)
                        /\ st'[q] = "busy" /\ q \notin robbed =>
                              \/ \E j \in Pid : sent_unack[j] = q
                              \/ \E k \in 1..Len(send_queue') : send_queue'[k] = q
      BY <1>1, <1>5, <2>5 DEF Placed
    <3>1. CASE q = r
      BY <2>1, <2>3, <3>1
    <3>2. CASE q # r
      <4>1. /\ fin[q] <= 1 /\ (st[q] # "done" => fin[q] = 0)
            /\ st[q] = "busy" /\ q \notin robbed =>
                 \/ \E j \in Pid : sent_unack[j] = q
                 \/ \E k \in 1..Len(send_queue) : send_queue[k] = q
        BY DEF Inv, Placed
      <4>2. ASSUME NEW l \in 1..Len(send_queue), send_queue[l] = q
            PROVE  \E k \in 1..Len(send_queue') : send_queue'[k] = q
        <5>1. PICK k \in 1..Len(send_queue') : send_queue'[k] = send_queue[l]
          BY <2>4, <3>2, <4>2 DEF Without
        <5> QED
          BY <4>2, <5>1
      <4> QED
        BY <2>1, <3>2, <4>1, <4>2
    <3> QED
      BY <3>1, <3>2
  <2> QED
    BY <1>1, <2>6, <2>7, <2>8, <2>9, ReachedStable DEF Requests
<1> QED
  BY <1>3, <1>4, <1>5 DEF mqtt_pipe_start, mqtt_send_cb, aio_vars

-----------------------------------------------------------------------------
(* The invariant.                                                          *)

LEMMA InitInv == Init => Inv
<1> SUFFICES ASSUME Init PROVE Inv
  OBVIOUS
<1>1. pidmax \in Nat \ {0} /\ Pid = 1..pidmax /\ kind \in [Req -> KindSet]
  BY ClientAssumption DEF Init, Pid
<1>2. TypeOK
  <2>1. /\ next_packet_id \in Pid /\ 0 \in 0..pidmax /\ 0 \in 0..MaxConns
        /\ \A S : <<>> \in Seq(S) /\ Len(<<>>) <= SendLmq
    BY <1>1, ClientAssumption DEF Init
  <2>2. /\ sent_unack \in [Pid -> Req \union {None}] /\ pid \in [Req -> 0..pidmax]
        /\ st \in [Req -> {"new", "busy", "done"}] /\ fin \in [Req -> Nat]
        /\ cancel \in [Req -> {"no", "set", "taken"}] /\ prov \in [Req -> 0..pidmax]
    BY <2>1 DEF Init
  <2> QED
    BY <2>1, <2>2 DEF Init, TypeOK
<1>3. Wires /\ Handle
  BY ClientAssumption DEF Init, Wires, Handle
<1>4. Untouched /\ Tracked /\ Waiting /\ Placed /\ Reached
  BY DEF Init, Untouched, Tracked, Waiting, Placed, Reached
<1> QED
  BY <1>2, <1>3, <1>4 DEF Inv

\* The connection and its counters.
NetTypes ==
    /\ pipe \in {"none", "up", "closed"} /\ busy \in BOOLEAN /\ scb \in BOOLEAN
    /\ conn \in BOOLEAN /\ conns \in 0..MaxConns /\ got \subseteq Req

LEMMA NextNetTypes ==
    ASSUME Inv, [Next]_vars
    PROVE  NetTypes'
<1> USE DEF sock_vars, pipe_vars, aio_vars, net_vars, hist_vars, NetTypes
<1>1. NetTypes
  BY DEF Inv, TypeOK
<1>2. ASSUME NEW r \in Req, mqtt_ctx_send(r)
      PROVE  NetTypes'
  BY <1>1, <1>2 DEF mqtt_ctx_send, mqtt_send_msg, SendPipe
<1>3. ASSUME NEW r \in Req, TakeCancel(r) \/ mqtt_ctx_cancel_send(r)
      PROVE  NetTypes'
  BY <1>1, <1>3 DEF TakeCancel, mqtt_ctx_cancel_send
<1>4. CASE mqtt_pipe_start
  <2>1. conns' \in 0..MaxConns
    BY <1>1, <1>4, ClientAssumption DEF mqtt_pipe_start
  <2> QED
    BY <1>1, <1>4, <2>1 DEF mqtt_pipe_start, mqtt_send_msg, SendPipe
<1>5. CASE Break \/ CloseLost \/ PipeDestroy \/ SendError
  BY <1>1, <1>5 DEF Break, CloseLost, mqtt_pipe_close, PipeDestroy, SendError
<1>6. CASE SendDone \/ mqtt_send_cb
  BY <1>1, <1>6 DEF SendDone, mqtt_send_cb, mqtt_send_msg, SendPipe, NotBusy
<1>7. CASE TimerPing \/ (\E i \in Pid : TimerResend(i))
  <2>1. CASE TimerPing
    BY <1>1, <2>1 DEF TimerPing
  <2>2. ASSUME NEW i \in Pid, TimerResend(i)
        PROVE  NetTypes'
    BY <1>1, <2>2 DEF TimerResend, SendOrQueue
  <2> QED
    BY <1>7, <2>1, <2>2
<1>8. CASE mqtt_recv_cb
  BY <1>1, <1>8 DEF mqtt_recv_cb, RecvPubrec, RecvAck, SendOrQueue
<1>9. CASE Broker
  <2>1. Head(toBroker).r \in Req \union {None}
    <3>1. Head(toBroker) \in Packets
      BY <1>9 DEF Broker, Inv, TypeOK
    <3> QED
      BY <3>1 DEF Packets
  <2> QED
    BY <1>1, <1>9, <2>1 DEF Broker
<1>10. CASE UNCHANGED vars
  BY <1>1, <1>10 DEF vars
<1> QED
  BY <1>2, <1>3, <1>4, <1>5, <1>6, <1>7, <1>8, <1>9, <1>10 DEF Next

LEMMA StepInv == Inv /\ [Next]_vars => Inv'
<1> SUFFICES ASSUME Inv, [Next]_vars PROVE Inv'
  OBVIOUS
<1> USE NextStable
<1>1. SUFFICES Wires' /\ Handle' /\ Requests' /\ RequestTypes'
  <2>1. send_messages' \in Seq(Packets') /\ toBroker' \in Seq(Packets') /\ toClient' \in Seq(Packets')
    <3>1. Outgoing' \subseteq Packets' /\ Incoming' \subseteq Packets'
      BY DEF Outgoing, Incoming
    <3> QED
      BY <1>1, <3>1, SeqOfMore DEF Wires
  <2>2. TypeOK'
    BY <1>1, <2>1, NextNetTypes DEF TypeOK, Wires, RequestTypes, NetTypes
  <2> QED
    BY <1>1, <2>2 DEF Inv, Requests
<1> DEFINE Goal == Wires' /\ Handle' /\ Requests' /\ RequestTypes'
<1>2. ASSUME NEW r \in Req, mqtt_ctx_send(r)
      PROVE  Goal
  BY <1>2, CtxSendPipe, CtxSendRequests
<1>3. ASSUME NEW r \in Req, TakeCancel(r) \/ mqtt_ctx_cancel_send(r)
      PROVE  Goal
  <2>1. Wires' /\ Handle'
    BY <1>3, StableWires
       DEF TakeCancel, mqtt_ctx_cancel_send, pipe_vars, net_vars, Inv, Wires, Handle
  <2>2. CASE TakeCancel(r)
    BY <2>1, <2>2, RequestsUntouched
       DEF TakeCancel, sock_vars, hist_vars, Inv, TypeOK
  <2>3. CASE mqtt_ctx_cancel_send(r)
    BY <2>1, <2>3, CancelRequests
  <2> QED
    BY <1>3, <2>2, <2>3
<1>4. CASE mqtt_pipe_start
  BY <1>4, StartPipe, ServeRequests
<1>5. CASE mqtt_send_cb
  BY <1>5, SentPipe, ServeRequests
<1>6. CASE mqtt_recv_cb
  BY <1>6, RecvPipe, AckRequests
<1>7. CASE Break \/ CloseLost \/ PipeDestroy \/ SendError \/ SendDone \/ TimerPing
           \/ (\E i \in Pid : TimerResend(i)) \/ Broker
  <2>1. Wires' /\ Handle'
    BY <1>7, LostPipe, SentPipe, TimerPipe, BrokerPipe
  <2>2. /\ UNCHANGED <<next_packet_id, send_queue, sent_unack, pid, st, fin, prov, acked, robbed>>
        /\ cancel' = cancel
    BY <1>7 DEF Break, CloseLost, PipeDestroy, SendError, SendDone, TimerPing, TimerResend, Broker,
                sock_vars, aio_vars, hist_vars
  <2> QED
    BY <2>1, <2>2, RequestsUntouched DEF Inv, TypeOK
<1>8. CASE UNCHANGED vars
  <2>1. Wires' /\ Handle'
    BY <1>8, StableWires DEF vars, pipe_vars, net_vars, Inv, Wires, Handle
  <2> QED
    BY <1>8, <2>1, RequestsUntouched DEF vars, sock_vars, aio_vars, hist_vars, Inv, TypeOK
<1> QED
  BY <1>2, <1>3, <1>4, <1>5, <1>6, <1>7, <1>8 DEF Next

LEMMA Invariance == Spec => []Inv
BY InitInv, StepInv, PTL DEF Spec

\* The client's variables keep their types; in particular packet ids stay in
\* 1..pidmax although they come round, and send_messages never exceeds its ring.
THEOREM TypeCorrect == Spec => []TypeOK
<1>1. Inv => TypeOK
  BY DEF Inv
<1> QED
  BY <1>1, Invariance, PTL

\* The context, the send callback, the timer and the answers never start the
\* one send_aio of the pipe twice, and leave it busy only while it works.
THEOREM OneSendHolds == Spec => []OneSend
<1>1. Inv => OneSend
  BY DEF Inv, Handle, OneSend
<1> QED
  BY <1>1, Invariance, PTL

\* However acknowledgement, cancellation, replacement and lost connections race,
\* a request is completed at most once and is in one place until then.
THEOREM OneCompletionHolds == Spec => []OneCompletion
<1>1. Inv => OneCompletion
  <2> SUFFICES ASSUME Inv, NEW r \in Req
               PROVE  /\ fin[r] <= 1
                      /\ st[r] = "busy" /\ r \notin robbed =>
                           Cardinality({i \in Pid : sent_unack[i] = r})
                           + Cardinality({k \in 1..Len(send_queue) : send_queue[k] = r}) = 1
                      /\ st[r] = "done" => \A i \in Pid : sent_unack[i] # r
    BY DEF OneCompletion
  <2> DEFINE U == {i \in Pid : sent_unack[i] = r}
             W == {k \in 1..Len(send_queue) : send_queue[k] = r}
  <2>1. r # None
    BY ClientAssumption
  <2>2. \A i \in U : U = {i}
    BY <2>1 DEF Inv, Tracked
  <2>3. \A k \in W : W = {k}
    BY DEF Inv, Waiting
  <2>4. U # {} => W = {}
    BY DEF Inv, Waiting
  <2>5. \A S, x : S = {x} => Cardinality(S) = 1
    BY FS_Singleton
  <2>6. st[r] = "busy" /\ r \notin robbed => U # {} \/ W # {}
    BY DEF Inv, Placed
  <2>7. st[r] = "done" => \A i \in Pid : sent_unack[i] # r
    BY <2>1 DEF Inv, Tracked
  <2>8. fin[r] <= 1
    BY DEF Inv, Placed
  <2>9. Cardinality({}) = 0
    BY FS_EmptySet
  <2> HIDE DEF U, W
  <2>10. CASE U # {}
    <3>1. Cardinality(U) = 1 /\ Cardinality(W) = 0
      BY <2>2, <2>4, <2>5, <2>9, <2>10
    <3> QED
      BY <2>7, <2>8, <3>1 DEF U, W
  <2>11. CASE U = {} /\ W # {}
    <3>1. Cardinality(U) = 0 /\ Cardinality(W) = 1
      BY <2>3, <2>5, <2>9, <2>11
    <3> QED
      BY <2>7, <2>8, <3>1 DEF U, W
  <2> QED
    BY <2>6, <2>7, <2>8, <2>10, <2>11
<1> QED
  BY <1>1, Invariance, PTL

\* An acknowledged request has reached the broker, over however many connections
\* it was repeated, unless its packet id was given to another one.
THEOREM AckedReachedHolds == Spec => []AckedReached
<1>1. Inv => AckedReached
  BY DEF Inv, Reached, AckedReached
<1> QED
  BY <1>1, Invariance, PTL
=============================================================================
