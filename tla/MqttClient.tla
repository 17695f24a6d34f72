------------------------------ MODULE MqttClient ------------------------------
(***************************************************************************)
(* The requests of an MQTT client: mqtt/protocol/mqtt/mqtt_client.c over   *)
(* the transport mqtt/transport/tcp/mqtt_tcp.c.                            *)
(*                                                                         *)
(* A request is a PUBLISH or a SUBSCRIBE with the handle (aio) that the    *)
(* application waits on.  Without a connection its context waits in        *)
(* send_queue.  Otherwise it is given to the pipe, whose one handle        *)
(* send_aio is guarded by busy; what finds it busy goes to send_messages.  *)
(* A PUBLISH of QoS 1 or 2 and a SUBSCRIBE wait in sent_unack, under their *)
(* packet id, for the acknowledgement; connections may come and go in the  *)
(* meantime.  Three parties end a request: the acknowledgement, a timeout  *)
(* or abort by the application, and a later request with the same id.      *)
(*                                                                         *)
(* A section of s->mtx is a step.  A pipe is stopped, which waits for its  *)
(* callbacks, before the dialer connects again (pipe_destroy), so there is *)
(* one pipe at a time.  Each request has a context of its own and is sent  *)
(* once; the socket stays open.                                            *)
(***************************************************************************)
EXTENDS Naturals, Sequences, FiniteSets

CONSTANTS Req,        \* the requests
          Kinds,      \* what the requests may be: functions from Req to KindSet
          PidMaxes,   \* the last packet id (0xFFFF in the code)
          RetryQos0,  \* the option retry_qos_0
          SendLmq,    \* capacity of send_messages (NNG_MAX_SEND_LMQ)
          MaxConns,   \* connections; the last one stays up
          WireMax     \* packets on their way in a direction

\* A PUBLISH of QoS 0, 1 or 2; a SUBSCRIBE or UNSUBSCRIBE.
KindSet == {"pub0", "pub1", "pub2", "sub"}

None == "none"

ASSUME ClientAssumption ==
    /\ None \notin Req /\ Kinds \subseteq [Req -> KindSet]
    /\ PidMaxes \subseteq Nat \ {0} /\ RetryQos0 \in BOOLEAN
    /\ SendLmq \in Nat \ {0} /\ MaxConns \in Nat \ {0}
    /\ WireMax \in Nat \ {0}

Packet(t, r, id) == [t |-> t, r |-> r, id |-> id]

VARIABLES
    \* mqtt_sock_t
    next_packet_id, send_queue, sent_unack,
    \* mqtt_pipe_t; pipe: "none", "up" (s->mqtt_pipe) or "closed"
    pipe, busy, send_messages,
    tx,              \* the sends of send_aio in progress
    scb,             \* mqtt_send_cb has passed its tests and waits for s->mtx
    \* the handles: state, completions, cancellation routine and the packet id
    \* that the routine finds in the provider data
    st, fin, cancel, prov,
    kind, pid,       \* what the request is, and the packet id in its message
    \* the connection and the broker
    conn, conns, toBroker, toClient, got,
    pidmax,
    \* history: ended by an acknowledgement; taken out of sent_unack for another
    acked, robbed

sock_vars == <<next_packet_id, send_queue, sent_unack, kind, pid, pidmax>>
pipe_vars == <<pipe, busy, send_messages, tx, scb>>
aio_vars == <<st, fin, cancel, prov>>
net_vars == <<conn, conns, toBroker, toClient, got>>
hist_vars == <<acked, robbed>>
vars == <<sock_vars, pipe_vars, aio_vars, net_vars, hist_vars>>

Pid == 1..pidmax
WithId(r) == kind[r] # "pub0"

Init ==
    /\ pidmax \in PidMaxes /\ next_packet_id = 1 /\ send_queue = <<>>
    /\ sent_unack = [i \in Pid |-> None]
    /\ kind \in Kinds /\ pid = [r \in Req |-> 0]
    /\ pipe = "none" /\ busy = FALSE /\ send_messages = <<>> /\ tx = <<>> /\ scb = FALSE
    /\ st = [r \in Req |-> "new"] /\ fin = [r \in Req |-> 0]
    /\ cancel = [r \in Req |-> "no"] /\ prov = [r \in Req |-> 0]
    /\ conn = FALSE /\ conns = 0 /\ toBroker = <<>> /\ toClient = <<>> /\ got = {}
    /\ acked = {} /\ robbed = {}

-----------------------------------------------------------------------------
(* Pieces of the handlers.                                                 *)

\* nni_aio_finish of the requests in S: the cancellation routine is cleared,
\* unless the thread that cancels has taken it already.
Finish(S, state, routine) ==
    /\ st' = [r \in Req |-> IF r \in S THEN "done" ELSE state[r]]
    /\ fin' = [r \in Req |-> IF r \in S THEN fin[r] + 1 ELSE fin[r]]
    /\ cancel' = [r \in Req |-> IF r \in S /\ routine[r] = "set" THEN "no" ELSE routine[r]]

\* nni_pipe_send: mqtt_tcptran_pipe_send starts the write at once.  A packet longer
\* than the broker takes fails there; no packet here is.
Send(pkt) == tx' = Append(tx, pkt) /\ toBroker' = Append(toBroker, pkt)

\* Send, or queue a packet that may be lost if the queue is full.
Mut_SendOrQueue(pkt) == busy' = TRUE /\ Send(pkt) /\ send_messages' = send_messages
SendOrQueue(pkt) ==
    \/ /\ ~busy /\ busy' = TRUE /\ Send(pkt) /\ send_messages' = send_messages
    \/ /\ busy /\ busy' = busy /\ UNCHANGED <<tx, toBroker>>
       /\ send_messages' = IF Len(send_messages) < SendLmq THEN Append(send_messages, pkt)
                           ELSE send_messages

\* The queue of a busy pipe makes room for a QoS message at the expense of the
\* oldest one.  A SUBSCRIBE is treated as QoS 0, which may be dropped: the
\* handle of the former stays in sent_unack, and the timer sends it again.
Queued(r, pkt) ==
    IF ~(RetryQos0 \/ kind[r] \in {"pub1", "pub2"}) THEN send_messages
    ELSE IF Len(send_messages) < SendLmq THEN Append(send_messages, pkt)
    ELSE IF WithId(r) THEN Append(Tail(send_messages), pkt)
    ELSE send_messages

\* mqtt_send_msg for a message with a packet id: the request takes its place in
\* sent_unack, from an older one if need be.  If nni_aio_schedule refuses (the
\* timeout is zero, or the request was aborted before) it loses the place again
\* and ends, but the older one has ended too.  (nni_id_set, which fails for want of
\* memory only, does not fail here.)  A QoS 0 message is done once the
\* pipe or its queue has it, or drops it.
Mut_Evicted(r) == {}
Evicted(r) == {sent_unack[pid'[r]]} \ {None}
SendTracked(r) ==
    /\ sent_unack' = [sent_unack EXCEPT ![pid'[r]] = r]
    /\ Finish(Evicted(r), [st EXCEPT ![r] = "busy"], [cancel EXCEPT ![r] = "set"])
    /\ prov' = [prov EXCEPT ![r] = pid'[r]]
SendRefused(r) ==
    /\ sent_unack' = [sent_unack EXCEPT ![pid'[r]] = None]
    /\ Finish({r} \union Evicted(r), st, cancel)
    /\ prov' = [prov EXCEPT ![r] = pid'[r]]
SendQos0(r) == Finish({r}, st, cancel) /\ UNCHANGED <<sent_unack, prov>>

\* The pipe's part of mqtt_send_msg.
SendPipe(r, isBusy) ==
    LET pkt == Packet(kind[r], r, pid'[r])
    IN  \/ /\ ~isBusy /\ busy' = TRUE /\ Send(pkt) /\ send_messages' = send_messages
        \/ /\ isBusy /\ busy' = TRUE /\ UNCHANGED <<tx, toBroker>>
           /\ send_messages' = Queued(r, pkt)

\* A refused request does not get as far as the pipe.
mqtt_send_msg(r, isBusy) ==
    \/ /\ SendPipe(r, isBusy)
       /\ IF WithId(r) THEN SendTracked(r) ELSE SendQos0(r)
    \/ /\ WithId(r) /\ SendRefused(r) /\ busy' = isBusy
       /\ UNCHANGED <<tx, toBroker, send_messages>>

-----------------------------------------------------------------------------
(* The application.                                                        *)

\* mqtt_get_next_packet_id: ids go from 1 to pidmax and round.
Mut_NextId == next_packet_id + 1
NextId == (next_packet_id % pidmax) + 1

\* mqtt_ctx_send: the id is given when the request is made.  Offline the context
\* waits, and no cancellation routine is set.
mqtt_ctx_send(r) ==
    /\ st[r] = "new"
    /\ IF WithId(r) THEN pid' = [pid EXCEPT ![r] = next_packet_id] /\ next_packet_id' = NextId
       ELSE UNCHANGED <<pid, next_packet_id>>
    /\ \/ /\ pipe # "up"
          /\ st' = [st EXCEPT ![r] = "busy"] /\ send_queue' = Append(send_queue, r)
          /\ UNCHANGED <<sent_unack, busy, send_messages, tx, fin, cancel, prov, toBroker>>
       \/ /\ pipe = "up" /\ mqtt_send_msg(r, busy) /\ send_queue' = send_queue
    /\ UNCHANGED <<kind, pidmax, pipe, scb, conn, conns, toClient, got, hist_vars>>

\* A timeout or nng_aio_abort takes the cancellation routine ...
TakeCancel(r) ==
    /\ cancel[r] = "set" /\ cancel' = [cancel EXCEPT ![r] = "taken"]
    /\ UNCHANGED <<sock_vars, pipe_vars, st, fin, prov, net_vars, hist_vars>>

\* ... and calls it, whatever has become of the request.  It takes the entry of
\* the packet id out of sent_unack, but ends the request only if it is the
\* entry's.  The provider data of a request that was acknowledged are reset; of
\* one that lost its place to another they are not.
mqtt_ctx_cancel_send(r) ==
    LET i == prov[r]
        taio == IF i = 0 THEN None ELSE sent_unack[i]
        routine == [cancel EXCEPT ![r] = "no"]
    IN  /\ cancel[r] = "taken"
        /\ sent_unack' = IF taio = None THEN sent_unack ELSE [sent_unack EXCEPT ![i] = None]
        /\ prov' = IF taio = None THEN prov ELSE [prov EXCEPT ![taio] = 0]
        /\ Finish(IF taio = r THEN {r} ELSE {}, st, routine)
        /\ robbed' = robbed \union ({taio} \ {None, r})
        /\ UNCHANGED <<next_packet_id, send_queue, kind, pid, pidmax, pipe_vars, net_vars, acked>>

-----------------------------------------------------------------------------
(* The pipe.                                                               *)

\* mqtt_pipe_start: the first context that waits is served; the send callback
\* serves the others.
mqtt_pipe_start ==
    /\ pipe = "none" /\ conns < MaxConns
    /\ pipe' = "up" /\ conn' = TRUE /\ conns' = conns + 1 /\ pid' = pid
    /\ \/ /\ send_queue = <<>> /\ busy' = FALSE
          /\ UNCHANGED <<send_queue, sent_unack, send_messages, tx, toBroker, aio_vars>>
       \/ /\ send_queue # <<>> /\ send_queue' = Tail(send_queue)
          /\ mqtt_send_msg(Head(send_queue), FALSE)
    /\ UNCHANGED <<next_packet_id, kind, pidmax, scb, toClient, got, hist_vars>>

\* mqtt_pipe_close: s->mqtt_pipe is reset, what waits for the pipe is freed, and
\* the handles are closed, which fails the send in progress.
mqtt_pipe_close ==
    /\ pipe' = "closed" /\ send_messages' = <<>>
    /\ conn' = FALSE /\ toBroker' = <<>> /\ toClient' = <<>>

\* The connection breaks, or the client gives it up (mqtt_timer_cb: PINGREQs go
\* without an answer; a packet that cannot be decoded).
Break ==
    /\ conn /\ conns < MaxConns /\ conn' = FALSE
    /\ toClient' = <<>> /\ toBroker' = <<>>
    /\ UNCHANGED <<sock_vars, pipe_vars, aio_vars, conns, got, hist_vars>>
CloseLost ==
    /\ pipe = "up" /\ conns < MaxConns
    /\ mqtt_pipe_close
    /\ UNCHANGED <<sock_vars, busy, tx, scb, aio_vars, conns, got, hist_vars>>

\* pipe_destroy: pipe_stop waits for the callbacks, then the dialer goes on.
PipeDestroy ==
    /\ pipe = "closed" /\ tx = <<>> /\ ~scb
    /\ pipe' = "none"
    /\ UNCHANGED <<sock_vars, busy, send_messages, tx, scb, aio_vars, net_vars, hist_vars>>

\* mqtt_send_cb, before it takes s->mtx: a failed send closes the pipe; a
\* callback of a closed pipe does nothing.
SendError ==
    /\ tx # <<>> /\ ~conn /\ tx' = Tail(tx)
    /\ IF pipe = "up" THEN mqtt_pipe_close
       ELSE UNCHANGED <<pipe, send_messages, conn, toBroker, toClient>>
    /\ UNCHANGED <<sock_vars, busy, scb, aio_vars, conns, got, hist_vars>>
SendDone ==
    /\ tx # <<>> /\ ~scb /\ tx' = Tail(tx)
    /\ Len(toBroker) <= WireMax
    /\ scb' = (pipe = "up")
    /\ UNCHANGED <<sock_vars, pipe, busy, send_messages, aio_vars, net_vars, hist_vars>>

Mut_NotBusy == busy
NotBusy == FALSE

\* mqtt_send_cb under s->mtx.  If the pipe is closed by now, the context that it
\* serves ends with success and its message is not sent.
mqtt_send_cb ==
    /\ scb /\ scb' = FALSE /\ pid' = pid
    /\ \/ /\ send_queue # <<>> /\ pipe # "up" /\ send_queue' = Tail(send_queue)
          /\ Finish({Head(send_queue)}, st, cancel) /\ busy' = FALSE
          /\ UNCHANGED <<sent_unack, send_messages, tx, prov, toBroker>>
       \/ /\ send_queue # <<>> /\ pipe = "up" /\ send_queue' = Tail(send_queue)
          /\ mqtt_send_msg(Head(send_queue), FALSE)
       \/ /\ send_queue = <<>> /\ send_messages # <<>>
          /\ busy' = TRUE /\ Send(Head(send_messages)) /\ send_messages' = Tail(send_messages)
          /\ UNCHANGED <<send_queue, sent_unack, aio_vars>>
       \/ /\ send_queue = <<>> /\ send_messages = <<>> /\ busy' = NotBusy
          /\ UNCHANGED <<send_queue, sent_unack, send_messages, tx, aio_vars, toBroker>>
    /\ UNCHANGED <<next_packet_id, kind, pidmax, pipe, conn, conns, toClient, got, hist_vars>>

\* mqtt_timer_cb: a PINGREQ only if the pipe is free.
TimerPing ==
    /\ pipe = "up" /\ ~busy /\ busy' = TRUE /\ Send(Packet("ping", None, 0))
    /\ UNCHANGED <<sock_vars, pipe, send_messages, scb, aio_vars, conn, conns, toClient, got, hist_vars>>

\* mqtt_timer_cb: an unacknowledged message that is old enough is sent again, or
\* queued.  The search starts at an uninitialised id, so it may be any of them.
TimerResend(i) ==
    /\ pipe = "up" /\ sent_unack[i] # None
    /\ busy => Len(send_messages) < SendLmq
    /\ SendOrQueue(Packet(kind[sent_unack[i]], sent_unack[i], i))
    /\ UNCHANGED <<sock_vars, pipe, scb, aio_vars, conn, conns, toClient, got, hist_vars>>

\* mqtt_recv_cb, run by mqtt_tcptran_pipe_recv_cb, which answers a PUBREC with a
\* PUBREL.  An acknowledgement ends the request that has the id.
Mut_Acked(i) == IF sent_unack[1] # None THEN sent_unack[1] ELSE sent_unack[i]
Acked(i) == sent_unack[i]
RecvPubrec(pkt) ==
    /\ pkt.t = "rec" /\ SendOrQueue(Packet("rel", None, pkt.id))
    /\ UNCHANGED <<sent_unack, aio_vars, acked>>
RecvAck(pkt) ==
    LET r == Acked(pkt.id)
    IN  /\ pkt.t = "ack"
        /\ IF r = None THEN UNCHANGED <<sent_unack, aio_vars, acked>>
           ELSE /\ sent_unack' = [sent_unack EXCEPT ![pkt.id] = None]
                /\ prov' = [prov EXCEPT ![r] = 0]
                /\ Finish({r}, st, cancel) /\ acked' = acked \union {r}
        /\ UNCHANGED <<busy, send_messages, tx, toBroker>>
mqtt_recv_cb ==
    /\ conn /\ pipe = "up" /\ toClient # <<>>
    /\ toClient' = Tail(toClient)
    /\ RecvPubrec(Head(toClient)) \/ RecvAck(Head(toClient))
    /\ UNCHANGED <<next_packet_id, send_queue, kind, pid, pidmax, pipe, scb, conn, conns, got, robbed>>

\* The broker, as MQTT asks of it.
Broker ==
    /\ conn /\ toBroker # <<>> /\ Len(toClient) < WireMax
    /\ toBroker' = Tail(toBroker)
    /\ LET pkt == Head(toBroker)
           Reply(t) == toClient' = Append(toClient, Packet(t, None, pkt.id))
       IN  \/ pkt.t \in {"ping", "pub0"} /\ toClient' = toClient
           \/ pkt.t \in {"pub1", "sub", "rel"} /\ Reply("ack")
           \/ pkt.t = "pub2" /\ Reply("rec")
    /\ got' = got \union ({Head(toBroker).r} \ {None})
    /\ UNCHANGED <<sock_vars, pipe_vars, aio_vars, conn, conns, hist_vars>>

Next ==
    \/ \E r \in Req : mqtt_ctx_send(r) \/ TakeCancel(r) \/ mqtt_ctx_cancel_send(r)
    \/ mqtt_pipe_start \/ Break \/ CloseLost \/ PipeDestroy
    \/ SendError \/ SendDone \/ mqtt_send_cb
    \/ TimerPing \/ (\E i \in Pid : TimerResend(i))
    \/ mqtt_recv_cb \/ Broker

Spec == Init /\ [][Next]_vars

\* Callbacks, the reaper, the timer and the dialer run, a dead connection is
\* noticed, the network and the broker deliver and answer.  The keep-alive is
\* not zero, so that an idle pipe is pinged.  Nothing is assumed of the
\* application.
Fairness ==
    /\ WF_vars(mqtt_pipe_start) /\ WF_vars(CloseLost /\ ~conn) /\ WF_vars(PipeDestroy)
    /\ WF_vars(SendError \/ SendDone) /\ WF_vars(mqtt_send_cb)
    /\ WF_vars(\E i \in Pid : TimerResend(i)) /\ WF_vars(TimerPing)
    /\ WF_vars(mqtt_recv_cb) /\ WF_vars(Broker)
    /\ \A r \in Req : WF_vars(mqtt_ctx_cancel_send(r))
FairSpec == Spec /\ Fairness

-----------------------------------------------------------------------------
(* Properties.                                                             *)

Packets == [t : {"pub0", "pub1", "pub2", "sub", "rel", "ping", "rec", "ack"},
            r : Req \union {None}, id : 0..pidmax]

TypeOK ==
    /\ next_packet_id \in Pid /\ send_queue \in Seq(Req) /\ sent_unack \in [Pid -> Req \union {None}]
    /\ kind \in Kinds /\ pid \in [Req -> 0..pidmax] /\ pidmax \in PidMaxes
    /\ pipe \in {"none", "up", "closed"} /\ busy \in BOOLEAN /\ scb \in BOOLEAN
    /\ send_messages \in Seq(Packets) /\ Len(send_messages) <= SendLmq /\ tx \in Seq(Packets)
    /\ st \in [Req -> {"new", "busy", "done"}] /\ fin \in [Req -> Nat]
    /\ cancel \in [Req -> {"no", "set", "taken"}] /\ prov \in [Req -> 0..pidmax]
    /\ conn \in BOOLEAN /\ conns \in 0..MaxConns
    /\ toBroker \in Seq(Packets) /\ toClient \in Seq(Packets)
    /\ got \subseteq Req /\ acked \subseteq Req /\ robbed \subseteq Req

\* Acknowledgement, cancellation, replacement by a later request with the same
\* packet id and a lost connection race for a request: it is completed at most
\* once, and until then it is in one place from which it will be completed.
OneCompletion == \A r \in Req :
    /\ fin[r] <= 1
    /\ st[r] = "busy" /\ r \notin robbed =>
         Cardinality({i \in Pid : sent_unack[i] = r})
         + Cardinality({k \in 1..Len(send_queue) : send_queue[k] = r}) = 1
    /\ st[r] = "done" => \A i \in Pid : sent_unack[i] # r

\* While packet ids do not come round, an acknowledged request has reached the
\* broker, over however many connections it was repeated.
AckedReached == \A r \in acked : r \in got \/ \E q \in Req \ {r} : pid[q] = pid[r]

\* The context, the send callback, the timer and the answers share the one
\* send_aio of the pipe: it is never started twice, and the pipe is busy only
\* while something will end that.
OneSend ==
    /\ Len(tx) <= 1
    /\ pipe = "up" => (busy <=> tx # <<>> \/ scb)

\* A request is completed, whatever connections break, packets are lost from the
\* queue or SUBSCRIBEs are dropped, if in the end the retry interval is longer
\* than an exchange with the broker (a faster timer may fill the queue with
\* copies, at the expense of the PUBREL, for ever).
Quiet == ~busy /\ tx = <<>> /\ toBroker = <<>> /\ toClient = <<>>
Patient == <>[][(\E i \in Pid : TimerResend(i)) => Quiet]_vars

-----------------------------------------------------------------------------
(* What the code does not do.                                              *)

\* A request is not taken out of sent_unack by the cancellation of another one,
\* after which nothing completes it.
NoneRobbed == robbed = {}
=============================================================================
