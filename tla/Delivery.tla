------------------------------ MODULE Delivery ------------------------------
(***************************************************************************)
(* The messages that the broker sends to one client that keeps a session:  *)
(* the send path of sp/protocol/mqtt/nmq_mqtt.c over the TCP transport     *)
(* sp/transport/mqtt/broker_tcp.c.                                         *)
(*                                                                         *)
(* A pipe has one handle aio_send, and whoever sends over it (a context of *)
(* the application, the callback of the last send, the timer that repeats  *)
(* unacknowledged messages, the callback that answers the client) goes by  *)
(* the flag busy.  What finds it set is queued in rlmq.  The transport     *)
(* gives a QoS message its packet id and stores it under the id until the  *)
(* client acknowledges it.  When the connection is lost the pipe is kept   *)
(* as the session (module Session): messages then go straight to the       *)
(* store, and the pipe of the next connection takes the store over.        *)
(*                                                                         *)
(* Locks: s->lk is only held within a step; p->lk is a variable, since it  *)
(* is held over several sections of the transport's p->mtx; a section of   *)
(* p->mtx is a step.  Of a PUBLISH only its QoS matters, 1 or 2; it        *)
(* matches one subscription of the client.                                 *)
(***************************************************************************)
EXTENDS Naturals, Sequences, FiniteSets, FiniteSetsExt

CONSTANTS NPipes,    \* the connections of the client; the last one stays up
          NMsgs,     \* the messages published for it
          Qos,       \* Qos[m]: QoS of m after the subscription's limit
          Expiring,  \* messages with a message expiry interval
          PidMax,    \* the last packet id, 0xFFFF in the code
          StartPids, \* initial values of the packet id counter
          RxMaxes,   \* receive maximum of an MQTT 5 client, 0: MQTT 3
          QCap,      \* initial capacity of rlmq (msq_len)
          MaxQ,      \* NANO_MAX_QOS_PACKET
          Batch,     \* conf->batch_resend
          NetMax     \* packets the socket buffer takes

ASSUME SizesAssumption ==
    /\ NPipes \in Nat \ {0} /\ NMsgs \in Nat \ {0} /\ PidMax \in Nat \ {0}
    /\ QCap \in Nat \ {0} /\ MaxQ \in Nat /\ NetMax \in Nat \ {0}
ASSUME ChoicesAssumption ==
    /\ Qos \in [1..NMsgs -> 1..2] /\ Expiring \subseteq 1..NMsgs
    /\ StartPids \subseteq 0..PidMax /\ RxMaxes \subseteq Nat
    /\ Batch \in BOOLEAN

Pipe == 1..NPipes
Msg == 1..NMsgs
Pid == 1..PidMax
None == 0

\* What travels: a PUBLISH of m (pid 0 until the transport gives it one), a
\* PUBREL, a CONNACK; and the client's answers.
Packet(t, m, pid) == [t |-> t, m |-> m, pid |-> pid]
Pub(m) == Packet("pub", m, 0)
Rel(pid) == Packet("rel", None, pid)
Connack == Packet("connack", None, 0)
Nothing == Packet("none", None, 0)

VARIABLES
    \* nmq_mqtt.c
    s_pipes,                     \* the pipe under the client's id
    busy, connacked, rid, closed,
    rlmq, cap,                   \* the send cache and its capacity
    lk,                          \* who holds p->lk over a call of the transport
    prov,                        \* provider data of aio_send: a packet id or 0
    ctx,                         \* the context that is sending: item and pipe
    tmr,                         \* the timer callback
    pick,                        \* the message it is about to repeat
    \* broker_tcp.c
    cache, tclosed,              \* npipe->cache and the transport's closed
    tx,                          \* the sends of aio_send in progress
    rx,                          \* the packet passed up to nano_pipe_recv_cb
    quota,                       \* qsend_quota
    nano_qos_db, packet_id,      \* the store and the id counter of the session
    holder,                      \* the pipe that has them
    \* the connection and the client
    conn, toClient, toBroker, rxmax,
    \* the application
    sent, due,                   \* published messages; CONNACKs to send
    expired,                     \* messages dropped past their expiry
    \* history
    stored, got                  \* ever stored; delivered to the client

nano_vars == <<s_pipes, busy, connacked, rid, closed, rlmq, cap, lk, prov>>
thr_vars == <<ctx, tmr, pick>>
tran_vars == <<cache, tclosed, tx, rx, quota>>
db_vars == <<nano_qos_db, packet_id, holder, stored>>
net_vars == <<conn, toClient, toBroker>>
client_vars == <<rxmax, got>>
app_vars == <<sent, due>>
vars == <<nano_vars, thr_vars, tran_vars, db_vars, net_vars, client_vars, app_vars, expired>>

Set(f, p, x) == [f EXCEPT ![p] = x]
All(x) == [p \in Pipe |-> x]

Init ==
    /\ s_pipes = None /\ busy = All(FALSE) /\ connacked = All(FALSE) /\ rid = All(1)
    /\ closed = All(FALSE) /\ rlmq = All(<<>>) /\ cap = All(QCap) /\ lk = All("free")
    /\ prov = All(0) /\ ctx = [it |-> Nothing, p |-> None]
    /\ tmr = All("idle") /\ pick = All([m |-> None, pid |-> 0])
    /\ cache = All(FALSE) /\ tclosed = All(FALSE) /\ tx = All(<<>>) /\ rx = All(Nothing)
    /\ rxmax \in RxMaxes /\ quota = All(rxmax)
    /\ nano_qos_db = [i \in Pid |-> None] /\ packet_id \in StartPids /\ holder = None
    /\ conn = All(FALSE) /\ toClient = All(<<>>) /\ toBroker = All(<<>>)
    /\ sent = {} /\ due = {} /\ expired = {} /\ stored = {} /\ got = {}

-----------------------------------------------------------------------------
(* The transport's half of a send.                                         *)

\* nni_pipe_inc_packetid: the ids go from 1 to PidMax and round.
IncPacketid == (packet_id % PidMax) + 1

\* The successor of an id as the index of the next message to repeat.
Mut_Rid(pid) == pid + 1
Rid(pid) == IF pid = PidMax THEN 1 ELSE pid + 1

IsPub(it) == it.t = "pub"

\* An MQTT 5 client gets no more messages than its window has room for.
Mut_WindowFull(p) == FALSE
WindowFull(p) == rxmax > 0 /\ quota[p] = 0

\* Store m under a new packet id; a message that has the id is dropped.
Mut_Store(m) ==
    /\ nano_qos_db' = Set(nano_qos_db, IncPacketid, m)
    /\ stored' = stored \union {m} /\ packet_id' = packet_id
Store(m) ==
    /\ nano_qos_db' = Set(nano_qos_db, IncPacketid, m)
    /\ stored' = stored \union {m} /\ packet_id' = IncPacketid
NoStore == UNCHANGED <<nano_qos_db, packet_id, stored>>

\* nmq_pipe_send_start_v4 and _v5.  pid is the provider data of aio_send: the
\* packet id of a repeated message, 0 for a new one, which is stored before it
\* is written.  One subscription of the client matches the message.  A message
\* that the window has no room for is lost, and so is one longer than the
\* client takes, which no message here is.  others: the sends of the handle that
\* are in progress already.
SendStart(p, it, pid, others) ==
    LET skip == IsPub(it) /\ WindowFull(p)
        out == IF ~IsPub(it) THEN it
               ELSE Packet("pub", it.m, IF pid # 0 THEN pid ELSE IncPacketid)
    IN  /\ IF IsPub(it) /\ pid = 0 /\ ~skip THEN Store(it.m) ELSE NoStore
        /\ quota' = IF IsPub(it) /\ ~skip /\ rxmax > 0 THEN Set(quota, p, quota[p] - 1) ELSE quota
        /\ toClient' = IF conn[p] /\ ~skip THEN Set(toClient, p, Append(toClient[p], out))
                       ELSE toClient
        /\ tx' = Set(tx, p, Append(others, "wire"))

\* tcptran_pipe_send on a pipe that is kept: only QoS messages are stored.
SendCached(p, it, others) ==
    /\ IF IsPub(it) /\ holder = p THEN Store(it.m) ELSE NoStore
    /\ tx' = Set(tx, p, Append(others, "ok"))
    /\ UNCHANGED <<quota, toClient>>

\* tcptran_pipe_send: a closed transport frees the message and reports it.
tcptran_pipe_send(p, it, pid, others) ==
    /\ \/ /\ tclosed[p]
          /\ tx' = Set(tx, p, Append(others, "err"))
          /\ NoStore /\ UNCHANGED <<quota, toClient>>
       \/ ~tclosed[p] /\ cache[p] /\ SendCached(p, it, others)
       \/ ~tclosed[p] /\ ~cache[p] /\ SendStart(p, it, pid, others)
    /\ UNCHANGED <<cache, tclosed, holder, conn, toBroker>>

NoSend == UNCHANGED <<cache, tclosed, tx, quota, db_vars, net_vars>>

\* nmq_tcptran_pipe_send_cb: the bytes are written, or the stream is closed.
Outcome(p) ==
    IF Head(tx[p]) # "wire" THEN {Head(tx[p])}
    ELSE {r \in {"ok", "err"} :
            IF r = "err" THEN ~conn[p] ELSE ~tclosed[p] /\ (conn[p] => Len(toClient[p]) <= NetMax)}

-----------------------------------------------------------------------------
(* The protocol's half.                                                    *)

\* nano_ctx_send, first part: the pipe is looked up under s->lk, which is
\* released once p->lk is held.  The client has subscribed, so there is a pipe.
CtxLookup(it) ==
    /\ s_pipes # None /\ ctx.p = None /\ lk[s_pipes] = "free"
    /\ ctx' = [it |-> it, p |-> s_pipes] /\ lk' = Set(lk, s_pipes, "ctx")

Publish(m) ==
    /\ m \notin sent /\ (\A k \in 1..m-1 : k \in sent)
    /\ CtxLookup(Pub(m)) /\ sent' = sent \union {m}
    /\ UNCHANGED <<s_pipes, busy, connacked, rid, closed, rlmq, cap, prov, tmr, pick,
                   tran_vars, db_vars, net_vars, client_vars, due, expired>>

\* The application answers the CONNACK that nano_pipe_start has passed up.
SendConnack(p) ==
    /\ p \in due /\ CtxLookup(Connack) /\ due' = due \ {p}
    /\ UNCHANGED <<s_pipes, busy, connacked, rid, closed, rlmq, cap, prov, tmr, pick,
                   tran_vars, db_vars, net_vars, client_vars, sent, expired>>

\* The queue of a busy pipe is doubled up to a limit; then messages are lost.
Enqueue(p, it) ==
    \/ /\ Len(rlmq[p]) < cap[p]
       /\ rlmq' = Set(rlmq, p, Append(rlmq[p], it)) /\ cap' = cap
    \/ /\ Len(rlmq[p]) = cap[p] /\ cap[p] <= MaxQ
       /\ rlmq' = Set(rlmq, p, Append(rlmq[p], it)) /\ cap' = Set(cap, p, 2 * cap[p])
    \/ /\ Len(rlmq[p]) = cap[p] /\ cap[p] > MaxQ
       /\ UNCHANGED <<rlmq, cap>>

\* nano_ctx_send, second part, under p->lk.
nano_ctx_send ==
    LET p == ctx.p
        acked == connacked[p] \/ ctx.it = Connack
    IN  /\ p # None
        /\ connacked' = Set(connacked, p, acked)
        /\ \/ /\ ~busy[p] /\ acked
              /\ busy' = Set(busy, p, TRUE)
              /\ tcptran_pipe_send(p, ctx.it, prov[p], tx[p])
              /\ UNCHANGED <<rlmq, cap>>
           \/ /\ busy[p] \/ ~acked
              /\ Enqueue(p, ctx.it)
              /\ NoSend /\ busy' = busy
        /\ lk' = Set(lk, p, "free") /\ ctx' = [it |-> Nothing, p |-> None]
        /\ UNCHANGED <<s_pipes, rid, closed, prov, tmr, pick, rx, client_vars, app_vars, expired>>

\* nano_pipe_close on a pipe with a session (clean_start 0): it is kept, what
\* waits in rlmq is freed, and tcptran_pipe_close closes the stream; who sends
\* between the two finds the pipe kept already.
Keep(p) ==
    /\ cache' = Set(cache, p, TRUE) /\ rlmq' = Set(rlmq, p, <<>>)
    /\ conn' = Set(conn, p, FALSE)
    /\ toClient' = Set(toClient, p, <<>>) /\ toBroker' = Set(toBroker, p, <<>>)

\* Only the first close of a pipe keeps it; a later one finds it kept, or
\* taken over by a newer pipe.
Closable(p) == ~cache[p] /\ ~tclosed[p] /\ holder = p

\* nano_pipe_send_cb: the next message of rlmq follows at once.  After an error
\* the pipe is closed, and busy stays set.
Mut_ProvReset(p) == prov
ProvReset(p) == Set(prov, p, 0)
Mut_NotBusy(p) == IF rlmq[p] = <<>> THEN busy ELSE Set(busy, p, FALSE)
NotBusy(p) == Set(busy, p, FALSE)
nano_pipe_send_cb(p) ==
    /\ tx[p] # <<>> /\ lk[p] = "free"
    /\ \/ /\ "ok" \in Outcome(p) /\ connacked[p] /\ rlmq[p] # <<>>
          /\ prov' = ProvReset(p) /\ rlmq' = Set(rlmq, p, Tail(rlmq[p]))
          /\ tcptran_pipe_send(p, Head(rlmq[p]), prov'[p], Tail(tx[p]))
          /\ busy' = busy
       \/ /\ "ok" \in Outcome(p) /\ ~(connacked[p] /\ rlmq[p] # <<>>)
          /\ prov' = ProvReset(p) /\ busy' = NotBusy(p)
          /\ tx' = Set(tx, p, Tail(tx[p]))
          /\ UNCHANGED <<rlmq, cache, tclosed, quota, db_vars, net_vars>>
       \/ /\ "err" \in Outcome(p)
          /\ tx' = Set(tx, p, Tail(tx[p]))
          /\ IF Closable(p) THEN Keep(p) ELSE UNCHANGED <<cache, rlmq, net_vars>>
          /\ UNCHANGED <<busy, prov, tclosed, quota, db_vars>>
    /\ UNCHANGED <<s_pipes, connacked, rid, closed, cap, lk, thr_vars, rx, client_vars, app_vars,
                   expired>>

-----------------------------------------------------------------------------
(* Repeating what is not acknowledged.                                     *)

\* The store as the pipe sees it: none once a newer pipe has taken it over.
Db(p) == IF holder = p THEN nano_qos_db ELSE [i \in Pid |-> None]

\* nni_id_get_min goes up from the id it is given and round.
Distance(from, i) == (i + PidMax + 1 - from) % (PidMax + 1)
Nearest(from, S) == CHOOSE i \in S : \A j \in S : Distance(from, i) <= Distance(from, j)

\* tcptran_pipe_getopt(NMQ_OPT_MQTT_GET_QOS_RESEND): messages past their expiry
\* (late) are dropped on the way to the first one that is not; that one is
\* repeated if it is old enough (old).
Held(p) == {i \in Pid : Db(p)[i] # None}
Fresh(p, late) == {i \in Held(p) : Db(p)[i] \notin late}
First(p, from, late) == Nearest(from, Fresh(p, late))
Passed(p, from, late) ==
    {i \in Held(p) \ Fresh(p, late) :
        Fresh(p, late) # {} => Distance(from, i) < Distance(from, First(p, from, late))}

\* If there is one, the callback named who goes on with it and keeps p->lk.
Pick(p, from, late, old, who) ==
    /\ late # {} => rxmax > 0
    /\ nano_qos_db' = [i \in Pid |-> IF i \in Passed(p, from, late) THEN None ELSE nano_qos_db[i]]
    /\ expired' = expired \union {nano_qos_db[i] : i \in Passed(p, from, late)}
    /\ UNCHANGED <<packet_id, holder, stored>>
    /\ \/ /\ old /\ Fresh(p, late) # {}
          /\ LET i == First(p, from, late) IN pick' = Set(pick, p, [m |-> Db(p)[i], pid |-> i])
          /\ lk' = Set(lk, p, who)
       \/ ~(old /\ Fresh(p, late) # {}) /\ UNCHANGED <<pick, lk>>

\* nano_pipe_timer_cb tests npipe->cache before it takes p->lk.  (On a pipe
\* whose session is taken over already it has nothing to repeat.)
TimerTest(p) ==
    /\ s_pipes = p /\ tmr[p] = "idle" /\ ~cache[p]
    /\ tmr' = Set(tmr, p, "tested")
    /\ UNCHANGED <<nano_vars, ctx, pick, tran_vars, db_vars, net_vars, client_vars, app_vars, expired>>

TimerPick(p, late, old) ==
    /\ tmr[p] = "tested" /\ lk[p] = "free" /\ ~closed[p] /\ ~busy[p] /\ connacked[p]
    /\ Pick(p, rid[p], late, old, "tmr")
    /\ tmr' = Set(tmr, p, IF lk'[p] = "tmr" THEN "picked" ELSE "idle")
    /\ UNCHANGED <<s_pipes, busy, connacked, rid, closed, rlmq, cap, prov, ctx, tran_vars,
                   net_vars, client_vars, app_vars>>
TimerSkip(p) ==
    /\ tmr[p] = "tested" /\ lk[p] = "free" /\ (closed[p] \/ busy[p] \/ ~connacked[p])
    /\ tmr' = Set(tmr, p, "idle")
    /\ UNCHANGED <<nano_vars, ctx, pick, tran_vars, db_vars, net_vars, client_vars, app_vars,
                   expired>>

\* Keepalive timeout: the timer closes the pipe.
TimerKick(p) ==
    /\ tmr[p] = "tested" /\ lk[p] = "free" /\ ~closed[p] /\ p < NPipes
    /\ tmr' = Set(tmr, p, "idle")
    /\ IF Closable(p) THEN Keep(p) ELSE UNCHANGED <<cache, rlmq, net_vars>>
    /\ UNCHANGED <<s_pipes, busy, connacked, rid, closed, cap, lk, prov, ctx, pick, tclosed,
                   tx, rx, quota, db_vars, client_vars, app_vars, expired>>

\* The rest of both callers: send the message again under its own id.
Resend(p, who) ==
    /\ lk[p] = who
    /\ rid' = Set(rid, p, Rid(pick[p].pid)) /\ busy' = Set(busy, p, TRUE)
    /\ prov' = Set(prov, p, pick[p].pid)
    /\ tcptran_pipe_send(p, Pub(pick[p].m), pick[p].pid, tx[p])
    /\ lk' = Set(lk, p, "free") /\ pick' = Set(pick, p, [m |-> None, pid |-> 0])
    /\ UNCHANGED <<s_pipes, connacked, closed, rlmq, cap, ctx, client_vars, app_vars, expired>>
TimerResend(p) == Resend(p, "tmr") /\ tmr' = Set(tmr, p, "idle") /\ rx' = rx
BatchResend(p) == Resend(p, "rcv") /\ tmr' = tmr /\ rx' = Set(rx, p, Nothing)

-----------------------------------------------------------------------------
(* What the client sends.                                                  *)

\* tcptran_pipe_recv_cb: PUBACK and PUBCOMP free a place of the window and end
\* the message; one for an id that is not in the store goes no further.
TranRecv(p) ==
    /\ conn[p] /\ toBroker[p] # <<>> /\ rx[p] = Nothing
    /\ toBroker' = Set(toBroker, p, Tail(toBroker[p]))
    /\ LET pkt == Head(toBroker[p])
       IN  \/ /\ pkt.t \in {"ack", "comp"}
              /\ quota' = IF rxmax > 0 THEN Set(quota, p, quota[p] + 1) ELSE quota
              /\ IF Db(p)[pkt.pid] # None
                 THEN nano_qos_db' = Set(nano_qos_db, pkt.pid, None) /\ rx' = Set(rx, p, pkt)
                 ELSE UNCHANGED <<nano_qos_db, rx>>
           \/ /\ pkt.t = "rec"
              /\ rx' = Set(rx, p, pkt) /\ UNCHANGED <<quota, nano_qos_db>>
    /\ UNCHANGED <<nano_vars, thr_vars, cache, tclosed, tx, packet_id, holder, stored,
                   conn, toClient, client_vars, app_vars, expired>>

\* The answers of nano_pipe_recv_cb: sent, or queued if there is room.
Mut_Answer(p, it) ==
    busy' = Set(busy, p, TRUE) /\ tcptran_pipe_send(p, it, prov[p], tx[p]) /\ rlmq' = rlmq
Answer(p, it) ==
    \/ /\ ~busy[p] /\ busy' = Set(busy, p, TRUE)
       /\ tcptran_pipe_send(p, it, prov[p], tx[p]) /\ rlmq' = rlmq
    \/ /\ busy[p] /\ NoSend /\ busy' = busy
       /\ rlmq' = IF Len(rlmq[p]) < cap[p] THEN Set(rlmq, p, Append(rlmq[p], it)) ELSE rlmq

\* nano_pipe_recv_cb, under p->lk; receiving goes on when it ends (rx is free).
RecvDone(p) == rx' = Set(rx, p, Nothing)
nano_pipe_recv_cb(p, late, old) ==
    /\ rx[p] # Nothing /\ lk[p] = "free"
    /\ \/ /\ closed[p] /\ RecvDone(p)
          /\ NoSend /\ UNCHANGED <<busy, rid, rlmq, lk, pick, expired>>
       \/ /\ ~closed[p] /\ rx[p].t = "rec" /\ RecvDone(p)
          /\ Answer(p, Rel(rx[p].pid)) /\ UNCHANGED <<rid, lk, pick, expired>>
       \/ /\ ~closed[p] /\ rx[p].t \in {"ack", "comp"}
          /\ rid' = Set(rid, p, Rid(rx[p].pid))
          /\ IF Batch /\ ~busy[p]
             THEN /\ Pick(p, rid'[p], late, old, "rcv")
                  /\ IF lk'[p] = "rcv" THEN rx' = rx ELSE RecvDone(p)
                  /\ UNCHANGED <<cache, tclosed, tx, quota, net_vars>>
             ELSE RecvDone(p) /\ NoSend /\ UNCHANGED <<pick, lk, expired>>
          /\ UNCHANGED <<busy, rlmq>>
    /\ UNCHANGED <<s_pipes, connacked, closed, cap, prov, ctx, tmr, client_vars, app_vars>>

-----------------------------------------------------------------------------
(* Connections.                                                            *)

\* The stream is lost; packets on their way are lost with it.
Lost(p) ==
    /\ conn' = Set(conn, p, FALSE)
    /\ toClient' = Set(toClient, p, <<>>) /\ toBroker' = Set(toBroker, p, <<>>)
Drop(p) ==
    /\ conn[p] /\ p < NPipes /\ Lost(p)
    /\ UNCHANGED <<nano_vars, thr_vars, tran_vars, db_vars, client_vars, app_vars, expired>>

\* The failed receive closes the pipe (nano_pipe_recv_cb), or the next
\* connection of the client does (nni_pipe_set_pid).
PipeLost(p) ==
    /\ s_pipes = p /\ ~conn[p] /\ lk[p] = "free" /\ Closable(p)
    /\ Keep(p)
    /\ UNCHANGED <<s_pipes, busy, connacked, rid, closed, cap, lk, prov, thr_vars, tclosed, tx,
                   rx, quota, db_vars, client_vars, app_vars, expired>>

\* The client connects, for the first time or after it has left the pipe before;
\* nano_pipe_start, under s->lk: tcptran_pipe_peer, under the old pipe's mtx,
\* hands the store and the id counter over and closes the old transport.
nano_pipe_start(q) ==
    /\ s_pipes = q - 1 /\ conn' = Set(conn, q, TRUE)
    /\ s_pipes' = q /\ holder' = q /\ due' = due \union {q}
    /\ \/ q = 1 /\ UNCHANGED <<cache, tclosed>>
       \/ /\ q > 1 /\ cache[q - 1]
          /\ cache' = Set(cache, q - 1, FALSE) /\ tclosed' = Set(tclosed, q - 1, TRUE)
    /\ UNCHANGED <<busy, connacked, rid, closed, rlmq, cap, lk, prov, thr_vars, tx, rx, quota,
                   nano_qos_db, packet_id, stored, toClient, toBroker, client_vars, sent, expired>>

\* The abort of the old pipe's timer closes it for good: close_pipe.  It may
\* never happen: a kicked pipe has no timer left to abort (module Session).
CloseOld(p) ==
    /\ tclosed[p] /\ ~closed[p] /\ lk[p] = "free" /\ tmr[p] = "idle"
    /\ closed' = Set(closed, p, TRUE) /\ rlmq' = Set(rlmq, p, <<>>)
    /\ UNCHANGED <<s_pipes, busy, connacked, rid, cap, lk, prov, thr_vars, tran_vars, db_vars,
                   net_vars, client_vars, app_vars, expired>>

-----------------------------------------------------------------------------
(* The client, as MQTT asks of it.                                         *)

ClientRecv(p) ==
    /\ conn[p] /\ toClient[p] # <<>> /\ Len(toBroker[p]) < NetMax
    /\ toClient' = Set(toClient, p, Tail(toClient[p]))
    /\ LET pkt == Head(toClient[p])
           Reply(t) == toBroker' = Set(toBroker, p, Append(toBroker[p], Packet(t, None, pkt.pid)))
       IN  \/ /\ pkt.t = "pub" /\ got' = got \union {pkt.m}
              /\ Reply(IF Qos[pkt.m] = 1 THEN "ack" ELSE "rec")
           \/ /\ pkt.t = "rel" /\ got' = got
              /\ Reply("comp")
           \/ /\ pkt.t = "connack" /\ UNCHANGED <<toBroker, got>>
    /\ UNCHANGED <<nano_vars, thr_vars, tran_vars, db_vars, conn, rxmax, app_vars, expired>>

Next ==
    \/ nano_ctx_send
    \/ \E m \in Msg : Publish(m)
    \/ \E p \in Pipe :
         \/ SendConnack(p) \/ nano_pipe_send_cb(p)
         \/ TimerTest(p) \/ TimerSkip(p) \/ TimerKick(p) \/ TimerResend(p)
         \/ TranRecv(p) \/ BatchResend(p)
         \/ \E late \in SUBSET Expiring, old \in BOOLEAN :
              TimerPick(p, late, old) \/ nano_pipe_recv_cb(p, late, old)
         \/ Drop(p) \/ PipeLost(p) \/ nano_pipe_start(p) \/ CloseOld(p)
         \/ ClientRecv(p)

Spec == Init /\ [][Next]_vars

\* Threads of the broker run and get the locks they wait for, messages grow old,
\* and the client comes back, reads and answers.  Nothing is assumed of the application and of what ends connections.
Fairness ==
    /\ WF_vars(nano_ctx_send)
    /\ \A p \in Pipe :
         /\ WF_vars(SendConnack(p)) /\ WF_vars(nano_pipe_send_cb(p))
         /\ WF_vars(TimerTest(p)) /\ WF_vars(TimerSkip(p)) /\ WF_vars(TimerResend(p))
         /\ SF_vars(TimerPick(p, {}, TRUE))
         /\ WF_vars(TranRecv(p))
         /\ WF_vars(\E late \in SUBSET Expiring, old \in BOOLEAN : nano_pipe_recv_cb(p, late, old))
         /\ WF_vars(BatchResend(p))
         /\ SF_vars(PipeLost(p)) /\ WF_vars(nano_pipe_start(p))
         /\ WF_vars(ClientRecv(p))
FairSpec == Spec /\ Fairness

-----------------------------------------------------------------------------
(* Properties.                                                             *)

Items == [t : {"pub", "rel", "connack", "ack", "rec", "comp", "none"},
          m : Msg \union {None}, pid : 0..PidMax]

TypeOK ==
    /\ s_pipes \in 0..NPipes /\ holder \in 0..NPipes
    /\ busy \in [Pipe -> BOOLEAN] /\ connacked \in [Pipe -> BOOLEAN]
    /\ closed \in [Pipe -> BOOLEAN] /\ cache \in [Pipe -> BOOLEAN]
    /\ tclosed \in [Pipe -> BOOLEAN] /\ conn \in [Pipe -> BOOLEAN]
    /\ rid \in [Pipe -> Pid] /\ prov \in [Pipe -> 0..PidMax] /\ cap \in [Pipe -> Nat]
    /\ rlmq \in [Pipe -> Seq(Items)] /\ rx \in [Pipe -> Items]
    /\ toClient \in [Pipe -> Seq(Items)] /\ toBroker \in [Pipe -> Seq(Items)]
    /\ lk \in [Pipe -> {"free", "ctx", "tmr", "rcv"}]
    /\ ctx \in [it : Items, p : 0..NPipes]
    /\ tmr \in [Pipe -> {"idle", "tested", "picked"}]
    /\ pick \in [Pipe -> [m : Msg \union {None}, pid : 0..PidMax]]
    /\ tx \in [Pipe -> Seq({"wire", "ok", "err"})] /\ quota \in [Pipe -> Nat]
    /\ nano_qos_db \in [Pid -> Msg \union {None}] /\ packet_id \in 0..PidMax
    /\ rxmax \in RxMaxes
    /\ sent \subseteq Msg /\ due \subseteq Pipe /\ expired \subseteq Msg
    /\ stored \subseteq Msg /\ got \subseteq Msg

\* The one handle aio_send is never started twice, although five callers share
\* it; and an open pipe is busy only while a send is in progress, for a pipe
\* that stays busy would queue everything for ever.
OneSend == \A p \in Pipe :
    /\ Len(tx[p]) <= 1
    /\ tx[p] # <<>> => busy[p]
    /\ busy[p] => tx[p] # <<>> \/ cache[p] \/ tclosed[p]

\* A packet on its way never carries the id of another message in the store:
\* its acknowledgement would end that one.
PidMeansMessage == \A p \in Pipe : \A i \in 1..Len(toClient[p]) :
    LET pkt == toClient[p][i]
    IN  pkt.t = "pub" => nano_qos_db[pkt.pid] \in {None, pkt.m}

\* A message that was stored stays in the store, over connections that break
\* and sessions that are taken over, until the client has it or it expires.
AtLeastOnce == \A m \in stored :
    m \in got \/ m \in expired \/ \E i \in Pid : nano_qos_db[i] = m

\* The exchanges that are open on a connection: a PUBLISH or what answers it,
\* wherever it is.
Count(s, types) == Cardinality({i \in 1..Len(s) : s[i].t \in types})
Open(p) ==
    Count(toClient[p], {"pub", "rel"}) + Count(toBroker[p], {"ack", "rec", "comp"})
    + Count(rlmq[p], {"rel"}) + Count(<<rx[p]>>, {"rec"})

\* An MQTT 5 client never has more QoS messages to acknowledge than the receive
\* maximum it has announced, repeated ones included.  One subscription matches
\* each message.
WindowKept == \A p \in Pipe : rxmax > 0 => Open(p) <= rxmax

\* What is in the store of an MQTT 3 client that comes back is acknowledged in
\* the end, whatever connections broke before.
Drained == \A m \in Msg :
    (rxmax = 0 /\ \E i \in Pid : nano_qos_db[i] = m) ~> (\A i \in Pid : nano_qos_db[i] # m)

-----------------------------------------------------------------------------
(* What the code does not do.                                              *)

\* A kept session stores what arrives for it.  It does not if a send failed
\* when the connection was lost: busy stays set and rlmq is never emptied.
KeptStores == \A p \in Pipe : cache[p] /\ tx[p] = <<>> => ~busy[p]
=============================================================================
