------------------------------ MODULE Session ------------------------------
(***************************************************************************)
(* The pipes of one MQTT client and the session they keep for it:          *)
(* core/pipe.c, core/reap.c, the pipe half of the broker protocol          *)
(* (sp/protocol/mqtt/nmq_mqtt.c) and what they use of the transport        *)
(* (sp/transport/mqtt/broker_tcp.c).                                       *)
(*                                                                         *)
(* A client that connects gets a pipe whose id is the hash of its client   *)
(* id; a pipe of the same client that is still there is closed first.  A   *)
(* pipe with clean_start 0 is not destroyed when it closes: it is kept as  *)
(* the client's session until a new pipe takes the session over or until   *)
(* its timer finds that it has expired.  Pipes of different clients share  *)
(* no entry of any map, so one client is modelled.                         *)
(*                                                                         *)
(* For each pipe three threads may run: the one that accepted the          *)
(* connection, the callback of aio_timer and the callback of aio_recv.     *)
(* One action is what a thread does under one lock or one atomic access.   *)
(* The handles are what core/aio.c makes of them (module Aio): an abort    *)
(* of a handle at rest has no effect, since nni_aio_begin resets a_abort.  *)
(*                                                                         *)
(* Operators named Mut_ are faulty forms of the definition after them, to  *)
(* show that the properties can fail.                                      *)
(***************************************************************************)
EXTENDS Naturals, FiniteSets

CONSTANTS NPipes,      \* the connections the client makes
          CleanStarts  \* the values of the clean start flag it sends

ASSUME PipesAssumption == NPipes \in Nat \ {0}
ASSUME CleanAssumption == CleanStarts \subseteq {0, 1} /\ CleanStarts # {}

Pipe == 1..NPipes   \* in the order in which they are accepted
None == 0
Thread == {"acc", "tmr", "rcv"} \X Pipe
Owner(t) == t[2]

VARIABLES
    \* core/pipe.c and core/reap.c
    pipes,          \* the pipe registered under the client's id
    p_ref, p_closed, cache,
    reaping,        \* the reap list
    victim,         \* the pipe the reaper is at
    rpc,            \* and where
    freed,
    s_mx,           \* holder of the lock of the nni_sock
    \* nmq_mqtt.c
    s_pipes,        \* the pipe that messages for the client are sent to
    cached_sessions,
    clean_start, event, closed,
    \* the handles aio_timer and aio_recv, and the connection
    timer, recv,    \* what the handle is doing
    tstop, rstop,   \* a_stop of the handle
    conn,           \* the stream is open
    \* threads
    pc, tgt,        \* tgt: the pipe of the nni_pipe_close in progress
    ret,            \* where to go on after it
    held,           \* the older pipe an accepting thread has a reference to
    \* history
    taken,          \* pipes whose session a newer pipe resumed
    notified        \* disconnect events exposed for the pipe

map_vars == <<pipes, s_pipes, cached_sessions>>
core_vars == <<p_ref, p_closed, cache>>
reap_vars == <<reaping, victim, rpc, freed>>
nano_vars == <<clean_start, event, closed>>
aio_vars == <<timer, recv, tstop, rstop, conn>>
thr_vars == <<pc, tgt, ret, held>>
hist_vars == <<taken, notified>>
vars == <<map_vars, core_vars, reap_vars, s_mx, nano_vars, aio_vars, thr_vars, hist_vars>>

Init ==
    /\ pipes = None /\ s_pipes = None /\ cached_sessions = None
    /\ p_ref = [p \in Pipe |-> 0]
    /\ p_closed = [p \in Pipe |-> FALSE] /\ cache = [p \in Pipe |-> FALSE]
    /\ reaping = {} /\ victim = None /\ rpc = "idle"
    /\ freed = [p \in Pipe |-> FALSE]
    /\ s_mx = None
    /\ clean_start = [p \in Pipe |-> 1]
    /\ event = [p \in Pipe |-> FALSE] /\ closed = [p \in Pipe |-> FALSE]
    /\ timer = [p \in Pipe |-> "off"] /\ recv = [p \in Pipe |-> "off"]
    /\ tstop = [p \in Pipe |-> FALSE] /\ rstop = [p \in Pipe |-> FALSE]
    /\ conn = [p \in Pipe |-> FALSE]
    /\ pc = [t \in Thread |-> IF t[1] = "acc" THEN "none" ELSE "idle"]
    /\ tgt = [t \in Thread |-> None]
    /\ ret = [t \in Thread |-> "idle"]
    /\ held = [p \in Pipe |-> None]
    /\ taken = {} /\ notified = [p \in Pipe |-> 0]

Set(f, p, x) == [f EXCEPT ![p] = x]

Goto(t, place) == pc' = Set(pc, t, place) /\ UNCHANGED <<tgt, ret, held>>

-----------------------------------------------------------------------------
(* The handles.                                                            *)

\* nni_sleep_aio(.., &p->aio_timer); nni_aio_begin refuses a stopped handle.
Sleeping(p) == IF tstop[p] THEN timer[p] ELSE "armed"
Sleep(p) == timer' = Set(timer, p, Sleeping(p))

\* nni_aio_abort(&p->aio_timer, NNG_ECONNABORTED): the callback of a sleep, or
\* of one that is just over, gets that result; a handle at rest gets nothing.
Aborted(p) == IF timer[p] = "off" THEN "off" ELSE "kicked"

\* nni_aio_close and nni_aio_stop: the callback gets an error.
Stopped(p) == IF timer[p] = "armed" THEN "stopped" ELSE timer[p]
RecvFailed(p) == IF recv[p] = "pending" THEN "failed" ELSE recv[p]

\* nni_pipe_recv: on a closed stream it fails.
Receiving(p) == IF rstop[p] THEN "off" ELSE IF conn[p] THEN "pending" ELSE "failed"

\* The sleep ends; the callback will run.
TimerDue(p) ==
    /\ timer[p] = "armed"
    /\ timer' = Set(timer, p, "due")
    /\ UNCHANGED <<map_vars, core_vars, reap_vars, s_mx, nano_vars, recv, tstop, rstop,
                   conn, thr_vars, hist_vars>>

\* The client goes away.
PeerGone(p) ==
    /\ recv[p] = "pending" /\ conn[p]
    /\ recv' = Set(recv, p, "failed")
    /\ UNCHANGED <<map_vars, core_vars, reap_vars, s_mx, nano_vars, timer, tstop, rstop,
                   conn, thr_vars, hist_vars>>

\* nano_ctx_recv takes the message of a pipe on recvpipes and lets it receive.
nano_ctx_recv(p) ==
    /\ recv[p] = "parked"
    /\ recv' = Set(recv, p, Receiving(p))
    /\ UNCHANGED <<map_vars, core_vars, reap_vars, s_mx, nano_vars, timer, tstop, rstop,
                   conn, thr_vars, hist_vars>>

-----------------------------------------------------------------------------
(* nni_pipe_close(tgt[t]), called by thread t.                             *)

Close(t, p, back) ==
    /\ pc' = Set(pc, t, "swap") /\ tgt' = Set(tgt, t, p) /\ ret' = Set(ret, t, back)
    /\ UNCHANGED held

Return(t) ==
    /\ pc' = Set(pc, t, ret[t]) /\ tgt' = Set(tgt, t, None) /\ ret' = Set(ret, t, "idle")
    /\ UNCHANGED held

\* nni_atomic_swap_bool(&p->p_closed, true)
Mut_Swapped(p) == FALSE
Swapped(p) == p_closed[p]

CloseSwap(t) ==
    LET p == tgt[t] IN
    /\ pc[t] = "swap"
    /\ p_closed' = Set(p_closed, p, TRUE)
    /\ IF Swapped(p) THEN Return(t) ELSE Goto(t, "cached?")
    /\ UNCHANGED <<map_vars, p_ref, cache, reap_vars, s_mx, nano_vars, aio_vars, hist_vars>>

\* nano_pipe_close: a pipe that is kept is not closed again ...
CloseCached(t) ==
    /\ pc[t] = "cached?"
    /\ Goto(t, IF cache[tgt[t]] THEN "reopen" ELSE "close")
    /\ UNCHANGED <<map_vars, core_vars, reap_vars, s_mx, nano_vars, aio_vars, hist_vars>>

CloseAgain(t) ==
    /\ pc[t] = "reopen"
    /\ p_closed' = Set(p_closed, tgt[t], FALSE)
    /\ Goto(t, "kept")
    /\ UNCHANGED <<map_vars, p_ref, cache, reap_vars, s_mx, nano_vars, aio_vars, hist_vars>>

Unparked(p) == IF recv[p] = "parked" THEN "off" ELSE recv[p]

\* ... the pipe of a client that asked for a session is kept ...
Kept(p) == clean_start[p] = 0 /\ pipes # None

\* What keeping a pipe does to its clean start flag.
Mut_KeptFlag == 0
KeptFlag == 1

CloseKeep(t) ==
    LET p == tgt[t] IN
    /\ pc[t] = "close"
    /\ Kept(p)
    /\ cached_sessions' = p
    /\ event' = Set(event, p, FALSE)
    /\ cache' = Set(cache, p, TRUE)
    /\ clean_start' = Set(clean_start, p, KeptFlag)
    /\ p_closed' = Set(p_closed, p, FALSE)
    /\ recv' = Set(recv, p, Unparked(p))
    /\ Goto(t, "kept")
    /\ UNCHANGED <<pipes, s_pipes, p_ref, reap_vars, s_mx, closed, timer, tstop, rstop,
                   conn, hist_vars>>

\* close_pipe
Mut_Unmapped(p) == s_pipes
Unmapped(p) == IF s_pipes = p THEN None ELSE s_pipes

\* ... and any other pipe is given up, and its end exposed to the broker.
CloseGone(t) ==
    LET p == tgt[t]
        stop == clean_start[p] = 1
    IN /\ pc[t] = "close"
       /\ ~Kept(p)
       /\ tstop' = Set(tstop, p, tstop[p] \/ stop)
       /\ rstop' = Set(rstop, p, rstop[p] \/ stop)
       /\ timer' = Set(timer, p, IF stop THEN Stopped(p) ELSE timer[p])
       /\ recv' = Set(recv, p, IF stop /\ recv[p] = "pending" THEN "failed"
                               ELSE Unparked(p))
       /\ closed' = Set(closed, p, TRUE)
       /\ s_pipes' = Unmapped(p)
       /\ notified' = Set(notified, p, notified[p] + (IF event[p] THEN 1 ELSE 0))
       /\ Goto(t, "gone")
       /\ UNCHANGED <<pipes, cached_sessions, core_vars, reap_vars, s_mx, clean_start,
                      event, conn, taken>>

\* The transport closes the stream.  A kept pipe stays.
CloseTranKept(t) ==
    LET p == tgt[t] IN
    /\ pc[t] = "kept"
    /\ conn' = Set(conn, p, FALSE)
    /\ recv' = Set(recv, p, RecvFailed(p))
    /\ Return(t)
    /\ UNCHANGED <<map_vars, core_vars, reap_vars, s_mx, nano_vars, timer, tstop, rstop,
                   hist_vars>>

CloseTranGone(t) ==
    LET p == tgt[t] IN
    /\ pc[t] = "gone"
    /\ conn' = Set(conn, p, FALSE)
    /\ recv' = Set(recv, p, RecvFailed(p))
    /\ reaping' = reaping \union {p}
    /\ Return(t)
    /\ UNCHANGED <<map_vars, core_vars, victim, rpc, freed, s_mx, nano_vars, timer, tstop,
                   rstop, hist_vars>>

nni_pipe_close(t) ==
    \/ CloseSwap(t) \/ CloseCached(t) \/ CloseAgain(t) \/ CloseKeep(t) \/ CloseGone(t)
    \/ CloseTranKept(t) \/ CloseTranGone(t)

-----------------------------------------------------------------------------
(* nni_listener_add_pipe, by the thread that accepted the connection.      *)

\* What nni_pipe_set_pid does to the count of the older pipe.
Mut_Hold(n) == n
Hold(n) == n + 1

\* Under s_mx, pipe_create makes the pipe with one reference and
\* nni_pipe_set_pid registers it in the place of an older pipe of the client.
pipe_create(t) ==
    LET p == Owner(t)
        old == pipes
    IN /\ pc[t] = "none"
       /\ \A q \in 1..(p - 1) : pc[<<"acc", q>>] # "none"
       /\ s_mx = None
       /\ s_mx' = p
       /\ pipes' = p
       /\ p_ref' = [q \in Pipe |-> IF q = p THEN 1
                                   ELSE IF q = old THEN Hold(p_ref[q]) ELSE p_ref[q]]
       /\ \E c \in CleanStarts : clean_start' = Set(clean_start, p, c)
       /\ conn' = Set(conn, p, TRUE)
       /\ held' = Set(held, p, old)
       /\ pc' = Set(pc, t, IF old = None THEN "init" ELSE "kick")
       /\ UNCHANGED <<s_pipes, cached_sessions, p_closed, cache, reap_vars, event, closed,
                      timer, recv, tstop, rstop, tgt, ret, hist_vars>>

\* An older pipe that is not kept as a session is closed (a kept one too if
\* nni_id_set failed; it does for want of memory only, which is left out) ...
Kick(t) ==
    LET old == held[Owner(t)] IN
    /\ pc[t] = "kick"
    /\ IF cache[old] THEN Goto(t, "rele") ELSE Close(t, old, "rele")
    /\ UNCHANGED <<map_vars, core_vars, reap_vars, s_mx, nano_vars, aio_vars, hist_vars>>

\* nni_pipe_rele
Mut_Released(n) == n
Released(n) == n - 1

\* ... and released.
KickDone(t) ==
    LET p == Owner(t) IN
    /\ pc[t] = "rele"
    /\ p_ref' = Set(p_ref, held[p], Released(p_ref[held[p]]))
    /\ held' = Set(held, p, None)
    /\ pc' = Set(pc, t, "init")
    /\ UNCHANGED <<map_vars, p_closed, cache, reap_vars, s_mx, nano_vars, aio_vars, tgt, ret,
                   hist_vars>>

\* nano_pipe_init; the pipe is entered in the lists of the socket.
nano_pipe_init(t) ==
    LET p == Owner(t) IN
    /\ pc[t] = "init"
    /\ event' = Set(event, p, TRUE)
    /\ s_mx' = None
    /\ Goto(t, "added")
    /\ UNCHANGED <<map_vars, core_vars, reap_vars, clean_start, closed, aio_vars, hist_vars>>

Release(t) ==
    LET p == Owner(t) IN
    /\ p_ref' = Set(p_ref, p, Released(p_ref[p]))
    /\ Goto(t, "done")

\* The pipe may be closed already.
AddedClosed(t) ==
    /\ pc[t] = "added"
    /\ p_closed[Owner(t)]
    /\ Release(t)
    /\ UNCHANGED <<map_vars, p_closed, cache, reap_vars, s_mx, nano_vars, aio_vars, hist_vars>>

\* nano_pipe_start, up to its lock: the credentials are checked, which may
\* take a request to another server.
Authenticate(t) ==
    /\ pc[t] = "added"
    /\ ~p_closed[Owner(t)]
    /\ Goto(t, "start")
    /\ UNCHANGED <<map_vars, core_vars, reap_vars, s_mx, nano_vars, aio_vars, hist_vars>>

\* Meanwhile the pipe was closed or kept: its session gets a timer, unless
\* the client was refused.
StartClosed(t, ok) ==
    LET p == Owner(t) IN
    /\ pc[t] = "start"
    /\ p_closed[p] \/ cache[p]
    /\ IF ~cache[p] THEN UNCHANGED <<cached_sessions, cache, timer>>
       ELSE IF ok THEN Sleep(p) /\ UNCHANGED <<cached_sessions, cache>>
       ELSE /\ cached_sessions' = IF cached_sessions = p THEN None ELSE cached_sessions
            /\ cache' = Set(cache, p, FALSE)
            /\ UNCHANGED timer
    /\ Close(t, p, "drop")
    /\ UNCHANGED <<pipes, s_pipes, p_ref, p_closed, reap_vars, s_mx, nano_vars, recv, tstop,
                   rstop, conn, hist_vars>>

\* A refused client gets its CONNACK and is closed.
StartRefused(t) ==
    /\ pc[t] = "start"
    /\ ~p_closed[Owner(t)] /\ ~cache[Owner(t)]
    /\ pc' = Set(pc, t, "recv") /\ ret' = Set(ret, t, "refuse")
    /\ UNCHANGED <<map_vars, core_vars, reap_vars, s_mx, nano_vars, aio_vars, tgt, held,
                   hist_vars>>

\* Whether the end of the older pipe will be exposed.
Mut_OldEvent(resume) == TRUE
OldEvent(resume) == ~resume

\* The pipe takes over the client's session (clean_start 0), or ends it, and
\* the timer of the older pipe is aborted so that it closes that pipe.
nano_pipe_start(t) ==
    LET p == Owner(t)
        old == cached_sessions
        resume == clean_start[p] = 0 /\ old # None
    IN /\ pc[t] = "start"
       /\ ~p_closed[p] /\ ~cache[p]
       /\ cached_sessions' = None
       /\ s_pipes' = p
       /\ cache' = IF old = None THEN cache ELSE Set(cache, old, FALSE)
       /\ event' = [q \in Pipe |-> IF q = old THEN OldEvent(resume)
                                   ELSE IF q = p THEN event[q] /\ ~resume ELSE event[q]]
       /\ timer' = [q \in Pipe |-> IF q = p THEN Sleeping(p)
                                   ELSE IF q = old THEN Aborted(q) ELSE timer[q]]
       /\ taken' = IF resume THEN taken \union {old} ELSE taken
       /\ pc' = Set(pc, t, "recv") /\ ret' = Set(ret, t, "started")
       /\ UNCHANGED <<pipes, p_ref, p_closed, reap_vars, s_mx, clean_start, closed, recv,
                      tstop, rstop, conn, tgt, held, notified>>

\* The end of nano_pipe_start, after the CONNACK was given to the broker.
Started(t) ==
    /\ pc[t] = "started"
    /\ closed' = Set(closed, Owner(t), FALSE)
    /\ Release(t)
    /\ UNCHANGED <<map_vars, p_closed, cache, reap_vars, s_mx, clean_start, event, aio_vars,
                   hist_vars>>

Refuse(t) ==
    /\ pc[t] = "refuse"
    /\ closed' = Set(closed, Owner(t), FALSE)
    /\ Close(t, Owner(t), "drop")
    /\ UNCHANGED <<map_vars, core_vars, reap_vars, s_mx, clean_start, event, aio_vars,
                   hist_vars>>

Drop(t) ==
    /\ pc[t] = "drop"
    /\ Release(t)
    /\ UNCHANGED <<map_vars, p_closed, cache, reap_vars, s_mx, nano_vars, aio_vars, hist_vars>>

Accept(t) ==
    \/ Kick(t) \/ KickDone(t) \/ nano_pipe_init(t) \/ AddedClosed(t)
    \/ \E ok \in BOOLEAN : StartClosed(t, ok)
    \/ StartRefused(t) \/ nano_pipe_start(t) \/ Started(t) \/ Refuse(t) \/ Drop(t)

-----------------------------------------------------------------------------
(* nano_pipe_recv_cb, run by the callback of aio_recv and, with the        *)
(* CONNACK, by the thread that starts the pipe.                            *)

\* A message.
RecvMsg(t) ==
    LET p == Owner(t) IN
    /\ t[1] = "rcv" /\ pc[t] = "idle"
    /\ recv[p] = "pending" /\ conn[p]
    /\ recv' = Set(recv, p, "off")
    /\ Goto(t, "recv")
    /\ UNCHANGED <<map_vars, core_vars, reap_vars, s_mx, nano_vars, timer, tstop, rstop,
                   conn, hist_vars>>

\* An error closes the pipe.
RecvError(t) ==
    LET p == Owner(t) IN
    /\ t[1] = "rcv" /\ pc[t] = "idle"
    /\ recv[p] = "failed"
    /\ recv' = Set(recv, p, "off")
    /\ Close(t, p, "idle")
    /\ UNCHANGED <<map_vars, core_vars, reap_vars, s_mx, nano_vars, timer, tstop, rstop,
                   conn, hist_vars>>

\* Under the lock of the pipe.
RecvClosed(t) ==
    /\ pc[t] = "recv"
    /\ closed[Owner(t)]
    /\ Return(t)
    /\ UNCHANGED <<map_vars, core_vars, reap_vars, s_mx, nano_vars, aio_vars, hist_vars>>

RecvOpen(t) ==
    /\ pc[t] = "recv"
    /\ ~closed[Owner(t)]
    /\ Goto(t, "pass")
    /\ UNCHANGED <<map_vars, core_vars, reap_vars, s_mx, nano_vars, aio_vars, hist_vars>>

\* A DISCONNECT; a client of version 5 may give up its session with it.
RecvDisconnect(t) ==
    LET p == Owner(t) IN
    /\ pc[t] = "recv" /\ t[1] = "rcv"
    /\ ~closed[p]
    /\ \E c \in {clean_start[p], 1} : clean_start' = Set(clean_start, p, c)
    /\ Goto(t, "passlast")
    /\ UNCHANGED <<map_vars, core_vars, reap_vars, s_mx, event, closed, aio_vars, hist_vars>>

\* Under the lock of the socket: a context takes the message and the pipe
\* receives again, or closes after a DISCONNECT ...
RecvPass(t) ==
    LET p == Owner(t) IN
    /\ pc[t] = "pass"
    /\ recv' = Set(recv, p, Receiving(p))
    /\ Return(t)
    /\ UNCHANGED <<map_vars, core_vars, reap_vars, s_mx, nano_vars, timer, tstop, rstop,
                   conn, hist_vars>>

RecvPassLast(t) ==
    /\ pc[t] = "passlast"
    /\ Close(t, Owner(t), "idle")
    /\ UNCHANGED <<map_vars, core_vars, reap_vars, s_mx, nano_vars, aio_vars, hist_vars>>

\* ... or the pipe waits on recvpipes for a context.
RecvPark(t) ==
    LET p == Owner(t) IN
    /\ pc[t] \in {"pass", "passlast"}
    /\ recv' = Set(recv, p, "parked")
    /\ Return(t)
    /\ UNCHANGED <<map_vars, core_vars, reap_vars, s_mx, nano_vars, timer, tstop, rstop,
                   conn, hist_vars>>

nano_pipe_recv_cb(t) ==
    \/ RecvError(t) \/ RecvClosed(t) \/ RecvOpen(t) \/ RecvDisconnect(t)
    \/ RecvPass(t) \/ RecvPassLast(t) \/ RecvPark(t)

-----------------------------------------------------------------------------
(* nano_pipe_timer_cb.                                                     *)

\* The callback reads its result: an abort closes the pipe, another error
\* ends the timer.
TimerResult(t) ==
    LET p == Owner(t) IN
    /\ t[1] = "tmr" /\ pc[t] = "idle"
    /\ timer[p] \in {"due", "kicked", "stopped"}
    /\ timer' = Set(timer, p, "off")
    /\ CASE timer[p] = "due"     -> Goto(t, "kept?")
         [] timer[p] = "kicked"  -> Close(t, p, "idle")
         [] timer[p] = "stopped" -> UNCHANGED thr_vars
    /\ UNCHANGED <<map_vars, core_vars, reap_vars, s_mx, nano_vars, recv, tstop, rstop,
                   conn, hist_vars>>

TimerCached(t) ==
    /\ pc[t] = "kept?"
    /\ Goto(t, IF cache[Owner(t)] THEN "session" ELSE "alive")
    /\ UNCHANGED <<map_vars, core_vars, reap_vars, s_mx, nano_vars, aio_vars, hist_vars>>

\* The session of a kept pipe expires: the client's session, whichever pipe
\* keeps it, is dropped, and this pipe closed ...
TimerExpire(t) ==
    LET old == cached_sessions IN
    /\ pc[t] = "session"
    /\ cached_sessions' = None
    /\ event' = IF old = None THEN event ELSE Set(event, old, TRUE)
    /\ cache' = IF old = None THEN cache ELSE Set(cache, old, FALSE)
    /\ Close(t, Owner(t), "idle")
    /\ UNCHANGED <<pipes, s_pipes, p_ref, p_closed, reap_vars, s_mx, clean_start, closed,
                   aio_vars, hist_vars>>

\* ... or not yet.
TimerKeep(t) ==
    /\ pc[t] = "session"
    /\ Sleep(Owner(t))
    /\ Goto(t, "idle")
    /\ UNCHANGED <<map_vars, core_vars, reap_vars, s_mx, nano_vars, recv, tstop, rstop, conn,
                   hist_vars>>

\* A connected pipe: nothing if it is closed, else it is closed when the client
\* was silent for too long, else QoS messages are sent again and it goes on.
TimerClosed(t) ==
    /\ pc[t] = "alive"
    /\ closed[Owner(t)]
    /\ Goto(t, "idle")
    /\ UNCHANGED <<map_vars, core_vars, reap_vars, s_mx, nano_vars, aio_vars, hist_vars>>

TimerSilent(t) ==
    /\ pc[t] = "alive"
    /\ ~closed[Owner(t)]
    /\ Close(t, Owner(t), "idle")
    /\ UNCHANGED <<map_vars, core_vars, reap_vars, s_mx, nano_vars, aio_vars, hist_vars>>

TimerAlive(t) ==
    /\ pc[t] = "alive"
    /\ ~closed[Owner(t)]
    /\ Sleep(Owner(t))
    /\ Goto(t, "idle")
    /\ UNCHANGED <<map_vars, core_vars, reap_vars, s_mx, nano_vars, recv, tstop, rstop, conn,
                   hist_vars>>

nano_pipe_timer_cb(t) ==
    \/ TimerResult(t) \/ TimerCached(t) \/ TimerExpire(t) \/ TimerKeep(t)
    \/ TimerClosed(t) \/ TimerSilent(t) \/ TimerAlive(t)

-----------------------------------------------------------------------------
(* pipe_destroy, by the reaper.                                            *)

Quiet(t) == pc[t] \in {"none", "idle", "done"}

\* pipe_destroy tests cache and then takes the id map's lock.  Nobody sets the
\* cache of a pipe that is on the list (ReapedOnce), so the two are one step.
ReapNext(p) ==
    /\ rpc = "idle" /\ p \in reaping
    /\ reaping' = reaping \ {p}
    /\ IF cache[p] THEN UNCHANGED <<victim, rpc, pipes>>
       ELSE /\ victim' = p /\ rpc' = "drain"
            /\ pipes' = IF pipes = p THEN None ELSE pipes
    /\ UNCHANGED <<s_pipes, cached_sessions, core_vars, freed, s_mx, nano_vars, aio_vars,
                   thr_vars, hist_vars>>

\* It waits for the references ...
Mut_Drained(p) == TRUE
Drained(p) == p_ref[p] = 0

ReapDrain ==
    /\ rpc = "drain"
    /\ Drained(victim)
    /\ rpc' = "stop"
    /\ UNCHANGED <<map_vars, core_vars, reaping, victim, freed, s_mx, nano_vars, aio_vars,
                   thr_vars, hist_vars>>

\* ... stops the handles unless the pipe is kept, nano_pipe_stop, and waits for
\* their callbacks (the code waits for one before it stops the next; the pipe
\* is closed and has no references, so that nothing depends on the order) ...
ReapStop ==
    LET p == victim IN
    /\ rpc = "stop"
    /\ IF cache[p] THEN rpc' = "fini" /\ UNCHANGED <<tstop, rstop, timer, recv>>
       ELSE /\ tstop' = Set(tstop, p, TRUE) /\ rstop' = Set(rstop, p, TRUE)
            /\ timer' = Set(timer, p, Stopped(p))
            /\ recv' = Set(recv, p, RecvFailed(p))
            /\ rpc' = "wait"
    /\ UNCHANGED <<map_vars, core_vars, reaping, victim, freed, s_mx, nano_vars, conn,
                   thr_vars, hist_vars>>

Mut_Idle(p) == TRUE
Idle(p) == /\ timer[p] = "off" /\ recv[p] \in {"off", "parked"}
           /\ Quiet(<<"tmr", p>>) /\ Quiet(<<"rcv", p>>)

ReapWait ==
    /\ rpc = "wait"
    /\ Idle(victim)
    /\ rpc' = "fini"
    /\ UNCHANGED <<map_vars, core_vars, reaping, victim, freed, s_mx, nano_vars, aio_vars,
                   thr_vars, hist_vars>>

\* ... takes the pipe off the lists of the socket (nni_pipe_remove) and off
\* recvpipes (nano_pipe_fini, unless the pipe is kept), and frees it: nothing is
\* left of what it held.
ReapFini ==
    LET p == victim IN
    /\ rpc = "fini"
    /\ s_mx = None
    /\ freed' = Set(freed, p, TRUE)
    /\ p_closed' = Set(p_closed, p, FALSE) /\ cache' = Set(cache, p, FALSE)
    /\ clean_start' = Set(clean_start, p, 1)
    /\ event' = Set(event, p, FALSE) /\ closed' = Set(closed, p, FALSE)
    /\ recv' = Set(recv, p, IF cache[p] THEN recv[p] ELSE Unparked(p))
    /\ tstop' = Set(tstop, p, FALSE) /\ rstop' = Set(rstop, p, FALSE)
    /\ conn' = Set(conn, p, FALSE)
    /\ taken' = taken \ {p} /\ notified' = Set(notified, p, 0)
    /\ victim' = None /\ rpc' = "idle"
    /\ UNCHANGED <<map_vars, p_ref, reaping, s_mx, timer, thr_vars>>

Reap == (\E p \in Pipe : ReapNext(p)) \/ ReapDrain \/ ReapStop \/ ReapWait \/ ReapFini

-----------------------------------------------------------------------------

Proceed(t) == nni_pipe_close(t) \/ Accept(t) \/ nano_pipe_recv_cb(t)
              \/ nano_pipe_timer_cb(t)

\* What the client, the broker above and the time do.
Environment(t) ==
    \/ pipe_create(t) \/ Authenticate(t) \/ RecvMsg(t)

Next == \/ \E t \in Thread : Proceed(t) \/ Environment(t)
        \/ \E p \in Pipe : TimerDue(p) \/ PeerGone(p) \/ nano_ctx_recv(p)
        \/ Reap

Spec == Init /\ [][Next]_vars

\* Threads that can go on do so, and the authentication ends.  Nothing is
\* assumed of the client or of the broker's contexts.
Fairness == /\ \A t \in Thread : WF_vars(Proceed(t) \/ Authenticate(t))
            /\ WF_vars(Reap)

FairSpec == Spec /\ Fairness

-----------------------------------------------------------------------------

ClosePlaces == {"swap", "cached?", "reopen", "close", "kept", "gone"}
Places == ClosePlaces \union
          {"none", "kick", "rele", "init", "added", "start", "started", "refuse", "drop",
           "done", "idle", "recv", "pass", "passlast", "kept?", "session", "alive"}

\* Every variable has its type; p_ref never goes below zero.
TypeOK ==
    /\ {pipes, s_pipes, cached_sessions, victim, s_mx} \subseteq Pipe \union {None}
    /\ p_ref \in [Pipe -> Nat]
    /\ {p_closed, cache, freed, event, closed, tstop, rstop, conn} \subseteq [Pipe -> BOOLEAN]
    /\ reaping \subseteq Pipe
    /\ rpc \in {"idle", "drain", "stop", "wait", "fini"}
    /\ clean_start \in [Pipe -> {0, 1}]
    /\ timer \in [Pipe -> {"off", "armed", "due", "kicked", "stopped"}]
    /\ recv \in [Pipe -> {"off", "pending", "failed", "parked"}]
    /\ pc \in [Thread -> Places] /\ ret \in [Thread -> Places]
    /\ tgt \in [Thread -> Pipe \union {None}] /\ held \in [Pipe -> Pipe \union {None}]
    /\ taken \subseteq Pipe /\ notified \in [Pipe -> Nat]

\* The pipes a thread is about to touch.
Uses(t) == (IF Quiet(t) THEN {} ELSE {Owner(t)}) \union {tgt[t]}
           \union (IF t[1] = "acc" THEN {held[Owner(t)]} ELSE {})

\* No map, handle or thread refers to a pipe that the reaper has freed, though
\* a pipe may be closed by its own callbacks, by the thread that accepts a
\* newer connection and by a timer abort at once.
FreedUnused == \A p \in Pipe : freed[p] =>
    /\ p \notin {pipes, s_pipes, cached_sessions} \union reaping
    /\ timer[p] = "off" /\ recv[p] = "off"
    /\ \A t \in Thread : p \notin Uses(t)

\* A pipe goes through the reaper once, although keeping it as a session makes
\* it closable again: two entries in the reap list would free it twice, and a
\* kept pipe in the list would be taken off it and never freed.
ReapedOnce == \A p \in Pipe :
    /\ \A t, u \in Thread : (pc[t] = "gone" /\ pc[u] = "gone" /\ tgt[t] = p /\ tgt[u] = p)
                              => t = u
    /\ (\E t \in Thread : pc[t] = "gone" /\ tgt[t] = p) =>
          p \notin reaping /\ victim # p /\ ~freed[p]
    /\ p \in reaping => victim # p /\ ~freed[p] /\ ~cache[p]

\* The session that the next connection would take over is intact: the pipe
\* that keeps it is not being given up, and nobody has been told of its end.
SessionIntact == \A p \in Pipe : cached_sessions = p =>
    /\ cache[p] /\ ~event[p] /\ ~closed[p]
    /\ notified[p] = 0 /\ p \notin taken
    /\ \A t \in Thread : tgt[t] = p => pc[t] # "gone"

\* The broker is told of the end of a pipe at most once, and never of the end
\* of a pipe whose session goes on with another pipe.
EndsOnce == \A p \in Pipe : notified[p] <= 1 /\ (p \in taken => notified[p] = 0)

\* The reaper gets to the end of its list, which nni_reap_drain waits for: it
\* is one thread for all pipes, and it waits for the references and for the
\* callbacks of each of them, while those wait for locks.
ReapDrains == (reaping # {} \/ victim # None) ~> (reaping = {} /\ victim = None)

-----------------------------------------------------------------------------
(* What comments say, and the code does not do.                            *)

\* nano_pipe_close: "An Unknown pipe with session keeping shall never happen".
SessionTracked == \A t \in Thread :
    pc[t] = "close" /\ clean_start[tgt[t]] = 0 => pipes # None

\* pipe.c: "Kick out duplicated Client ID".  Messages for the client are never
\* again sent to a pipe that a newer connection has replaced.
KickedStaysOut == [][s_pipes' # None => s_pipes' >= s_pipes]_s_pipes

\* nano_pipe_timer_cb: "EXPIRED. close pipe & clean previous session".  The
\* timer of a started pipe goes on when the pipe is kept as the session, since
\* only its callback ends the session when it expires, and only an abort of
\* the timer closes the pipe when a newer one takes the session over.
SessionTimed == \A p \in Pipe :
    cached_sessions = p /\ s_pipes = p => timer[p] # "off" \/ ~Quiet(<<"tmr", p>>)
=============================================================================
