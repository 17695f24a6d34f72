-------------------------------- MODULE Aio --------------------------------
(***************************************************************************)
(* Asynchronous I/O handles (core/aio.c) with the task queue that runs     *)
(* their callbacks (core/taskq.c) and the thread that expires them.        *)
(*                                                                         *)
(* Five kinds of thread share the handles: the application's, which start, *)
(* abort, close, stop and free them; the providers', which complete them;  *)
(* the task threads, which run the callbacks; and the expiration thread.   *)
(* One action is one critical section: eq_mtx protects the handle and the  *)
(* expiration list, task_mtx the busy count, and the provider's mutex its  *)
(* own list.  A provider behaves like those of the library: it begins the  *)
(* handle, schedules it and lists it under its mutex, and whoever removes  *)
(* it from the list, the provider or the cancellation routine, finishes    *)
(* it.  The sleeping provider (nni_sleep_aio) uses a_sleep instead of a    *)
(* list.  A callback may start the next operation on its handle.           *)
(*                                                                         *)
(* Operators named Mut_ are faulty forms of the definition after them; no  *)
(* specification uses them.  They show that the properties can fail.       *)
(***************************************************************************)
EXTENDS Integers, FiniteSets

CONSTANTS Aio,        \* handles; all use one expiration queue
          App,        \* application threads
          Worker,     \* task queue threads
          Io,         \* provider threads
          Expire,     \* the expiration thread
          None,       \* no handle, no thread
          Timeouts,   \* relative timeouts, 0 included if NNG_DURATION_ZERO is
          Infinite,   \* NNG_DURATION_INFINITE
          SleepTimes, \* arguments of nni_sleep_aio
          NEVER,      \* NNI_TIME_NEVER: later than any deadline
          MaxTime,    \* bound on the clock
          MaxOps,     \* bound on the operations started on a handle
          NNI_EXPIRE_BATCH,  \* limit of the handles expired in one round
          StopFirst,  \* the application stops a handle before it frees it
          EarlyExit   \* nng_fini is called while handles still exist

Thread == App \union Worker \union Io \union {Expire}

ASSUME ThreadAssumption ==
    /\ IsFiniteSet(Thread)
    /\ Expire \notin App \union Worker \union Io
    /\ App \intersect Worker = {} /\ App \intersect Io = {} /\ Worker \intersect Io = {}
    /\ None \notin Aio /\ None \notin Thread

ASSUME TimeAssumption ==
    /\ MaxTime \in Nat /\ MaxOps \in Nat
    /\ Timeouts \subseteq Nat /\ SleepTimes \subseteq Nat
    /\ Infinite \notin Nat
    /\ NEVER \in Nat /\ MaxTime + 1 < NEVER
    /\ StopFirst \in BOOLEAN /\ EarlyExit \in BOOLEAN

ASSUME BatchAssumption == NNI_EXPIRE_BATCH \in Nat \ {0}

Results == {"ok", "ETIMEDOUT", "ECANCELED", "ECLOSED"}

VARIABLES
    a_result, a_cancel_fn, a_abort, a_stop, a_timeout,
    a_expire, a_sleep, a_expire_ok, a_expiring,
    task_busy, task_prep,
    tq_tasks,            \* tasks dispatched and not yet picked
    eq_list, eq_next, eq_exit,
    eq_held,             \* the expiration thread keeps eq_mtx between its steps
    eq_until,            \* the argument of its nni_cv_until; 0 once woken
    expires,             \* its batch
    exp_now,             \* the time it read at the top of the loop
    exp_op,              \* which operation of each handle it put in a batch
    now,                 \* nni_clock()
    prov_list,           \* handles listed by their provider (a_prov_node)
    prov_mtx,            \* the thread in the provider's critical section
    pc, cur, rv, ret,    \* per thread: place, handle, argument, return place
    cb,                  \* per thread: the handle whose callback it runs
    inuse,               \* from nni_aio_begin until the callback starts
    nops,                \* operations begun so far
    outcome,             \* what nni_aio_finish was told
    stopped,             \* nni_aio_stop has returned
    dying, freed         \* nni_aio_fini called, and returned

aio_vars   == <<a_result, a_cancel_fn, a_abort, a_stop, a_timeout,
                a_expire, a_sleep, a_expire_ok>>
task_vars  == <<task_busy, task_prep, tq_tasks>>
eq_vars    == <<eq_list, eq_next, eq_exit, eq_held, eq_until, expires, exp_now,
                exp_op, a_expiring>>
prov_vars  == <<prov_list, prov_mtx>>
thr_vars   == <<pc, cur, rv, ret, cb>>
user_vars  == <<inuse, nops, outcome, stopped, dying, freed>>
vars == <<aio_vars, task_vars, eq_vars, now, prov_vars, thr_vars, user_vars>>

-----------------------------------------------------------------------------

\* nni_aio_init for every handle, nni_aio_expire_q_alloc for the queue.
Init ==
    /\ a_result = [a \in Aio |-> "ok"]
    /\ a_cancel_fn = [a \in Aio |-> "none"]
    /\ a_abort = [a \in Aio |-> FALSE]
    /\ a_stop = [a \in Aio |-> FALSE]
    /\ a_timeout = [a \in Aio |-> Infinite]
    /\ a_expire = [a \in Aio |-> NEVER]
    /\ a_sleep = [a \in Aio |-> FALSE]
    /\ a_expire_ok = [a \in Aio |-> FALSE]
    /\ a_expiring = [a \in Aio |-> FALSE]
    /\ task_busy = [a \in Aio |-> 0]
    /\ task_prep = [a \in Aio |-> FALSE]
    /\ tq_tasks = {} /\ eq_list = {} /\ prov_list = {} /\ expires = {}
    /\ eq_next = NEVER /\ eq_until = 0 /\ eq_exit = FALSE /\ eq_held = FALSE
    /\ now = 0
    /\ prov_mtx = None
    /\ pc = [t \in Thread |-> IF t = Expire THEN "top" ELSE "idle"]
    /\ cur = [t \in Thread |-> None]
    /\ rv = [t \in Thread |-> "ok"]
    /\ ret = [t \in Thread |-> "idle"]
    /\ cb = [t \in Thread |-> None]
    /\ exp_now = 0 /\ exp_op = [a \in Aio |-> 0]
    /\ inuse = [a \in Aio |-> FALSE]
    /\ nops = [a \in Aio |-> 0]
    /\ outcome = [a \in Aio |-> "ok"]
    /\ stopped = [a \in Aio |-> FALSE]
    /\ dying = [a \in Aio |-> FALSE]
    /\ freed = [a \in Aio |-> FALSE]

Goto(t, place) == pc' = [pc EXCEPT ![t] = place]

\* A call returns to where it came from; at the end its locals are gone.
Return(t, place) ==
    /\ Goto(t, place)
    /\ IF place \in {"idle", "cb"}
       THEN /\ cur' = [cur EXCEPT ![t] = None]
            /\ rv' = [rv EXCEPT ![t] = "ok"]
            /\ ret' = [ret EXCEPT ![t] = "idle"]
       ELSE UNCHANGED <<cur, rv, ret>>

\* The user starts an operation outside any call or in the callback of the
\* handle, and only when it has no other one on it (nng_aio(5)).
CanStart(t, a) == /\ \/ t \in App /\ pc[t] = "idle" /\ ~dying[a] /\ ~eq_exit
                     \/ pc[t] = "cb" /\ cb[t] = a
                  /\ ~inuse[a]
                  /\ ~eq_held

\* nni_task_prep: one more share of task_busy.
Mut_PrepBusy(a) == 1
PrepBusy(a) == task_busy[a] + 1

\* nni_aio_begin on a stopped handle: no operation, no callback.
BeginStopped(t, a) ==
    /\ CanStart(t, a)
    /\ a_stop[a]
    /\ a_result' = [a_result EXCEPT ![a] = "ECANCELED"]
    /\ a_cancel_fn' = [a_cancel_fn EXCEPT ![a] = "none"]
    /\ a_abort' = [a_abort EXCEPT ![a] = FALSE]
    /\ a_expire' = [a_expire EXCEPT ![a] = NEVER]
    /\ a_sleep' = [a_sleep EXCEPT ![a] = FALSE]
    /\ a_expire_ok' = [a_expire_ok EXCEPT ![a] = FALSE]
    /\ UNCHANGED <<a_stop, a_timeout, task_vars, eq_vars, now, prov_vars,
                   thr_vars, user_vars>>

\* nni_aio_set_timeout and nni_aio_begin; the task is prepared in the same
\* critical section.  next is where the provider goes on.
Begin(t, a, timeout, next) ==
    /\ CanStart(t, a)
    /\ ~a_stop[a]
    /\ nops[a] < MaxOps
    /\ a_timeout' = [a_timeout EXCEPT ![a] = timeout]
    /\ a_result' = [a_result EXCEPT ![a] = "ok"]
    /\ a_cancel_fn' = [a_cancel_fn EXCEPT ![a] = "none"]
    /\ a_abort' = [a_abort EXCEPT ![a] = FALSE]
    /\ task_busy' = [task_busy EXCEPT ![a] = PrepBusy(a)]
    /\ task_prep' = [task_prep EXCEPT ![a] = TRUE]
    /\ Goto(t, next)
    /\ cur' = [cur EXCEPT ![t] = a]
    /\ ret' = [ret EXCEPT ![t] = pc[t]]
    /\ inuse' = [inuse EXCEPT ![a] = TRUE]
    /\ nops' = [nops EXCEPT ![a] = @ + 1]
    /\ UNCHANGED <<a_stop, a_expire, a_sleep, a_expire_ok, tq_tasks, eq_vars, now,
                   prov_vars, rv, cb, outcome, stopped, dying, freed>>

-----------------------------------------------------------------------------
(* nni_aio_schedule.  Its critical section refuses an aborted or stopped   *)
(* handle, and otherwise installs the cancellation routine and lists the   *)
(* handle for expiration.                                                  *)

\* nni_clock() + d; a time the bounded clock cannot pass is one value.
After(d) == IF now + d < MaxTime THEN now + d ELSE MaxTime + 1

\* The absolute time of the expiration; a sleep has already set it.  So has
\* nni_aio_set_expire, which only survey0 and the application's nng_aio_set_expire
\* call; it is left out.
Deadline(a) == IF a_sleep[a] THEN a_expire[a]
               ELSE IF a_timeout[a] = Infinite THEN NEVER
               ELSE After(a_timeout[a])

\* What nni_aio_schedule returns.
Mut_ScheduleResult(a) ==
    IF ~a_sleep[a] /\ a_timeout[a] = 0 THEN "ETIMEDOUT"
    ELSE IF a_abort[a] THEN a_result[a]
    ELSE "ok"
ScheduleResult(a) ==
    IF ~a_sleep[a] /\ a_timeout[a] = 0 THEN "ETIMEDOUT"
    ELSE IF a_abort[a] THEN a_result[a]
    ELSE IF a_stop[a] THEN "ECLOSED"
    ELSE "ok"

\* A deadline earlier than all others wakes the expiration thread.
Mut_nni_aio_expire_add(a, expire) ==
    /\ eq_list' = eq_list \union {a}
    /\ eq_next' = IF eq_next > expire THEN expire ELSE eq_next
    /\ UNCHANGED eq_until
nni_aio_expire_add(a, expire) ==
    /\ eq_list' = eq_list \union {a}
    /\ IF eq_next > expire
       THEN eq_next' = expire /\ eq_until' = 0
       ELSE UNCHANGED <<eq_next, eq_until>>

Schedule(a, fn) ==
    /\ ~eq_held
    /\ ScheduleResult(a) = "ok"
    /\ a_cancel_fn' = [a_cancel_fn EXCEPT ![a] = fn]
    /\ a_expire' = [a_expire EXCEPT ![a] = Deadline(a)]
    /\ IF Deadline(a) # NEVER THEN nni_aio_expire_add(a, Deadline(a))
                              ELSE UNCHANGED <<eq_list, eq_next, eq_until>>
    /\ UNCHANGED <<a_result, a_abort, a_stop, a_timeout, a_sleep, a_expire_ok,
                   a_expiring, eq_exit, eq_held, expires, exp_now, exp_op>>

\* The failure is reported with nni_aio_finish_error.
ScheduleFails(t, a) ==
    /\ ~eq_held
    /\ ScheduleResult(a) # "ok"
    /\ a_expire' = [a_expire EXCEPT ![a] =
                      IF a_timeout[a] = 0 /\ ~a_sleep[a] THEN @ ELSE Deadline(a)]
    /\ rv' = [rv EXCEPT ![t] = ScheduleResult(a)]
    /\ Goto(t, "finish")
    /\ UNCHANGED <<a_result, a_cancel_fn, a_abort, a_stop, a_timeout, a_sleep,
                   a_expire_ok, eq_vars, cur, ret>>

\* A provider that keeps a list takes its mutex, schedules and lists the
\* handle ...
ProvStart(t) ==
    LET a == cur[t] IN
    /\ pc[t] = "sched"
    /\ prov_mtx = None
    /\ Schedule(a, "prov")
    /\ prov_list' = prov_list \union {a}
    /\ Return(t, ret[t])
    /\ UNCHANGED <<task_vars, now, prov_mtx, cb, user_vars>>

\* ... or, on an error, finishes the handle still holding the mutex.
ProvRefused(t) ==
    /\ pc[t] = "sched"
    /\ prov_mtx = None
    /\ ScheduleFails(t, cur[t])
    /\ prov_mtx' = t
    /\ UNCHANGED <<task_vars, now, prov_list, cb, user_vars>>

\* A provider that can serve the operation at once finishes it without a
\* schedule, under its mutex too.
ProvAtOnce(t) ==
    /\ pc[t] = "sched"
    /\ prov_mtx = None
    /\ prov_mtx' = t
    /\ rv' = [rv EXCEPT ![t] = "ok"]
    /\ Goto(t, "finish")
    /\ UNCHANGED <<aio_vars, task_vars, eq_vars, now, prov_list, cur, ret, cb, user_vars>>

\* nni_sleep_aio: its stores are made outside the lock, before the schedule.
SleepSet(t) ==
    LET a == cur[t] IN
    /\ pc[t] = "sleepset"
    /\ \E ms \in SleepTimes :
         LET short == a_timeout[a] # Infinite /\ ms > a_timeout[a]
             dur   == IF short THEN a_timeout[a] ELSE ms
         IN /\ a_expire_ok' = [a_expire_ok EXCEPT ![a] = ~short]
            /\ a_expire' = [a_expire EXCEPT ![a] = After(dur)]
    /\ a_sleep' = [a_sleep EXCEPT ![a] = TRUE]
    /\ Goto(t, "ssched")
    /\ UNCHANGED <<a_result, a_cancel_fn, a_abort, a_stop, a_timeout, task_vars,
                   eq_vars, now, prov_vars, cur, rv, ret, cb, user_vars>>

SleepStart(t) ==
    /\ pc[t] = "ssched"
    /\ Schedule(cur[t], "sleep")
    /\ Return(t, ret[t])
    /\ UNCHANGED <<task_vars, now, prov_vars, cb, user_vars>>

SleepRefused(t) ==
    /\ pc[t] = "ssched"
    /\ ScheduleFails(t, cur[t])
    /\ UNCHANGED <<task_vars, now, prov_vars, cb, user_vars>>

-----------------------------------------------------------------------------
(* Cancellation.  The caller takes a_cancel_fn under eq_mtx, so that no    *)
(* one else calls it, and calls it without the lock; then it goes on at    *)
(* back.  Without a routine it goes on at none.                            *)

\* nni_aio_expire_rm.
Mut_nni_aio_expire_rm(a) == eq_list
nni_aio_expire_rm(a) == eq_list \ {a}

TakeFn(t, a, err, none, back, stop, abort) ==
    /\ ~eq_held
    /\ eq_list' = nni_aio_expire_rm(a)
    /\ a_cancel_fn' = [a_cancel_fn EXCEPT ![a] = "none"]
    /\ a_stop' = IF stop THEN [a_stop EXCEPT ![a] = TRUE] ELSE a_stop
    /\ IF a_cancel_fn[a] = "none" /\ none = "idle"
       THEN UNCHANGED <<pc, cur, rv, ret>>
       ELSE /\ Goto(t, CASE a_cancel_fn[a] = "prov"  -> "pcancel"
                         [] a_cancel_fn[a] = "sleep" -> "scancel"
                         [] OTHER                    -> none)
            /\ cur' = [cur EXCEPT ![t] = a]
            /\ rv' = [rv EXCEPT ![t] = err]
            /\ ret' = [ret EXCEPT ![t] = back]
    /\ a_abort' = [a_abort EXCEPT ![a] = @ \/ (abort /\ a_cancel_fn[a] = "none")]
    /\ a_result' = [a_result EXCEPT ![a] =
                      IF abort /\ a_cancel_fn[a] = "none" THEN err ELSE @]
    /\ UNCHANGED <<a_timeout, a_expire, a_sleep, a_expire_ok, task_vars, eq_next,
                   eq_exit, eq_held, eq_until, expires, exp_now, exp_op, a_expiring, now,
                   prov_vars, cb>>

\* A control call of the application on a handle it has not freed.
Control(t, a) == t \in App /\ pc[t] = "idle" /\ ~dying[a] /\ ~eq_exit

nni_aio_abort(t, a) ==
    /\ Control(t, a)
    /\ TakeFn(t, a, "ECANCELED", "idle", "idle", FALSE, TRUE)
    /\ UNCHANGED user_vars

nni_aio_close(t, a) ==
    /\ Control(t, a)
    /\ TakeFn(t, a, "ECLOSED", "idle", "idle", TRUE, FALSE)
    /\ UNCHANGED user_vars

\* nni_aio_stop goes on to nni_aio_wait.
Mut_nni_aio_stop(t, a) ==
    /\ Control(t, a)
    /\ TakeFn(t, a, "ECANCELED", "wait", "wait", FALSE, FALSE)
    /\ UNCHANGED user_vars
nni_aio_stop(t, a) ==
    /\ Control(t, a)
    /\ TakeFn(t, a, "ECANCELED", "wait", "wait", TRUE, FALSE)
    /\ UNCHANGED user_vars

\* nni_task_wait, in nni_aio_stop.
nni_task_wait(t) ==
    /\ pc[t] = "wait"
    /\ task_busy[cur[t]] = 0
    /\ Return(t, "idle")
    /\ stopped' = [stopped EXCEPT ![cur[t]] = TRUE]
    /\ UNCHANGED <<aio_vars, task_vars, eq_vars, now, prov_vars, cb, inuse, nops,
                   outcome, dying, freed>>

\* nni_aio_list_active.
Mut_nni_aio_list_active(a) == TRUE
nni_aio_list_active(a) == a \in prov_list

\* The cancellation routine of a provider with a list: under its mutex, and
\* only if the handle is still listed, it finishes the handle.
ProvCancel(t) ==
    LET a == cur[t] IN
    /\ pc[t] = "pcancel"
    /\ prov_mtx = None
    /\ nni_aio_list_active(a)
    /\ prov_list' = prov_list \ {a}
    /\ prov_mtx' = t
    /\ Goto(t, "finish")
    /\ UNCHANGED <<aio_vars, task_vars, eq_vars, now, cur, rv, ret, cb, user_vars>>

ProvCancelLate(t) ==
    /\ pc[t] = "pcancel"
    /\ prov_mtx = None
    /\ ~nni_aio_list_active(cur[t])
    /\ Return(t, ret[t])
    /\ UNCHANGED <<aio_vars, task_vars, eq_vars, now, prov_vars, cb, user_vars>>

nni_sleep_cancel(t) ==
    LET a == cur[t] IN
    /\ pc[t] = "scancel"
    /\ ~eq_held
    /\ IF a_sleep[a]
       THEN /\ a_sleep' = [a_sleep EXCEPT ![a] = FALSE]
            /\ eq_list' = nni_aio_expire_rm(a)
            /\ Goto(t, "finish")
            /\ UNCHANGED <<cur, rv, ret>>
       ELSE Return(t, ret[t]) /\ UNCHANGED <<a_sleep, eq_list>>
    /\ UNCHANGED <<a_result, a_cancel_fn, a_abort, a_stop, a_timeout, a_expire,
                   a_expire_ok, task_vars, eq_next, eq_exit, eq_held, eq_until,
                   expires, exp_now, exp_op, a_expiring, now, prov_vars, cb, user_vars>>

-----------------------------------------------------------------------------
(* Completion.                                                             *)

\* A provider thread finds the handle on its list and completes it, with
\* nni_aio_finish under its mutex (as tcp_dowrite does) ...
Complete(t, a) ==
    /\ t \in Io /\ pc[t] = "idle"
    /\ prov_mtx = None
    /\ a \in prov_list
    /\ prov_list' = prov_list \ {a}
    /\ prov_mtx' = t
    /\ Goto(t, "finish")
    /\ cur' = [cur EXCEPT ![t] = a]
    /\ rv' = [rv EXCEPT ![t] = "ok"]
    /\ ret' = [ret EXCEPT ![t] = "idle"]
    /\ UNCHANGED <<aio_vars, task_vars, eq_vars, now, cb, user_vars>>

\* ... or with nni_aio_finish_sync after it has released it (push0_pipe_ready).
CompleteSync(t, a) ==
    /\ t \in Io /\ pc[t] = "idle"
    /\ prov_mtx = None
    /\ a \in prov_list
    /\ prov_list' = prov_list \ {a}
    /\ Goto(t, "finish")
    /\ cur' = [cur EXCEPT ![t] = a]
    /\ rv' = [rv EXCEPT ![t] = "ok"]
    /\ ret' = [ret EXCEPT ![t] = "exec"]
    /\ UNCHANGED <<aio_vars, task_vars, eq_vars, now, prov_mtx, cb, user_vars>>

\* The critical section of nni_aio_finish_impl.
nni_aio_finish_impl(t) ==
    LET a == cur[t] IN
    /\ pc[t] = "finish"
    /\ ~eq_held
    /\ eq_list' = nni_aio_expire_rm(a)
    /\ a_result' = [a_result EXCEPT ![a] = rv[t]]
    /\ a_cancel_fn' = [a_cancel_fn EXCEPT ![a] = "none"]
    /\ a_expire' = [a_expire EXCEPT ![a] = NEVER]
    /\ a_sleep' = [a_sleep EXCEPT ![a] = FALSE]
    /\ outcome' = [outcome EXCEPT ![a] = rv[t]]
    /\ Goto(t, IF ret[t] = "exec" THEN "exec" ELSE "dispatch")
    /\ UNCHANGED <<a_abort, a_stop, a_timeout, a_expire_ok, task_vars, eq_next,
                   eq_exit, eq_held, eq_until, expires, exp_now, exp_op, a_expiring, now, prov_vars,
                   cur, rv, ret, cb, inuse, nops, stopped, dying, freed>>

\* The first critical section of nni_task_dispatch and of nni_task_exec.
Unprep(a) ==
    /\ task_prep' = [task_prep EXCEPT ![a] = FALSE]
    /\ task_busy' = [task_busy EXCEPT ![a] = IF task_prep[a] THEN @ ELSE @ + 1]

\* nni_task_dispatch, after which the provider releases its mutex.
nni_task_dispatch(t) ==
    LET a == cur[t] IN
    /\ pc[t] = "dispatch"
    /\ Unprep(a)
    /\ tq_tasks' = tq_tasks \union {a}
    /\ prov_mtx' = IF prov_mtx = t THEN None ELSE prov_mtx
    /\ Return(t, ret[t])
    /\ UNCHANGED <<aio_vars, eq_vars, now, prov_list, cb, user_vars>>

\* nni_task_exec runs the callback on the provider's thread.
nni_task_exec(t) ==
    LET a == cur[t] IN
    /\ pc[t] = "exec"
    /\ Unprep(a)
    /\ Return(t, "cb")
    /\ cb' = [cb EXCEPT ![t] = a]
    /\ inuse' = [inuse EXCEPT ![a] = FALSE]
    /\ UNCHANGED <<aio_vars, tq_tasks, eq_vars, now, prov_vars, nops, outcome, stopped, dying, freed>>

\* nni_taskq_thread takes a task and calls its callback.
RunTask(t, a) ==
    /\ t \in Worker /\ pc[t] = "idle"
    /\ a \in tq_tasks
    /\ tq_tasks' = tq_tasks \ {a}
    /\ Goto(t, "cb")
    /\ cb' = [cb EXCEPT ![t] = a]
    /\ inuse' = [inuse EXCEPT ![a] = FALSE]
    /\ UNCHANGED <<aio_vars, task_busy, task_prep, eq_vars, now, prov_vars, cur, rv,
                   ret, nops, outcome, stopped, dying, freed>>

\* The callback returns, and the thread drops its share of task_busy.
CallbackReturns(t) ==
    /\ pc[t] = "cb"
    /\ task_busy' = [task_busy EXCEPT ![cb[t]] = @ - 1]
    /\ Goto(t, "idle")
    /\ cb' = [cb EXCEPT ![t] = None]
    /\ UNCHANGED <<aio_vars, task_prep, tq_tasks, eq_vars, now, prov_vars, cur, rv,
                   ret, user_vars>>

-----------------------------------------------------------------------------
(* nni_aio_fini: like close, but it first waits until the handle is not    *)
(* being expired, it drops a prepared task that nobody can cancel, and it  *)
(* waits for the task at the end.                                          *)

\* Nobody else in the application is inside a call on the handle.
Alone(t, a) == \A u \in App \ {t} : cur[u] # a

\* The wait on eq_cv while the handle is in a batch.
Mut_MustWait(a) == FALSE
MustWait(a) == a_expiring[a]

FiniTake(t, a) == /\ ~MustWait(a)
                  /\ TakeFn(t, a, "ECLOSED", "fabort", "ffini", TRUE, FALSE)

\* The application frees a handle, after it has stopped it if StopFirst.
Free(t, a) == /\ Control(t, a)
              /\ Alone(t, a)
              /\ StopFirst => stopped[a]
              /\ dying' = [dying EXCEPT ![a] = TRUE]

Fini(t, a) ==
    /\ Free(t, a)
    /\ FiniTake(t, a)
    /\ UNCHANGED <<inuse, nops, outcome, stopped, freed>>

FiniWaits(t, a) ==
    /\ Free(t, a)
    /\ ~eq_held
    /\ MustWait(a)
    /\ a_stop' = [a_stop EXCEPT ![a] = TRUE]
    /\ Goto(t, "fwait")
    /\ cur' = [cur EXCEPT ![t] = a]
    /\ UNCHANGED <<a_result, a_cancel_fn, a_abort, a_timeout, a_expire, a_sleep,
                   a_expire_ok, task_vars, eq_vars, now, prov_vars, rv, ret, cb,
                   inuse, nops, outcome, stopped, freed>>

\* The wait on eq_cv ends.
FiniWoken(t) ==
    /\ pc[t] = "fwait"
    /\ FiniTake(t, cur[t])
    /\ UNCHANGED user_vars

\* Only a prepared task still has its share of task_busy.
Mut_AbortBusy(a) == task_busy[a] - 1
AbortBusy(a) == IF task_prep[a] THEN task_busy[a] - 1 ELSE task_busy[a]

nni_task_abort(t) ==
    LET a == cur[t] IN
    /\ pc[t] = "fabort"
    /\ task_prep' = [task_prep EXCEPT ![a] = FALSE]
    /\ task_busy' = [task_busy EXCEPT ![a] = AbortBusy(a)]
    /\ Goto(t, "ffini")
    /\ UNCHANGED <<aio_vars, tq_tasks, eq_vars, now, prov_vars, cur, rv, ret, cb, user_vars>>

nni_task_fini(t) ==
    /\ pc[t] = "ffini"
    /\ task_busy[cur[t]] = 0
    /\ freed' = [freed EXCEPT ![cur[t]] = TRUE]
    /\ Return(t, "idle")
    /\ UNCHANGED <<aio_vars, task_vars, eq_vars, now, prov_vars, cb, inuse, nops,
                   outcome, stopped, dying>>

-----------------------------------------------------------------------------
(* nni_aio_expire_loop.  The thread keeps eq_mtx from the top of the loop  *)
(* to the next call of a cancellation routine or to the next wait.         *)

Expired == {a \in eq_list : a_expire[a] < now}

\* The earliest deadline of S, or NNI_TIME_NEVER (the set of that one value).
Earliest(S) == {e \in {a_expire[a] : a \in S} \union {NEVER} :
                  \A a \in S : e <= a_expire[a]}

\* Nothing is due yet: nni_cv_until releases the mutex and waits.
ExpireEarly ==
    /\ pc[Expire] = "top"
    /\ ~(eq_list = {} /\ eq_exit)
    /\ now < eq_next
    /\ eq_until' = eq_next
    /\ eq_held' = FALSE
    /\ Goto(Expire, "sleep")
    /\ UNCHANGED <<aio_vars, task_vars, eq_list, eq_next, eq_exit, expires, exp_now,
                   exp_op, a_expiring, now, prov_vars, cur, rv, ret, cb, user_vars>>

\* What a scan may take: all that is overdue, or as much of it as a batch
\* holds.  (The code takes the handles that were listed first.)
Batches == {b \in SUBSET Expired : b = Expired \/ Cardinality(b) = NNI_EXPIRE_BATCH}

\* The handles that stay on the list and set eq_next: overdue ones too, for
\* which a batch had no place.
Rest(batch) == eq_list \ batch

\* The list is scanned: a batch of what is overdue leaves it and is marked,
\* so that it is not destroyed; the rest sets eq_next.
ExpireScan == \E batch \in Batches :
    /\ pc[Expire] = "top"
    /\ ~(eq_list = {} /\ eq_exit)
    /\ now >= eq_next
    /\ expires' = batch
    /\ eq_list' = eq_list \ batch
    /\ a_expiring' = [a \in Aio |-> a_expiring[a] \/ a \in batch]
    /\ eq_next' \in Earliest(Rest(batch))
    /\ eq_held' = TRUE
    /\ Goto(Expire, "item")
    /\ exp_now' = now
    /\ exp_op' = [a \in Aio |-> IF a \in batch THEN nops[a] ELSE exp_op[a]]
    /\ UNCHANGED <<aio_vars, task_vars, eq_exit, eq_until, now, prov_vars, cur, rv,
                   ret, cb, user_vars>>

\* The next handle of the batch: its routine is taken and called without the
\* lock, or there is none and the mark is removed.
ExpireItem(a) ==
    /\ pc[Expire] = "item"
    /\ a \in expires
    /\ a_cancel_fn' = [a_cancel_fn EXCEPT ![a] = "none"]
    /\ IF a_cancel_fn[a] = "none"
       THEN /\ a_expiring' = [a_expiring EXCEPT ![a] = FALSE]
            /\ expires' = expires \ {a}
            /\ exp_op' = [exp_op EXCEPT ![a] = 0]
            /\ UNCHANGED <<eq_held, pc, cur, rv, ret>>
       ELSE /\ cur' = [cur EXCEPT ![Expire] = a]
            /\ rv' = [rv EXCEPT ![Expire] =
                        IF a_expire_ok[a] THEN "ok" ELSE "ETIMEDOUT"]
            /\ ret' = [ret EXCEPT ![Expire] = "expired"]
            /\ eq_held' = FALSE
            /\ Goto(Expire, IF a_cancel_fn[a] = "prov" THEN "pcancel" ELSE "scancel")
            /\ UNCHANGED <<a_expiring, expires, exp_op>>
    /\ UNCHANGED <<a_result, a_abort, a_stop, a_timeout, a_expire, a_sleep,
                   a_expire_ok, task_vars, eq_list, eq_next, eq_exit, eq_until,
                   exp_now, now, prov_vars, cb, user_vars>>

\* Back from the routine, with the lock.
ExpireItemDone ==
    /\ pc[Expire] = "expired"
    /\ a_expiring' = [a_expiring EXCEPT ![cur[Expire]] = FALSE]
    /\ expires' = expires \ {cur[Expire]}
    /\ exp_op' = [exp_op EXCEPT ![cur[Expire]] = 0]
    /\ eq_held' = TRUE
    /\ Goto(Expire, "item")
    /\ cur' = [cur EXCEPT ![Expire] = None]
    /\ rv' = [rv EXCEPT ![Expire] = "ok"]
    /\ ret' = [ret EXCEPT ![Expire] = "idle"]
    /\ UNCHANGED <<aio_vars, task_vars, eq_list, eq_next, eq_exit, eq_until, exp_now,
                   now, prov_vars, cb, user_vars>>

\* The end of the batch wakes the waiters of nni_aio_fini; the thread waits
\* for the next deadline or, if that has come, keeps the lock and goes round.
ExpireBatchEnd ==
    /\ pc[Expire] = "item"
    /\ expires = {}
    /\ exp_now' = 0
    /\ IF exp_now < eq_next
       THEN eq_until' = eq_next /\ eq_held' = FALSE /\ Goto(Expire, "sleep")
       ELSE Goto(Expire, "top") /\ UNCHANGED <<eq_until, eq_held>>
    /\ UNCHANGED <<aio_vars, task_vars, eq_list, eq_next, eq_exit, expires,
                   exp_op, a_expiring, now, prov_vars, cur, rv, ret, cb, user_vars>>

\* nni_cv_until returns at its time or when nni_cv_wake has set eq_until to 0.
ExpireWake ==
    /\ pc[Expire] = "sleep"
    /\ now >= eq_until
    /\ eq_until' = 0
    /\ Goto(Expire, "top")
    /\ UNCHANGED <<aio_vars, task_vars, eq_list, eq_next, eq_exit, eq_held, expires,
                   exp_now, exp_op, a_expiring, now, prov_vars, cur, rv, ret, cb,
                   user_vars>>

ExpireExit ==
    /\ pc[Expire] = "top"
    /\ eq_list = {} /\ eq_exit
    /\ eq_held' = FALSE
    /\ Goto(Expire, "exit")
    /\ UNCHANGED <<aio_vars, task_vars, eq_list, eq_next, eq_exit, eq_until, expires,
                   exp_now, exp_op, a_expiring, now, prov_vars, cur, rv, ret, cb,
                   user_vars>>

\* nni_cv_wake on the expiration thread.
Mut_WakeUntil == eq_until
WakeUntil == 0

\* nni_aio_expire_q_free: eq_exit is set and the thread woken, then joined.
\* nng_fini may not run concurrently with other calls of the application.
nni_aio_expire_q_free ==
    /\ ~eq_exit /\ ~eq_held
    /\ \A t \in App : pc[t] = "idle"
    /\ EarlyExit \/ \A a \in Aio : freed[a]
    /\ eq_exit' = TRUE
    /\ eq_until' = WakeUntil
    /\ UNCHANGED <<aio_vars, task_vars, eq_list, eq_next, eq_held, expires, exp_now,
                   exp_op, a_expiring, now, prov_vars, thr_vars, user_vars>>

Tick == /\ now < MaxTime
        /\ now' = now + 1
        /\ UNCHANGED <<aio_vars, task_vars, eq_vars, prov_vars, thr_vars, user_vars>>

-----------------------------------------------------------------------------

\* What a thread does on its own once a call has started.
Proceed(t) ==
    \/ ProvStart(t) \/ ProvRefused(t) \/ ProvAtOnce(t)
    \/ SleepSet(t) \/ SleepStart(t) \/ SleepRefused(t)
    \/ ProvCancel(t) \/ ProvCancelLate(t) \/ nni_sleep_cancel(t)
    \/ nni_aio_finish_impl(t) \/ nni_task_dispatch(t) \/ nni_task_exec(t)
    \/ CallbackReturns(t)
    \/ nni_task_wait(t) \/ FiniWoken(t) \/ nni_task_abort(t) \/ nni_task_fini(t)

ExpireLoop == ExpireEarly \/ ExpireScan \/ (\E a \in Aio : ExpireItem(a))
              \/ ExpireItemDone \/ ExpireBatchEnd \/ ExpireWake \/ ExpireExit

Work(t) == \E a \in Aio : RunTask(t, a)

\* What the application, its callbacks and the network may do.
Environment(t, a) ==
    \/ \E d \in Timeouts \union {Infinite} :
         \/ Begin(t, a, d, "sched")
         \/ SleepTimes # {} /\ Begin(t, a, d, "sleepset")
    \/ BeginStopped(t, a)
    \/ nni_aio_abort(t, a) \/ nni_aio_close(t, a) \/ nni_aio_stop(t, a)
    \/ Fini(t, a) \/ FiniWaits(t, a)
    \/ Complete(t, a) \/ CompleteSync(t, a)

Next == \/ \E t \in Thread : Proceed(t) \/ Work(t) \/ \E a \in Aio : Environment(t, a)
        \/ ExpireLoop \/ nni_aio_expire_q_free \/ Tick

Spec == Init /\ [][Next]_vars

\* Threads that can go on do so, task threads take tasks, time passes.
\* Nothing is assumed of the application or of the network.
Fairness == /\ \A t \in Thread : WF_vars(Proceed(t)) /\ WF_vars(Work(t))
            /\ WF_vars(ExpireLoop) /\ WF_vars(Tick)

FairSpec == Spec /\ Fairness

-----------------------------------------------------------------------------

Places == {"idle", "sched", "sleepset", "ssched", "pcancel", "scancel", "finish",
           "dispatch", "exec", "cb", "wait", "fwait", "fabort", "ffini",
           "top", "sleep", "item", "expired", "exit"}

HandleTypes ==
    /\ a_result \in [Aio -> Results]
    /\ a_cancel_fn \in [Aio -> {"none", "prov", "sleep"}]
    /\ a_abort \in [Aio -> BOOLEAN] /\ a_stop \in [Aio -> BOOLEAN]
    /\ a_timeout \in [Aio -> Timeouts \union {Infinite}]
    /\ a_expire \in [Aio -> Nat]
    /\ a_sleep \in [Aio -> BOOLEAN] /\ a_expire_ok \in [Aio -> BOOLEAN]

TaskTypes ==
    /\ task_busy \in [Aio -> Nat] /\ task_prep \in [Aio -> BOOLEAN]
    /\ tq_tasks \subseteq Aio

QueueTypes ==
    /\ eq_list \subseteq Aio /\ expires \subseteq Aio /\ prov_list \subseteq Aio
    /\ eq_next \in Nat /\ eq_until \in Nat /\ now \in Nat /\ exp_now \in Nat
    /\ eq_exit \in BOOLEAN /\ eq_held \in BOOLEAN
    /\ a_expiring \in [Aio -> BOOLEAN] /\ exp_op \in [Aio -> Nat]
    /\ prov_mtx \in Thread \union {None}

ThreadTypes ==
    /\ pc \in [Thread -> Places] /\ ret \in [Thread -> Places]
    /\ cur \in [Thread -> Aio \union {None}] /\ cb \in [Thread -> Aio \union {None}]
    /\ rv \in [Thread -> Results]

UserTypes ==
    /\ inuse \in [Aio -> BOOLEAN] /\ nops \in [Aio -> Nat]
    /\ outcome \in [Aio -> Results]
    /\ stopped \in [Aio -> BOOLEAN] /\ dying \in [Aio -> BOOLEAN]
    /\ freed \in [Aio -> BOOLEAN]

\* Every variable has its type; task_busy, which is unsigned in the code, never
\* goes below zero.
TypeOK == HandleTypes /\ TaskTypes /\ QueueTypes /\ ThreadTypes /\ UserTypes

\* The threads running the callback of a.
Runners(a) == {t \in Thread : cb[t] = a}

\* The threads that begin or complete an operation on a.
Carriers(a) == {t \in Thread : cur[t] = a /\
                  pc[t] \in {"sched", "sleepset", "ssched", "finish", "dispatch", "exec"}}

One(b) == IF b THEN 1 ELSE 0

\* task_busy, which nni_aio_wait, nni_aio_stop and nni_aio_fini trust, counts
\* exactly the prepared task, the queued task and the running callbacks,
\* although begin, dispatch, exec, abort and the task threads each adjust it
\* in a critical section of their own.
BusyCount == \A a \in Aio :
    task_busy[a] = Cardinality(Runners(a)) + One(task_prep[a]) + One(a \in tq_tasks)

\* A sleeping handle that is armed: no thread carries it.
Asleep(a) == a_sleep[a] /\ Carriers(a) = {}

\* An operation is at one place at a time, with one thread, on the provider's
\* list, asleep, or in the task queue, and a handle without one is nowhere:
\* whoever races to complete it, provider, abort, stop or expiration, it is
\* completed once, and its task is never queued twice (nni_list_append would
\* panic).
OnePlace == \A a \in Aio :
    Cardinality(Carriers(a)) + One(a \in prov_list) + One(Asleep(a)) + One(a \in tq_tasks)
      = One(inuse[a])

\* Once nni_aio_stop has returned, no operation is pending on the handle and
\* no callback runs or will run.
StopQuiet == \A a \in Aio :
    stopped[a] => /\ task_busy[a] = 0 /\ ~inuse[a]
                  /\ Runners(a) = {} /\ a \notin tq_tasks

\* Nothing refers to a handle once nni_aio_fini has returned, the expiration
\* thread and the lists included.
FreedUnused == \A a \in Aio :
    freed[a] => /\ a \notin eq_list \union expires \union prov_list \union tq_tasks
                /\ ~a_expiring[a]
                /\ Runners(a) = {}
                /\ \A t \in Thread : cur[t] # a

\* The expiration thread never sleeps past a deadline: a sleeping thread will
\* look at the list no later than the earliest deadline on it.
NoOversleep == pc[Expire] = "sleep" => \A a \in eq_list : eq_until <= a_expire[a]

\* No deadline outlives its operation: what is listed for expiration is still
\* in progress, so that a scan never expires a handle at rest or a later
\* operation through the entry of an earlier one.
NoStaleDeadline == \A a \in eq_list : inuse[a] /\ a \notin tq_tasks

\* A handle whose deadline passes gets its callback.
DeadlineMet == \A a \in Aio : \A n \in 1..MaxOps :
    (nops[a] = n /\ a \in eq_list /\ a_expire[a] < MaxTime)
        ~> (~inuse[a] \/ nops[a] > n)

\* nni_aio_stop and nni_aio_fini return, whatever the provider does.
StopReturns == \A t \in App : pc[t] \in {"wait", "fwait", "ffini"} ~> pc[t] = "idle"

\* The expiration thread, which nng_fini joins, ends once it is told to,
\* unless it first waits for a deadline the bounded clock cannot reach.
ExitDone == eq_exit ~> (pc[Expire] = "exit" \/ eq_next = MaxTime + 1)

-----------------------------------------------------------------------------
(* What comments and manual pages say, and the code does not do.           *)

\* nng_aio_abort(3): on a finished operation, abort "has no effect".
FinishedKeepsResult == \A a \in Aio : a \in tq_tasks => a_result[a] = outcome[a]

\* nng.h on the cancellation routine: its error "will not be zero".
CancelNotZero == \A t \in Thread : pc[t] = "pcancel" => rv[t] # "ok"

\* aio.c: "We will not permit an AIO to be marked done if an expiration is
\* outstanding": the operation an expiration ends is the one that expired.
ExpiresOwnOperation ==
    pc[Expire] = "finish" => exp_op[cur[Expire]] = nops[cur[Expire]]
=============================================================================
