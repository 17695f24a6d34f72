----------------------------- MODULE AioProofs -----------------------------
(***************************************************************************)
(* Proofs of the safety invariants of Aio, for any number of handles,      *)
(* threads and operations.                                                 *)
(*                                                                         *)
(* None of them is inductive alone.  Inv adds what the code relies on      *)
(* without saying so: which places a thread can be at with which return    *)
(* place (Locals), that whoever carries an operation has taken it off the  *)
(* provider's list (Owned), that a handle is off the expiration list       *)
(* before it is begun, queued or run (Unlisted), and what nni_aio_stop     *)
(* and nni_aio_fini may count on (Stopping, Freeing).                      *)
(***************************************************************************)
EXTENDS Aio, FiniteSetTheorems, TLAPS

StartPlaces == {"sched", "sleepset", "ssched"}
CancelPlaces == {"pcancel", "scancel"}
FiniPlaces == {"fwait", "fabort", "ffini"}
LoopPlaces == {"top", "sleep", "item", "exit"}
CarryPlaces == StartPlaces \union {"finish", "dispatch", "exec"}
CallPlaces == CarryPlaces \union CancelPlaces \union FiniPlaces \union {"wait", "expired"}

\* Where a thread is, and where it will return to.
Locals == \A t \in Thread :
    /\ pc[t] \in CallPlaces <=> cur[t] \in Aio
    /\ cb[t] \in Aio <=> pc[t] = "cb" \/ ret[t] = "cb"
    /\ pc[t] \in LoopPlaces \union {"idle", "cb", "fwait"} => ret[t] = "idle"
    /\ pc[t] \in StartPlaces => ret[t] \in {"idle", "cb"}
    /\ pc[t] \in CancelPlaces => ret[t] \in {"idle", "wait", "ffini", "expired"}
    /\ pc[t] = "finish" => ret[t] \in {"idle", "cb", "wait", "ffini", "expired", "exec"}
    /\ pc[t] = "dispatch" => ret[t] \in {"idle", "cb", "wait", "ffini", "expired"}
    /\ pc[t] = "exec" => ret[t] = "exec"
    /\ pc[t] = "wait" => ret[t] = "wait"
    /\ pc[t] \in {"fabort", "ffini"} => ret[t] = "ffini"
    /\ pc[t] = "expired" => ret[t] = "expired"
    /\ pc[t] \in FiniPlaces \/ ret[t] \in {"wait", "ffini"} => t \in App
    /\ t \in Worker \union Io => pc[t] \in CarryPlaces \union {"idle", "cb"}
    /\ t = Expire <=> pc[t] \in LoopPlaces \/ ret[t] = "expired"

\* Whoever starts or completes an operation is alone with it, and has taken
\* it off the lists; a sleep is ended by the one thread that has its routine.
Carried ==
    /\ \A t, u \in Thread :
         /\ pc[t] \in CarryPlaces \union {"scancel"}
         /\ pc[u] \in CarryPlaces \union {"scancel"}
         /\ cur[t] = cur[u]
         => t = u
    /\ \A t \in Thread : pc[t] \in CarryPlaces =>
         inuse[cur[t]] /\ cur[t] \notin prov_list /\ cur[t] \notin tq_tasks
    /\ \A t \in Thread : pc[t] \in {"sched", "sleepset", "dispatch", "exec"} =>
         ~a_sleep[cur[t]]
    /\ \A t \in Thread : pc[t] \in {"ssched", "scancel"} => a_sleep[cur[t]]

\* Otherwise an operation is on the provider's list, in the task queue or
\* asleep, and only one of them.
Owned ==
    /\ \A a \in prov_list : inuse[a] /\ a \notin tq_tasks /\ ~a_sleep[a]
    /\ \A a \in tq_tasks : inuse[a] /\ ~a_sleep[a]
    /\ \A a \in Aio : a_sleep[a] => inuse[a]
    /\ \A a \in Aio : a_cancel_fn[a] = "sleep" =>
         a_sleep[a] /\ \A t \in Thread : pc[t] \in CarryPlaces \union {"scancel"} => cur[t] # a
    /\ \A a \in Aio : task_prep[a] => inuse[a] /\ a \notin tq_tasks
    /\ \A a \in Aio : inuse[a] =>
         \/ a \in prov_list \union tq_tasks \/ a_sleep[a]
         \/ \E t \in Thread : pc[t] \in CarryPlaces /\ cur[t] = a

\* Nothing that starts, is queued or runs has an entry on the expiration
\* list, and eq_next and the wait cover the entries there are.
Unlisted ==
    /\ \A a \in eq_list : inuse[a] /\ a \notin tq_tasks
    /\ \A t \in Thread : pc[t] \in CarryPlaces \ {"finish"} => cur[t] \notin eq_list
    /\ \A a \in eq_list : eq_next <= a_expire[a]
    /\ pc[Expire] = "sleep" => eq_until <= eq_next

\* Until it is freed, an operation that is not queued has its prepared task,
\* so that a waiter sees it; a waiter has stopped the handle.
Stopping ==
    /\ \A a \in Aio : inuse[a] /\ ~dying[a] /\ a \notin tq_tasks => task_prep[a]
    /\ \A t \in Thread : pc[t] = "wait" \/ ret[t] = "wait" =>
         a_stop[cur[t]] /\ ~dying[cur[t]]
    /\ \A a \in Aio : stopped[a] => a_stop[a] /\ ~inuse[a] /\ \A t \in Thread : cb[t] # a
    /\ \A t \in Thread : pc[t] \in FiniPlaces \/ ret[t] = "ffini" => dying[cur[t]]

\* A handle is freed by one thread, once it is stopped and not in a batch.
Freeing ==
    /\ \A a \in Aio : dying[a] => a_stop[a] /\ stopped[a]
    /\ \A t, u \in App : cur[t] \in Aio /\ cur[u] = cur[t] /\ dying[cur[t]] => t = u
    /\ \A t \in Thread : ret[t] = "ffini" => ~a_expiring[cur[t]]
    /\ \A a \in Aio : freed[a] => /\ dying[a] /\ ~a_expiring[a]
                                  /\ \A t \in App : cur[t] # a
    /\ \A a \in Aio : a_expiring[a] => a \in expires
    /\ pc[Expire] \in {"top", "sleep", "exit"} => expires = {}
    /\ cur[Expire] \in Aio => cur[Expire] \in expires /\ a_expiring[cur[Expire]]
    /\ \A a \in expires : a_expiring[a]

Inv == /\ TypeOK /\ Locals /\ Carried /\ Owned /\ BusyCount /\ Unlisted /\ Stopping
       /\ (StopFirst => Freeing)

-----------------------------------------------------------------------------
(* What the pieces of an action do, free of their case distinctions.       *)

\* Thread t goes to place, in a call on handle h that returns to back.
Moved(t, place, h, back) == /\ pc' = [pc EXCEPT ![t] = place]
                            /\ cur' = [cur EXCEPT ![t] = h]
                            /\ ret' = [ret EXCEPT ![t] = back]

\* A call that returns to idle or to a callback leaves nothing behind; the
\* others go on with their handle.
LEMMA ReturnEffect ==
    ASSUME TypeOK, NEW t \in Thread, NEW place \in Places, Return(t, place)
    PROVE  /\ \/ place \in {"idle", "cb"} /\ Moved(t, place, None, "idle")
              \/ place \notin {"idle", "cb"} /\ Moved(t, place, cur[t], ret[t])
           /\ rv' \in [Thread -> Results]
BY DEF Return, Goto, Moved, TypeOK, ThreadTypes, Results

\* Results and deadlines have their types.
LEMMA ScheduleTypes ==
    ASSUME TypeOK, NEW a \in Aio
    PROVE  ScheduleResult(a) \in Results /\ Deadline(a) \in Nat
<1>1. a_timeout[a] # Infinite => a_timeout[a] \in Nat
  BY TimeAssumption DEF TypeOK, HandleTypes
<1>2. Deadline(a) \in Nat
  BY <1>1, TimeAssumption DEF TypeOK, HandleTypes, QueueTypes, Deadline, After
<1>3. ScheduleResult(a) \in Results
  BY DEF TypeOK, HandleTypes, ScheduleResult, Results
<1> QED
  BY <1>2, <1>3

\* The handle a gets the routine fn and the deadline e; if it is listed, eq_next
\* and the wait of the expiration thread are moved before e.
Armed(a, fn, e) ==
    /\ a_cancel_fn' = [a_cancel_fn EXCEPT ![a] = fn]
    /\ a_expire' = [a_expire EXCEPT ![a] = e]
    /\ eq_list' \subseteq eq_list \union {a}
    /\ eq_next' \in Nat /\ eq_until' \in Nat
    /\ eq_next' <= eq_next
    /\ a \in eq_list' \ eq_list => eq_next' <= e
    /\ eq_until <= eq_next => eq_until' <= eq_next'
    /\ UNCHANGED <<a_result, a_abort, a_stop, a_timeout, a_sleep, a_expire_ok,
                   a_expiring, eq_exit, eq_held, expires, exp_now, exp_op>>

LEMMA ScheduleEffect ==
    ASSUME TypeOK, NEW a \in Aio, NEW fn \in {"prov", "sleep"}, Schedule(a, fn)
    PROVE  \E e \in Nat : Armed(a, fn, e)
<1> SUFFICES Armed(a, fn, Deadline(a))
  BY ScheduleTypes
<1>1. Deadline(a) \in Nat /\ eq_next \in Nat /\ eq_until \in Nat
  BY ScheduleTypes DEF TypeOK, QueueTypes
<1>2. CASE Deadline(a) = NEVER
  BY <1>1, <1>2 DEF Schedule, Armed
<1>3. CASE Deadline(a) # NEVER /\ eq_next > Deadline(a)
  BY <1>1, <1>3 DEF Schedule, nni_aio_expire_add, Armed
<1>4. CASE Deadline(a) # NEVER /\ ~(eq_next > Deadline(a))
  BY <1>1, <1>4 DEF Schedule, nni_aio_expire_add, Armed
<1> QED
  BY <1>2, <1>3, <1>4

\* A refused schedule only sends its thread to nni_aio_finish_error.
LEMMA ScheduleFailsEffect ==
    ASSUME TypeOK, NEW t \in Thread, cur[t] \in Aio, ScheduleFails(t, cur[t])
    PROVE  /\ Moved(t, "finish", cur[t], ret[t])
           /\ rv' \in [Thread -> Results]
           /\ \E e \in Nat : a_expire' = [a_expire EXCEPT ![cur[t]] = e]
           /\ UNCHANGED <<a_result, a_cancel_fn, a_abort, a_stop, a_timeout, a_sleep,
                           a_expire_ok, eq_vars>>
<1>1. ScheduleResult(cur[t]) \in Results /\ Deadline(cur[t]) \in Nat
  BY ScheduleTypes
<1>2. rv' \in [Thread -> Results]
  BY <1>1 DEF ScheduleFails, TypeOK, ThreadTypes
<1>3. Moved(t, "finish", cur[t], ret[t])
  BY DEF ScheduleFails, Goto, Moved, TypeOK, ThreadTypes
<1>4. \E e \in Nat : a_expire' = [a_expire EXCEPT ![cur[t]] = e]
  <2>1. CASE a_timeout[cur[t]] = 0 /\ ~a_sleep[cur[t]]
    <3>1. a_expire[cur[t]] \in Nat
      BY DEF TypeOK, HandleTypes
    <3>2. a_expire' = [a_expire EXCEPT ![cur[t]] = a_expire[cur[t]]]
      BY <2>1 DEF ScheduleFails
    <3> QED
      BY <3>1, <3>2
  <2>2. CASE ~(a_timeout[cur[t]] = 0 /\ ~a_sleep[cur[t]])
    BY <2>2, <1>1 DEF ScheduleFails
  <2> QED
    BY <2>1, <2>2
<1> QED
  BY <1>2, <1>3, <1>4 DEF ScheduleFails

\* The thread has taken the routine of a and calls it, or goes on at none.
Took(t, a, none, back, stop) ==
    /\ \/ a_cancel_fn[a] = "none" /\ none = "idle" /\ UNCHANGED <<pc, cur, ret>>
       \/ a_cancel_fn[a] = "none" /\ none # "idle" /\ Moved(t, none, a, back)
       \/ a_cancel_fn[a] = "prov" /\ Moved(t, "pcancel", a, back)
       \/ a_cancel_fn[a] = "sleep" /\ Moved(t, "scancel", a, back)
    /\ rv' \in [Thread -> Results]
    /\ eq_list' = eq_list \ {a}
    /\ a_cancel_fn' = [a_cancel_fn EXCEPT ![a] = "none"]
    /\ a_stop' = IF stop THEN [a_stop EXCEPT ![a] = TRUE] ELSE a_stop
    /\ a_abort' \in [Aio -> BOOLEAN] /\ a_result' \in [Aio -> Results]
    /\ UNCHANGED <<a_timeout, a_expire, a_sleep, a_expire_ok, task_vars, eq_next,
                   eq_exit, eq_held, eq_until, expires, exp_now, exp_op,
                   a_expiring, now, prov_vars, cb>>

LEMMA TakeFnEffect ==
    ASSUME TypeOK, NEW t \in Thread, NEW a \in Aio, NEW err \in Results,
           NEW none \in {"idle", "wait", "fabort"}, NEW back \in Places,
           NEW stop \in BOOLEAN, NEW abort \in BOOLEAN,
           TakeFn(t, a, err, none, back, stop, abort)
    PROVE  Took(t, a, none, back, stop)
<1>1. rv' \in [Thread -> Results]
  BY DEF TakeFn, TypeOK, ThreadTypes
<1>2. a_result' \in [Aio -> Results]
  BY DEF TakeFn, TypeOK, HandleTypes
<1>3. a_abort' \in [Aio -> BOOLEAN]
  <2>1. a_abort[a] \/ (abort /\ a_cancel_fn[a] = "none") \in BOOLEAN
    OBVIOUS
  <2> QED
    BY <2>1 DEF TakeFn, TypeOK, HandleTypes
<1>4. a_cancel_fn[a] \in {"none", "prov", "sleep"}
  BY DEF TypeOK, HandleTypes
<1>5. a_stop' = IF stop THEN [a_stop EXCEPT ![a] = TRUE] ELSE a_stop
  BY DEF TakeFn
<1>6. CASE a_cancel_fn[a] = "none" /\ none = "idle"
  BY <1>1, <1>2, <1>3, <1>5, <1>6 DEF TakeFn, Took, nni_aio_expire_rm
<1>7. CASE a_cancel_fn[a] = "none" /\ none # "idle"
  BY <1>1, <1>2, <1>3, <1>5, <1>7 DEF TakeFn, Took, nni_aio_expire_rm, Moved, Goto
<1>8. CASE a_cancel_fn[a] = "prov"
  BY <1>1, <1>2, <1>3, <1>5, <1>8 DEF TakeFn, Took, nni_aio_expire_rm, Moved, Goto
<1>9. CASE a_cancel_fn[a] = "sleep"
  BY <1>1, <1>2, <1>3, <1>5, <1>9 DEF TakeFn, Took, nni_aio_expire_rm, Moved, Goto
<1> QED
  BY <1>4, <1>6, <1>7, <1>8, <1>9

\* What each of the four callers of TakeFn does.
LEMMA CancelEffect ==
    ASSUME TypeOK, NEW t \in Thread, NEW a \in Aio
    PROVE  /\ nni_aio_abort(t, a) => Took(t, a, "idle", "idle", FALSE)
           /\ nni_aio_close(t, a) => Took(t, a, "idle", "idle", TRUE)
           /\ nni_aio_stop(t, a) => Took(t, a, "wait", "wait", TRUE)
           /\ FiniTake(t, a) => Took(t, a, "fabort", "ffini", TRUE)
BY TakeFnEffect DEF nni_aio_abort, nni_aio_close, nni_aio_stop, FiniTake, Results, Places

\* The stores of nni_sleep_aio.
LEMMA SleepEffect ==
    ASSUME TypeOK, NEW t \in Thread, cur[t] \in Aio, SleepSet(t)
    PROVE  \E ok \in BOOLEAN, e \in Nat :
             /\ a_expire_ok' = [a_expire_ok EXCEPT ![cur[t]] = ok]
             /\ a_expire' = [a_expire EXCEPT ![cur[t]] = e]
<1> DEFINE a == cur[t]
<1>1. PICK ms \in SleepTimes :
        LET short == a_timeout[a] # Infinite /\ ms > a_timeout[a]
            dur   == IF short THEN a_timeout[a] ELSE ms
        IN /\ a_expire_ok' = [a_expire_ok EXCEPT ![a] = ~short]
           /\ a_expire' = [a_expire EXCEPT ![a] = After(dur)]
  BY DEF SleepSet
<1> DEFINE short == a_timeout[a] # Infinite /\ ms > a_timeout[a]
           dur   == IF short THEN a_timeout[a] ELSE ms
<1>2. dur \in Nat
  BY TimeAssumption DEF TypeOK, HandleTypes
<1>3. After(dur) \in Nat
  BY <1>2, TimeAssumption DEF TypeOK, QueueTypes, After
<1>4. (~short) \in BOOLEAN
  OBVIOUS
<1> QED
  BY <1>1, <1>3, <1>4

\* A thread that is elsewhere still has its locals.
LEMMA MovedTypes ==
    ASSUME TypeOK, NEW t \in Thread, NEW place \in Places, NEW h \in Aio \union {None},
           NEW back \in Places, Moved(t, place, h, back),
           rv' \in [Thread -> Results], UNCHANGED cb
    PROVE  ThreadTypes'
BY DEF Moved, TypeOK, ThreadTypes

\* The busy count covers each of its shares.
LEMMA BusyShares ==
    ASSUME Inv, NEW a \in Aio
    PROVE  /\ task_busy[a] \in Nat
           /\ task_busy[a] = 0 =>
                ~task_prep[a] /\ a \notin tq_tasks /\ \A t \in Thread : cb[t] # a
<1>1. IsFiniteSet(Runners(a))
  BY ThreadAssumption, FS_Subset DEF Runners
<1>2. Cardinality(Runners(a)) \in Nat /\ (Cardinality(Runners(a)) = 0 => Runners(a) = {})
  BY <1>1, FS_CardinalityType, FS_EmptySet
<1>3. task_busy[a] = Cardinality(Runners(a)) + One(task_prep[a]) + One(a \in tq_tasks)
  BY DEF Inv, BusyCount
<1>4. task_busy[a] \in Nat
  BY DEF Inv, TypeOK, TaskTypes
<1>5. ASSUME task_busy[a] = 0
      PROVE  Runners(a) = {} /\ ~task_prep[a] /\ a \notin tq_tasks
  BY <1>2, <1>3, <1>5 DEF One
<1> QED
  BY <1>4, <1>5 DEF Runners

\* Where the threads are after t has moved.
LEMMA MovedAt ==
    ASSUME TypeOK, NEW t \in Thread, NEW place, NEW h, NEW back, Moved(t, place, h, back)
    PROVE  /\ pc'[t] = place /\ cur'[t] = h /\ ret'[t] = back
           /\ \A u \in Thread \ {t} : pc'[u] = pc[u] /\ cur'[u] = cur[u] /\ ret'[u] = ret[u]
BY DEF Moved, TypeOK, ThreadTypes

-----------------------------------------------------------------------------
(* Steps that only move a thread among the places where nothing is carried *)
(* disturb neither Carried nor Owned.                                      *)

Idles(p) == p \notin CarryPlaces \union {"scancel"}

LEMMA IdleMove ==
    ASSUME Inv, NEW t \in Thread, Idles(pc[t]), Idles(pc'[t]),
           \A u \in Thread \ {t} : pc'[u] = pc[u] /\ cur'[u] = cur[u],
           UNCHANGED <<inuse, prov_list, tq_tasks, a_sleep, task_prep>>,
           \A a \in Aio : a_cancel_fn'[a] = "sleep" => a_cancel_fn[a] = "sleep"
    PROVE  Carried' /\ Owned'
<1>1. \A u \in Thread : pc'[u] \in CarryPlaces \union {"scancel"} =>
         u # t /\ pc'[u] = pc[u] /\ cur'[u] = cur[u]
  BY DEF Idles
<1>2. \A u \in Thread : pc[u] \in CarryPlaces => u # t
  BY DEF Idles
<1>3. Carried'
  BY <1>1 DEF Inv, Carried, CarryPlaces, StartPlaces
<1>4. ASSUME NEW a \in Aio, inuse[a]
      PROVE  \/ a \in prov_list \union tq_tasks \/ a_sleep[a]
             \/ \E u \in Thread : pc'[u] \in CarryPlaces /\ cur'[u] = a
  BY <1>2, <1>4 DEF Inv, Owned
<1>5. Owned'
  BY <1>1, <1>4 DEF Inv, Owned, CarryPlaces
<1> QED
  BY <1>3, <1>5

\* So does the thread that takes the routine of a sleep, whoever it is.
LEMMA SleepTaken ==
    ASSUME Inv, NEW t \in Thread, NEW a \in Aio, Idles(pc[t]),
           a_cancel_fn[a] = "sleep", a_cancel_fn'[a] = "none",
           pc'[t] = "scancel", cur'[t] = a,
           \A u \in Thread \ {t} : pc'[u] = pc[u] /\ cur'[u] = cur[u],
           UNCHANGED <<inuse, prov_list, tq_tasks, a_sleep, task_prep>>,
           \A b \in Aio \ {a} : a_cancel_fn'[b] = a_cancel_fn[b]
    PROVE  Carried' /\ Owned'
<1>1. a_sleep[a] /\ \A u \in Thread : pc[u] \in CarryPlaces \union {"scancel"} => cur[u] # a
  BY DEF Inv, Owned
<1>2. \A u \in Thread : pc[u] \in CarryPlaces => u # t
  BY DEF Idles
<1>3. Carried'
  BY <1>1 DEF Inv, Carried, CarryPlaces, StartPlaces
<1>4. ASSUME NEW b \in Aio, inuse[b]
      PROVE  \/ b \in prov_list \union tq_tasks \/ a_sleep[b]
             \/ \E u \in Thread : pc'[u] \in CarryPlaces /\ cur'[u] = b
  BY <1>2, <1>4 DEF Inv, Owned
<1>5. \A b \in Aio : a_cancel_fn'[b] = "sleep" =>
         a_sleep[b] /\ \A u \in Thread : pc'[u] \in CarryPlaces \union {"scancel"} => cur'[u] # b
  BY <1>1 DEF Inv, Owned
<1>6. Owned'
  BY <1>4, <1>5 DEF Inv, Owned
<1> QED
  BY <1>3, <1>6

LEMMA TookCarried ==
    ASSUME Inv, NEW t \in Thread, NEW a \in Aio, NEW none \in {"idle", "wait", "fabort"},
           NEW back, NEW stop, Took(t, a, none, back, stop), Idles(pc[t]), UNCHANGED inuse
    PROVE  Carried' /\ Owned'
<1> USE DEF Inv
<1>1. /\ UNCHANGED <<inuse, prov_list, tq_tasks, a_sleep, task_prep>>
      /\ a_cancel_fn'[a] = "none" /\ \A b \in Aio \ {a} : a_cancel_fn'[b] = a_cancel_fn[b]
  BY DEF Took, task_vars, prov_vars, TypeOK, HandleTypes
<1>2. CASE UNCHANGED <<pc, cur, ret>>
  BY <1>1, <1>2, IdleMove
<1>3. CASE none # "idle" /\ Moved(t, none, a, back)
  BY <1>1, <1>3, MovedAt, IdleMove DEF Idles, CarryPlaces, StartPlaces
<1>4. CASE Moved(t, "pcancel", a, back)
  BY <1>1, <1>4, MovedAt, IdleMove DEF Idles, CarryPlaces, StartPlaces
<1>5. CASE a_cancel_fn[a] = "sleep" /\ Moved(t, "scancel", a, back)
  BY <1>1, <1>5, MovedAt, SleepTaken
<1> QED
  BY <1>2, <1>3, <1>4, <1>5 DEF Took

\* The thread that has taken the routine of a is in a call on a or where it
\* was; the other threads have not moved.
LEMMA TookAt ==
    ASSUME TypeOK, NEW t \in Thread, NEW a \in Aio, NEW none, NEW back, NEW stop,
           Took(t, a, none, back, stop)
    PROVE  /\ \A u \in Thread \ {t} : pc'[u] = pc[u] /\ cur'[u] = cur[u] /\ ret'[u] = ret[u]
           /\ \/ pc'[t] = pc[t] /\ cur'[t] = cur[t] /\ ret'[t] = ret[t]
              \/ /\ cur'[t] = a /\ ret'[t] = back
                 /\ pc'[t] \in {"pcancel", "scancel"} \/ (pc'[t] = none /\ none # "idle")
<1>1. CASE UNCHANGED <<pc, cur, ret>>
  BY <1>1
<1>2. CASE none # "idle" /\ Moved(t, none, a, back)
  BY <1>2, MovedAt
<1>3. CASE Moved(t, "pcancel", a, back)
  BY <1>3, MovedAt
<1>4. CASE Moved(t, "scancel", a, back)
  BY <1>4, MovedAt
<1> QED
  BY <1>1, <1>2, <1>3, <1>4 DEF Took

LEMMA TookStopping ==
    ASSUME Inv, NEW t \in Thread, NEW a \in Aio, NEW none \in {"idle", "wait", "fabort"},
           NEW back \in {"idle", "wait", "ffini"}, NEW stop \in BOOLEAN,
           Took(t, a, none, back, stop), pc[t] \in {"idle", "fwait"},
           UNCHANGED <<inuse, stopped>>,
           \A b \in Aio : dying[b] => dying'[b],
           \A u \in Thread \ {t} : ret[u] = "wait" => ~dying'[cur[u]],
           none = "wait" \/ back = "wait" => stop /\ ~dying'[a],
           none = "fabort" \/ back = "ffini" => dying'[a]
    PROVE  Stopping'
<1>1. /\ UNCHANGED <<inuse, stopped, tq_tasks, task_prep, cb>>
      /\ \A b \in Aio : a_stop[b] => a_stop'[b]
      /\ stop => a_stop'[a]
  BY DEF Took, task_vars, Inv, TypeOK, HandleTypes
<1>2. /\ \A u \in Thread \ {t} : pc'[u] = pc[u] /\ cur'[u] = cur[u] /\ ret'[u] = ret[u]
      /\ \/ pc'[t] = pc[t] /\ cur'[t] = cur[t] /\ ret'[t] = ret[t]
         \/ /\ cur'[t] = a /\ ret'[t] = back
            /\ pc'[t] \in {"pcancel", "scancel"} \/ (pc'[t] = none /\ none # "idle")
  BY TookAt DEF Inv
<1>3. ret[t] = "idle" /\ \A u \in Thread : pc[u] = "wait" => ret[u] = "wait"
  BY DEF Inv, Locals
<1>4. \A u \in Thread : ret[u] = "wait" => cur[u] \in Aio /\ a_stop[cur[u]]
  BY DEF Inv, Stopping, Locals, CallPlaces, CarryPlaces, StartPlaces, CancelPlaces,
         FiniPlaces, LoopPlaces, TypeOK, ThreadTypes, Places
<1>5. \A u \in Thread : pc[u] \in FiniPlaces \/ ret[u] = "ffini" =>
         cur[u] \in Aio /\ dying[cur[u]]
  BY DEF Inv, Stopping, Locals, CallPlaces, CarryPlaces, StartPlaces, CancelPlaces,
         FiniPlaces, LoopPlaces, TypeOK, ThreadTypes, Places
<1>6. \A b \in Aio : inuse'[b] /\ ~dying'[b] /\ b \notin tq_tasks' => task_prep'[b]
  BY <1>1 DEF Inv, Stopping
<1>7. \A u \in Thread : pc'[u] = "wait" \/ ret'[u] = "wait" =>
         a_stop'[cur'[u]] /\ ~dying'[cur'[u]]
  BY <1>1, <1>2, <1>3, <1>4
<1>8. \A b \in Aio : stopped'[b] =>
         a_stop'[b] /\ ~inuse'[b] /\ \A u \in Thread : cb'[u] # b
  BY <1>1 DEF Inv, Stopping
<1>9. \A u \in Thread : pc'[u] \in FiniPlaces \/ ret'[u] = "ffini" => dying'[cur'[u]]
  BY <1>2, <1>3, <1>5 DEF FiniPlaces
<1> QED
  BY <1>6, <1>7, <1>8, <1>9 DEF Stopping

LEMMA TookFreeing ==
    ASSUME Inv, StopFirst, NEW t \in App, NEW a \in Aio,
           NEW none \in {"idle", "wait", "fabort"},
           NEW back \in {"idle", "wait", "ffini"}, NEW stop \in BOOLEAN,
           Took(t, a, none, back, stop), pc[t] \in {"idle", "fwait"},
           UNCHANGED <<stopped, freed>>,
           \/ dying' = dying
           \/ /\ dying' = [dying EXCEPT ![a] = TRUE] /\ stop /\ stopped[a]
              /\ \A u \in App \ {t} : cur[u] # a,
           ~dying[a] \/ cur[t] = a,
           back = "ffini" => ~a_expiring[a]
    PROVE  Freeing'
<1>1. t \in Thread /\ Expire \in Thread \ {t} /\ App \subseteq Thread
  BY ThreadAssumption DEF Thread
<1>2. /\ UNCHANGED <<stopped, freed, expires, a_expiring>>
      /\ \A b \in Aio : a_stop[b] => a_stop'[b]
      /\ stop => a_stop'[a]
  BY DEF Took, Inv, TypeOK, HandleTypes
<1>3. /\ \A u \in Thread \ {t} : pc'[u] = pc[u] /\ cur'[u] = cur[u] /\ ret'[u] = ret[u]
      /\ \/ cur'[t] = cur[t] /\ ret'[t] = ret[t]
         \/ cur'[t] = a /\ ret'[t] = back
  BY <1>1, TookAt DEF Inv
<1>0. /\ \A b \in Aio : dying[b] => dying'[b]
      /\ \A b \in Aio : dying'[b] /\ ~dying[b] =>
           b = a /\ stop /\ stopped[a] /\ \A u \in App \ {t} : cur[u] # a
  BY DEF Inv, TypeOK, UserTypes
<1>4. \A b \in Aio : dying'[b] => a_stop'[b] /\ stopped'[b]
  BY <1>0, <1>2 DEF Inv, Freeing
<1>5. ASSUME NEW u \in App, NEW v \in App, cur'[u] \in Aio, cur'[v] = cur'[u], dying'[cur'[u]]
      PROVE  u = v
  BY <1>0, <1>1, <1>3, <1>5 DEF Inv, Freeing
<1>6. \A u \in Thread : ret'[u] = "ffini" => ~a_expiring'[cur'[u]]
  BY <1>2, <1>3 DEF Inv, Freeing
<1>7. \A b \in Aio : freed'[b] => /\ dying'[b] /\ ~a_expiring'[b]
                                 /\ \A u \in App : cur'[u] # b
  BY <1>0, <1>1, <1>2, <1>3 DEF Inv, Freeing
<1>8. /\ pc'[Expire] \in {"top", "sleep", "exit"} => expires' = {}
      /\ cur'[Expire] \in Aio => cur'[Expire] \in expires' /\ a_expiring'[cur'[Expire]]
      /\ \A b \in Aio : a_expiring'[b] => b \in expires'
      /\ \A b \in expires' : a_expiring'[b]
  BY <1>1, <1>2, <1>3 DEF Inv, Freeing
<1> QED
  BY <1>4, <1>5, <1>6, <1>7, <1>8 DEF Freeing

LEMMA TookTypes ==
    ASSUME TypeOK, NEW t \in Thread, NEW a \in Aio, NEW none \in {"idle", "wait", "fabort"},
           NEW back \in {"idle", "wait", "ffini"}, NEW stop \in BOOLEAN,
           Took(t, a, none, back, stop), UserTypes'
    PROVE  TypeOK'
<1>1. HandleTypes'
  BY DEF Took, TypeOK, HandleTypes
<1>2. TaskTypes' /\ QueueTypes'
  BY DEF Took, TypeOK, TaskTypes, QueueTypes, task_vars, prov_vars
<1>3. none \in Places /\ back \in Places /\ "pcancel" \in Places /\ "scancel" \in Places
  BY DEF Places
<1>4. ThreadTypes'
  <2>1. CASE UNCHANGED <<pc, cur, ret>>
    BY <2>1 DEF Took, TypeOK, ThreadTypes
  <2>2. CASE \E place \in {none, "pcancel", "scancel"} : Moved(t, place, a, back)
    BY <1>3, <2>2, MovedTypes DEF Took
  <2> QED
    BY <2>1, <2>2 DEF Took
<1> QED
  BY <1>1, <1>2, <1>4 DEF TypeOK

-----------------------------------------------------------------------------
(* The busy count.                                                         *)

\* A callback more, or one less, on thread t.
LEMMA RunnersAdd ==
    ASSUME TypeOK, NEW t \in Thread, NEW a \in Aio, cb[t] \notin Aio,
           cb' = [cb EXCEPT ![t] = a]
    PROVE  /\ Cardinality(Runners(a)') = Cardinality(Runners(a)) + 1
           /\ Cardinality(Runners(a)) \in Nat
           /\ \A b \in Aio \ {a} : Runners(b)' = Runners(b)
<1>1. Runners(a)' = Runners(a) \union {t} /\ t \notin Runners(a)
  BY DEF Runners, TypeOK, ThreadTypes
<1>2. IsFiniteSet(Runners(a))
  BY ThreadAssumption, FS_Subset DEF Runners
<1>3. \A b \in Aio \ {a} : Runners(b)' = Runners(b)
  BY DEF Runners, TypeOK, ThreadTypes
<1> QED
  BY <1>1, <1>2, <1>3, FS_AddElement, FS_CardinalityType

LEMMA RunnersRemove ==
    ASSUME TypeOK, NEW t \in Thread, NEW a \in Aio, cb[t] = a,
           cb' = [cb EXCEPT ![t] = None]
    PROVE  /\ Cardinality(Runners(a)') = Cardinality(Runners(a)) - 1
           /\ Cardinality(Runners(a)) \in Nat
           /\ \A b \in Aio \ {a} : Runners(b)' = Runners(b)
<1>1. Runners(a)' = Runners(a) \ {t} /\ t \in Runners(a)
  BY ThreadAssumption DEF Runners, TypeOK, ThreadTypes
<1>2. IsFiniteSet(Runners(a))
  BY ThreadAssumption, FS_Subset DEF Runners
<1>3. \A b \in Aio \ {a} : Runners(b)' = Runners(b)
  BY ThreadAssumption DEF Runners, TypeOK, ThreadTypes
<1> QED
  BY <1>1, <1>2, <1>3, FS_RemoveElement, FS_CardinalityType

\* The count of the handles other than a is not touched, that of a changes
\* with its shares.
LEMMA BusyAt ==
    ASSUME Inv, NEW a \in Aio, NEW n, NEW prep \in BOOLEAN,
           task_busy' = [task_busy EXCEPT ![a] = n],
           task_prep' = [task_prep EXCEPT ![a] = prep],
           \A b \in Aio \ {a} : Runners(b)' = Runners(b) /\ (b \in tq_tasks' <=> b \in tq_tasks),
           n = Cardinality(Runners(a)') + One(prep) + One(a \in tq_tasks')
    PROVE  BusyCount'
<1>1. /\ task_busy'[a] = n /\ task_prep'[a] = prep
      /\ \A b \in Aio \ {a} : task_busy'[b] = task_busy[b] /\ task_prep'[b] = task_prep[b]
  BY DEF Inv, TypeOK, TaskTypes
<1>2. ASSUME NEW b \in Aio \ {a}
      PROVE  task_busy'[b] = Cardinality(Runners(b)') + One(task_prep'[b]) + One(b \in tq_tasks')
  <2>1. task_busy[b] = Cardinality(Runners(b)) + One(task_prep[b]) + One(b \in tq_tasks)
    BY DEF Inv, BusyCount
  <2>2. One(b \in tq_tasks') = One(b \in tq_tasks) /\ Runners(b)' = Runners(b)
    BY DEF One
  <2> QED
    BY <1>1, <2>1, <2>2
<1> QED
  BY <1>1, <1>2 DEF BusyCount

\* The arithmetic of Unprep and of nni_task_abort.
LEMMA UnprepBusy ==
    ASSUME Inv, NEW a \in Aio
    PROVE  /\ (IF task_prep[a] THEN task_busy[a] ELSE task_busy[a] + 1)
                = Cardinality(Runners(a)) + 1 + One(a \in tq_tasks)
           /\ AbortBusy(a) = Cardinality(Runners(a)) + One(a \in tq_tasks)
           /\ Cardinality(Runners(a)) \in Nat
<1>1. Cardinality(Runners(a)) \in Nat
  BY ThreadAssumption, FS_Subset, FS_CardinalityType DEF Runners
<1>2. task_busy[a] = Cardinality(Runners(a)) + One(task_prep[a]) + One(a \in tq_tasks)
  BY DEF Inv, BusyCount
<1>3. One(a \in tq_tasks) \in Nat
  BY DEF One
<1>4. CASE task_prep[a]
  BY <1>1, <1>2, <1>3, <1>4 DEF One, AbortBusy
<1>5. CASE ~task_prep[a]
  BY <1>1, <1>2, <1>3, <1>5 DEF One, AbortBusy
<1> QED
  BY <1>4, <1>5

\* BusyCount is preserved.
LEMMA BusyStep ==
    ASSUME Inv, Next PROVE BusyCount'
<1> USE DEF Inv
<1>1. ASSUME NEW t \in Thread, NEW a \in Aio, NEW d, NEW next, Begin(t, a, d, next)
      PROVE  BusyCount'
  <2>1. /\ task_busy' = [task_busy EXCEPT ![a] = task_busy[a] + 1]
        /\ task_prep' = [task_prep EXCEPT ![a] = TRUE]
        /\ UNCHANGED <<tq_tasks, cb>> /\ ~inuse[a]
    BY <1>1 DEF Begin, PrepBusy, CanStart
  <2>2. ~task_prep[a] /\ \A b \in Aio : Runners(b)' = Runners(b)
    BY <2>1 DEF Owned, Runners
  <2>3. task_busy[a] + 1 = Cardinality(Runners(a)') + One(TRUE) + One(a \in tq_tasks')
    BY <2>1, <2>2, UnprepBusy DEF One
  <2> QED
    BY <2>1, <2>2, <2>3, BusyAt
<1>2. ASSUME NEW t \in Thread, NEW a \in Aio, a = cur[t], nni_task_dispatch(t)
      PROVE  BusyCount'
  <2> DEFINE n == IF task_prep[a] THEN task_busy[a] ELSE task_busy[a] + 1
  <2>1. /\ task_prep' = [task_prep EXCEPT ![a] = FALSE]
        /\ task_busy' = [task_busy EXCEPT ![a] = n]
        /\ tq_tasks' = tq_tasks \union {a} /\ pc[t] = "dispatch" /\ UNCHANGED cb
    BY <1>2 DEF nni_task_dispatch, Unprep
  <2>2. a \notin tq_tasks /\ \A b \in Aio : Runners(b)' = Runners(b)
    BY <1>2, <2>1 DEF Carried, CarryPlaces, Runners
  <2>3. n = Cardinality(Runners(a)') + One(FALSE) + One(a \in tq_tasks')
    BY <2>1, <2>2, UnprepBusy DEF One
  <2> QED
    BY <2>1, <2>2, <2>3, BusyAt
<1>3. ASSUME NEW t \in Thread, NEW a \in Aio, a = cur[t], nni_task_exec(t)
      PROVE  BusyCount'
  <2> DEFINE n == IF task_prep[a] THEN task_busy[a] ELSE task_busy[a] + 1
  <2>1. /\ task_prep' = [task_prep EXCEPT ![a] = FALSE]
        /\ task_busy' = [task_busy EXCEPT ![a] = n]
        /\ UNCHANGED tq_tasks /\ pc[t] = "exec" /\ cb' = [cb EXCEPT ![t] = a]
    BY <1>3 DEF nni_task_exec, Unprep
  <2>2. a \notin tq_tasks /\ cb[t] \notin Aio
    BY <1>3, <2>1 DEF Locals, Carried, CarryPlaces
  <2>3. /\ Cardinality(Runners(a)') = Cardinality(Runners(a)) + 1
        /\ \A b \in Aio \ {a} : Runners(b)' = Runners(b)
    BY <2>1, <2>2, RunnersAdd
  <2>4. n = Cardinality(Runners(a)') + One(FALSE) + One(a \in tq_tasks')
    BY <2>1, <2>2, <2>3, UnprepBusy DEF One
  <2> QED
    BY <2>1, <2>3, <2>4, BusyAt
<1>4. ASSUME NEW t \in Thread, NEW a \in Aio, RunTask(t, a)
      PROVE  BusyCount'
  <2>1. /\ a \in tq_tasks /\ tq_tasks' = tq_tasks \ {a}
        /\ task_busy' = [task_busy EXCEPT ![a] = task_busy[a]]
        /\ task_prep' = [task_prep EXCEPT ![a] = task_prep[a]]
        /\ cb' = [cb EXCEPT ![t] = a] /\ cb[t] \notin Aio
        /\ task_prep[a] \in BOOLEAN
    BY <1>4 DEF RunTask, Locals, TypeOK, TaskTypes
  <2>2. /\ Cardinality(Runners(a)') = Cardinality(Runners(a)) + 1
        /\ \A b \in Aio \ {a} : Runners(b)' = Runners(b)
    BY <2>1, RunnersAdd
  <2>3. task_busy[a] = Cardinality(Runners(a)') + One(task_prep[a]) + One(a \in tq_tasks')
    BY <2>1, <2>2, UnprepBusy DEF One, BusyCount
  <2> QED
    BY <2>1, <2>2, <2>3, BusyAt
<1>5. ASSUME NEW t \in Thread, NEW a \in Aio, a = cb[t], CallbackReturns(t)
      PROVE  BusyCount'
  <2>1. /\ task_busy' = [task_busy EXCEPT ![a] = task_busy[a] - 1]
        /\ task_prep' = [task_prep EXCEPT ![a] = task_prep[a]]
        /\ UNCHANGED tq_tasks /\ cb' = [cb EXCEPT ![t] = None]
        /\ task_prep[a] \in BOOLEAN
    BY <1>5 DEF CallbackReturns, TypeOK, TaskTypes
  <2>2. /\ Cardinality(Runners(a)') = Cardinality(Runners(a)) - 1
        /\ \A b \in Aio \ {a} : Runners(b)' = Runners(b)
    BY <1>5, <2>1, RunnersRemove
  <2>3. task_busy[a] - 1 = Cardinality(Runners(a)') + One(task_prep[a]) + One(a \in tq_tasks')
    BY <2>1, <2>2, UnprepBusy DEF One, BusyCount
  <2> QED
    BY <2>1, <2>2, <2>3, BusyAt
<1>6. ASSUME NEW t \in Thread, NEW a \in Aio, a = cur[t], nni_task_abort(t)
      PROVE  BusyCount'
  <2>1. /\ task_busy' = [task_busy EXCEPT ![a] = AbortBusy(a)]
        /\ task_prep' = [task_prep EXCEPT ![a] = FALSE]
        /\ UNCHANGED <<tq_tasks, cb>>
    BY <1>6 DEF nni_task_abort
  <2>2. \A b \in Aio : Runners(b)' = Runners(b)
    BY <2>1 DEF Runners
  <2>3. AbortBusy(a) = Cardinality(Runners(a)') + One(FALSE) + One(a \in tq_tasks')
    BY <2>1, <2>2, UnprepBusy DEF One
  <2> QED
    BY <2>1, <2>2, <2>3, BusyAt
<1>7. ASSUME UNCHANGED <<task_vars, cb>>
      PROVE  BusyCount'
  BY <1>7 DEF BusyCount, Runners, task_vars
<1>8. ASSUME NEW t \in Thread, NEW a \in Aio,
             \/ BeginStopped(t, a) \/ nni_aio_abort(t, a) \/ nni_aio_close(t, a)
             \/ nni_aio_stop(t, a) \/ Fini(t, a) \/ FiniWaits(t, a)
             \/ Complete(t, a) \/ CompleteSync(t, a)
      PROVE  UNCHANGED <<task_vars, cb>>
  BY <1>8 DEF BeginStopped, nni_aio_abort, nni_aio_close, nni_aio_stop, Fini, FiniTake,
              TakeFn, FiniWaits, Complete, CompleteSync, thr_vars
<1>9. ASSUME NEW t \in Thread,
             \/ ProvStart(t) \/ ProvRefused(t) \/ ProvAtOnce(t) \/ SleepSet(t)
             \/ SleepStart(t)
             \/ SleepRefused(t) \/ ProvCancel(t) \/ ProvCancelLate(t)
             \/ nni_sleep_cancel(t) \/ nni_aio_finish_impl(t) \/ nni_task_wait(t)
             \/ FiniWoken(t) \/ nni_task_fini(t)
      PROVE  UNCHANGED <<task_vars, cb>>
  BY <1>9 DEF ProvStart, ProvRefused, ProvAtOnce, SleepSet, SleepStart, SleepRefused,
              ProvCancel, ProvCancelLate, nni_sleep_cancel, nni_aio_finish_impl, nni_task_wait,
              FiniWoken, FiniTake, TakeFn, nni_task_fini
<1>10. ASSUME ExpireLoop \/ nni_aio_expire_q_free \/ Tick
       PROVE  UNCHANGED <<task_vars, cb>>
  BY <1>10 DEF ExpireLoop, ExpireEarly, ExpireScan, ExpireItem, ExpireItemDone,
               ExpireBatchEnd, ExpireWake, ExpireExit, nni_aio_expire_q_free, Tick, thr_vars
<1>11. \A t \in Thread : /\ pc[t] \in {"dispatch", "exec", "fabort"} => cur[t] \in Aio
                         /\ pc[t] = "cb" => cb[t] \in Aio
  BY DEF Locals, CallPlaces, CarryPlaces, FiniPlaces
<1>12. \A t \in Thread : /\ nni_task_dispatch(t) \/ nni_task_exec(t) \/ nni_task_abort(t)
                              => pc[t] \in {"dispatch", "exec", "fabort"}
                         /\ CallbackReturns(t) => pc[t] = "cb"
  BY DEF nni_task_dispatch, nni_task_exec, nni_task_abort, CallbackReturns
<1> QED
  BY <1>1, <1>2, <1>3, <1>4, <1>5, <1>6, <1>7, <1>8, <1>9, <1>10, <1>11, <1>12
     DEF Next, Proceed, Work, Environment

-----------------------------------------------------------------------------
(* Each part of Inv is preserved by every action.  The first steps of each *)
(* proof are the actions that need an argument; for the others it is       *)
(* enough to expand the part and the action.                               *)

\* A thread in a call has its handle.
LEMMA InCall ==
    ASSUME Inv, NEW t \in Thread,
           pc[t] \notin {"top", "sleep", "item", "exit", "idle", "cb"}
    PROVE  cur[t] \in Aio /\ ret[t] \in Places
BY DEF Inv, TypeOK, ThreadTypes, Locals, CallPlaces, CarryPlaces, StartPlaces,
       CancelPlaces, FiniPlaces, LoopPlaces, Places

\* Types are preserved; that no share of task_busy is dropped twice needs BusyCount.
LEMMA TypeStep ==
    ASSUME Inv, Next PROVE TypeOK'
<1> USE ThreadAssumption, TimeAssumption
<1>1. ASSUME NEW t \in Thread, NEW a \in Aio, nni_aio_abort(t, a)
     PROVE  TypeOK'
  <2>1. Took(t, a, "idle", "idle", FALSE)
    BY <1>1, CancelEffect DEF nni_aio_abort, Inv
  <2>2. UserTypes'
    BY <1>1 DEF nni_aio_abort, user_vars, Inv, TypeOK, UserTypes
  <2> QED
    BY <2>1, <2>2, TookTypes DEF Inv
<1>2. ASSUME NEW t \in Thread, NEW a \in Aio, nni_aio_close(t, a)
     PROVE  TypeOK'
  <2>1. Took(t, a, "idle", "idle", TRUE)
    BY <1>2, CancelEffect DEF nni_aio_close, Inv
  <2>2. UserTypes'
    BY <1>2 DEF nni_aio_close, user_vars, Inv, TypeOK, UserTypes
  <2> QED
    BY <2>1, <2>2, TookTypes DEF Inv
<1>3. ASSUME NEW t \in Thread, NEW a \in Aio, nni_aio_stop(t, a)
     PROVE  TypeOK'
  <2>1. Took(t, a, "wait", "wait", TRUE)
    BY <1>3, CancelEffect DEF nni_aio_stop, Inv
  <2>2. UserTypes'
    BY <1>3 DEF nni_aio_stop, user_vars, Inv, TypeOK, UserTypes
  <2> QED
    BY <2>1, <2>2, TookTypes DEF Inv
<1>4. ASSUME NEW t \in Thread, NEW a \in Aio, Fini(t, a)
     PROVE  TypeOK'
  <2>1. Took(t, a, "fabort", "ffini", TRUE)
    BY <1>4, CancelEffect DEF Fini, Inv
  <2>2. UserTypes'
    BY <1>4 DEF Fini, Free, user_vars, Inv, TypeOK, UserTypes
  <2> QED
    BY <2>1, <2>2, TookTypes DEF Inv
<1>5. ASSUME NEW t \in Thread, nni_sleep_cancel(t)
     PROVE  TypeOK'
  <2>1. cur[t] \in Aio /\ ret[t] \in Places
    BY <1>5, InCall DEF nni_sleep_cancel
  <2>2. a_sleep[cur[t]]
    BY <1>5 DEF nni_sleep_cancel, Inv, Carried
  <2>3. HandleTypes'
    BY <1>5, <2>1, <2>2 DEF nni_sleep_cancel, Inv, TypeOK, HandleTypes
  <2>4. TaskTypes' /\ QueueTypes'
    BY <1>5, <2>1, <2>2 DEF nni_sleep_cancel, nni_aio_expire_rm, Inv, TypeOK, TaskTypes, QueueTypes,
                            task_vars, prov_vars
  <2>5. ThreadTypes' /\ UserTypes'
    BY <1>5, <2>1, <2>2 DEF nni_sleep_cancel, Goto, Places, Inv, TypeOK, ThreadTypes, UserTypes, user_vars
  <2> QED
    BY <2>3, <2>4, <2>5 DEF TypeOK
<1>6. ASSUME NEW t \in Thread, nni_task_dispatch(t)
     PROVE  TypeOK'
  <2>1. cur[t] \in Aio /\ ret[t] \in Places
    BY <1>6, InCall DEF nni_task_dispatch
  <2>2. /\ \/ ret[t] \in {"idle", "cb"} /\ Moved(t, ret[t], None, "idle")
           \/ Moved(t, ret[t], cur[t], ret[t])
        /\ rv' \in [Thread -> Results] /\ "idle" \in Places
    BY <1>6, <2>1, ReturnEffect DEF nni_task_dispatch, Inv, Locals, Places
  <2>3. ThreadTypes'
    BY <1>6, <2>1, <2>2, MovedTypes DEF nni_task_dispatch, Inv
  <2>4. TaskTypes'
    BY <1>6, <2>1 DEF nni_task_dispatch, Unprep, Inv, TypeOK, TaskTypes
  <2>5. HandleTypes' /\ QueueTypes' /\ UserTypes'
    BY <1>6 DEF nni_task_dispatch, Inv, TypeOK, HandleTypes, QueueTypes, UserTypes, aio_vars, eq_vars,
                user_vars
  <2> QED
    BY <2>3, <2>4, <2>5 DEF TypeOK
<1>7. ASSUME NEW t \in Thread, CallbackReturns(t)
     PROVE  TypeOK'
  <2>1. cb[t] \in Aio
    BY <1>7 DEF CallbackReturns, Inv, Locals
  <2>2. task_busy[cb[t]] - 1 \in Nat
    BY <2>1, BusyShares
  <2>3. TaskTypes'
    BY <1>7, <2>1, <2>2 DEF CallbackReturns, Inv, TypeOK, TaskTypes
  <2>4. ThreadTypes'
    BY <1>7 DEF CallbackReturns, Goto, Places, Inv, TypeOK, ThreadTypes
  <2>5. HandleTypes' /\ QueueTypes' /\ UserTypes'
    BY <1>7 DEF CallbackReturns, Inv, TypeOK, HandleTypes, QueueTypes, UserTypes, aio_vars, eq_vars,
                prov_vars, user_vars
  <2> QED
    BY <2>3, <2>4, <2>5 DEF TypeOK
<1>8. ASSUME NEW t \in Thread, FiniWoken(t)
     PROVE  TypeOK'
  <2>1. cur[t] \in Aio /\ ret[t] \in Places
    BY <1>8, InCall DEF FiniWoken
  <2>2. Took(t, cur[t], "fabort", "ffini", TRUE)
    BY <1>8, <2>1, CancelEffect DEF FiniWoken, Inv
  <2>3. UserTypes'
    BY <1>8 DEF FiniWoken, user_vars, Inv, TypeOK, UserTypes
  <2> QED
    BY <2>1, <2>2, <2>3, TookTypes DEF Inv
<1>9. ASSUME NEW t \in Thread, nni_task_abort(t)
     PROVE  TypeOK'
  <2>1. cur[t] \in Aio /\ ret[t] \in Places
    BY <1>9, InCall DEF nni_task_abort
  <2>2. AbortBusy(cur[t]) \in Nat
    BY <2>1, BusyShares DEF AbortBusy
  <2>3. TaskTypes'
    BY <1>9, <2>1, <2>2 DEF nni_task_abort, Inv, TypeOK, TaskTypes
  <2>4. ThreadTypes'
    BY <1>9 DEF nni_task_abort, Goto, Places, Inv, TypeOK, ThreadTypes
  <2>5. HandleTypes' /\ QueueTypes' /\ UserTypes'
    BY <1>9 DEF nni_task_abort, Inv, TypeOK, HandleTypes, QueueTypes, UserTypes, aio_vars, eq_vars,
                prov_vars, user_vars
  <2> QED
    BY <2>3, <2>4, <2>5 DEF TypeOK
<1>10. ASSUME NEW a \in Aio, ExpireItem(a)
     PROVE  TypeOK'
  <2>1. HandleTypes'
    BY <1>10 DEF ExpireItem, Inv, TypeOK, HandleTypes
  <2>2. ThreadTypes'
    BY <1>10 DEF ExpireItem, Goto, Places, Results, Inv, TypeOK, ThreadTypes, HandleTypes
  <2>3. /\ UNCHANGED <<prov_list, eq_list, eq_next, eq_until, now, exp_now, eq_exit, prov_mtx>>
        /\ expires' \subseteq expires /\ eq_held' \in BOOLEAN
    BY <1>10 DEF ExpireItem, prov_vars, Inv, TypeOK, QueueTypes
  <2>4. a_expiring' \in [Aio -> BOOLEAN] /\ exp_op' \in [Aio -> Nat]
    <3>1. CASE a_cancel_fn[a] = "none"
      <4>1. a_expiring' = [a_expiring EXCEPT ![a] = FALSE] /\ exp_op' = [exp_op EXCEPT ![a] = 0]
        BY <1>10, <3>1 DEF ExpireItem
      <4>2. a_expiring' \in [Aio -> BOOLEAN]
        BY <4>1 DEF Inv, TypeOK, QueueTypes
      <4>3. exp_op' \in [Aio -> Nat]
        BY <4>1 DEF Inv, TypeOK, QueueTypes
      <4> QED
        BY <4>2, <4>3
    <3>2. CASE a_cancel_fn[a] # "none"
      BY <1>10, <3>2 DEF ExpireItem, Inv, TypeOK, QueueTypes
    <3> QED
      BY <3>1, <3>2
  <2>5. QueueTypes'
    BY <2>3, <2>4 DEF Inv, TypeOK, QueueTypes
  <2>6. TaskTypes' /\ UserTypes'
    BY <1>10 DEF ExpireItem, Inv, TypeOK, TaskTypes, UserTypes, task_vars, user_vars
  <2> QED
    BY <2>1, <2>2, <2>5, <2>6 DEF TypeOK
<1>11. ASSUME ExpireBatchEnd
     PROVE  TypeOK'
  <2>1. QueueTypes'
    BY <1>11 DEF ExpireBatchEnd, Inv, TypeOK, QueueTypes, prov_vars
  <2>2. ThreadTypes'
    BY <1>11 DEF ExpireBatchEnd, Goto, Places, Inv, TypeOK, ThreadTypes
  <2>3. HandleTypes' /\ TaskTypes' /\ UserTypes'
    BY <1>11 DEF ExpireBatchEnd, Inv, TypeOK, HandleTypes, TaskTypes, UserTypes, aio_vars, task_vars,
                user_vars
  <2> QED
    BY <2>1, <2>2, <2>3 DEF TypeOK
<1> USE DEF Inv, TypeOK, HandleTypes, TaskTypes, QueueTypes, ThreadTypes, UserTypes,
            Places, Results, Thread, vars, aio_vars, task_vars, eq_vars, prov_vars,
            thr_vars, user_vars
<1>12. ASSUME NEW t \in Thread, NEW a \in Aio,
            NEW d \in Timeouts \union {Infinite}, NEW next \in {"sched", "sleepset"},Begin(t, a, d, next)
     PROVE  TypeOK'
  BY <1>12 DEF Begin, CanStart, PrepBusy, Goto
<1>13. ASSUME NEW t \in Thread, NEW a \in Aio, BeginStopped(t, a)
     PROVE  TypeOK'
  BY <1>13 DEF BeginStopped, CanStart
<1>14. ASSUME NEW t \in Thread, NEW a \in Aio, FiniWaits(t, a)
     PROVE  TypeOK'
  BY <1>14 DEF FiniWaits, Free, Control, Alone, MustWait, Goto
<1>15. ASSUME NEW t \in Thread, NEW a \in Aio, Complete(t, a)
     PROVE  TypeOK'
  BY <1>15 DEF Complete, Goto
<1>16. ASSUME NEW t \in Thread, NEW a \in Aio, CompleteSync(t, a)
     PROVE  TypeOK'
  BY <1>16 DEF CompleteSync, Goto
<1>17. ASSUME NEW t \in Thread, NEW a \in Aio, RunTask(t, a)
     PROVE  TypeOK'
  BY <1>17 DEF RunTask, Goto
<1>18. ASSUME NEW t \in Thread, ProvStart(t)
     PROVE  TypeOK'
  <2>1. cur[t] \in Aio /\ ret[t] \in Places
    BY <1>18, InCall DEF ProvStart
  <2>2. PICK e \in Nat : Armed(cur[t], "prov", e)
    BY <1>18, <2>1, ScheduleEffect DEF ProvStart, Inv
  <2>3. /\ Moved(t, ret[t], None, "idle") /\ ret[t] \in {"idle", "cb"}
        /\ rv' \in [Thread -> Results]
    BY <1>18, <2>1, ReturnEffect DEF ProvStart, Inv, Locals, StartPlaces
  <2> QED
    BY <1>18, <2>1, <2>2, <2>3 DEF ProvStart, Armed, Moved
<1>19. ASSUME NEW t \in Thread, ProvRefused(t)
     PROVE  TypeOK'
  <2>1. cur[t] \in Aio /\ ret[t] \in Places
    BY <1>19, InCall DEF ProvRefused
  <2>2. Moved(t, "finish", cur[t], ret[t]) /\ rv' \in [Thread -> Results]
    BY <1>19, <2>1, ScheduleFailsEffect DEF ProvRefused, Inv
  <2>3. /\ \E e \in Nat : a_expire' = [a_expire EXCEPT ![cur[t]] = e]
        /\ UNCHANGED <<a_result, a_cancel_fn, a_abort, a_stop, a_timeout, a_sleep,
                       a_expire_ok, eq_vars>>
    BY <1>19, <2>1, ScheduleFailsEffect DEF ProvRefused, Inv
  <2> QED
    BY <1>19, <2>1, <2>2, <2>3 DEF ProvRefused, Moved
<1>20. ASSUME NEW t \in Thread, ProvAtOnce(t)
     PROVE  TypeOK'
  <2>1. cur[t] \in Aio /\ ret[t] \in Places
    BY <1>20, InCall DEF ProvAtOnce
  <2> QED
    BY <1>20, <2>1 DEF ProvAtOnce, Goto
<1>21. ASSUME NEW t \in Thread, SleepSet(t)
     PROVE  TypeOK'
  <2>1. cur[t] \in Aio /\ ret[t] \in Places
    BY <1>21, InCall DEF SleepSet
  <2>2. \E ok \in BOOLEAN, e \in Nat : /\ a_expire_ok' = [a_expire_ok EXCEPT ![cur[t]] = ok]
                                      /\ a_expire' = [a_expire EXCEPT ![cur[t]] = e]
    BY <1>21, <2>1, SleepEffect DEF Inv
  <2> QED
    BY <1>21, <2>1, <2>2 DEF SleepSet, Goto
<1>22. ASSUME NEW t \in Thread, SleepStart(t)
     PROVE  TypeOK'
  <2>1. cur[t] \in Aio /\ ret[t] \in Places
    BY <1>22, InCall DEF SleepStart
  <2>2. PICK e \in Nat : Armed(cur[t], "sleep", e)
    BY <1>22, <2>1, ScheduleEffect DEF SleepStart, Inv
  <2>3. /\ Moved(t, ret[t], None, "idle") /\ ret[t] \in {"idle", "cb"}
        /\ rv' \in [Thread -> Results]
    BY <1>22, <2>1, ReturnEffect DEF SleepStart, Inv, Locals, StartPlaces
  <2> QED
    BY <1>22, <2>1, <2>2, <2>3 DEF SleepStart, Armed, Moved
<1>23. ASSUME NEW t \in Thread, SleepRefused(t)
     PROVE  TypeOK'
  <2>1. cur[t] \in Aio /\ ret[t] \in Places
    BY <1>23, InCall DEF SleepRefused
  <2>2. Moved(t, "finish", cur[t], ret[t]) /\ rv' \in [Thread -> Results]
    BY <1>23, <2>1, ScheduleFailsEffect DEF SleepRefused, Inv
  <2>3. /\ \E e \in Nat : a_expire' = [a_expire EXCEPT ![cur[t]] = e]
        /\ UNCHANGED <<a_result, a_cancel_fn, a_abort, a_stop, a_timeout, a_sleep,
                       a_expire_ok, eq_vars>>
    BY <1>23, <2>1, ScheduleFailsEffect DEF SleepRefused, Inv
  <2> QED
    BY <1>23, <2>1, <2>2, <2>3 DEF SleepRefused, Moved
<1>24. ASSUME NEW t \in Thread, ProvCancel(t)
     PROVE  TypeOK'
  BY <1>24 DEF ProvCancel, nni_aio_list_active, Goto
<1>25. ASSUME NEW t \in Thread, ProvCancelLate(t)
     PROVE  TypeOK'
  <2>1. cur[t] \in Aio /\ ret[t] \in Places
    BY <1>25, InCall DEF ProvCancelLate
  <2>2. /\ \/ ret[t] = "idle" /\ Moved(t, "idle", None, "idle")
           \/ ret[t] \in {"wait", "ffini", "expired"} /\ Moved(t, ret[t], cur[t], ret[t])
        /\ rv' \in [Thread -> Results]
    BY <1>25, <2>1, ReturnEffect DEF ProvCancelLate, Inv, Locals, CancelPlaces
  <2>3. CASE ret[t] = "idle"
    BY <1>25, <2>1, <2>2, <2>3 DEF ProvCancelLate, nni_aio_list_active, Moved
  <2>4. CASE ret[t] # "idle"
    BY <1>25, <2>1, <2>2, <2>4, SMTT(60) DEF ProvCancelLate, nni_aio_list_active, Moved
  <2> QED
    BY <1>25, <2>1, <2>2, <2>3, <2>4 DEF ProvCancelLate, nni_aio_list_active, Moved
<1>26. ASSUME NEW t \in Thread, nni_aio_finish_impl(t)
     PROVE  TypeOK'
  <2>1. cur[t] \in Aio /\ ret[t] \in Places
    BY <1>26, InCall DEF nni_aio_finish_impl
  <2> QED
    BY <1>26, <2>1 DEF nni_aio_finish_impl, nni_aio_expire_rm, Goto
<1>27. ASSUME NEW t \in Thread, nni_task_exec(t)
     PROVE  TypeOK'
  <2>1. cur[t] \in Aio /\ ret[t] \in Places
    BY <1>27, InCall DEF nni_task_exec
  <2>2. Moved(t, "cb", None, "idle") /\ rv' \in [Thread -> Results]
    BY <1>27, <2>1, ReturnEffect DEF nni_task_exec, Inv, Places
  <2> QED
    BY <1>27, <2>1, <2>2 DEF nni_task_exec, Unprep, Moved
<1>28. ASSUME NEW t \in Thread, nni_task_wait(t)
     PROVE  TypeOK'
  <2>1. cur[t] \in Aio /\ ret[t] \in Places
    BY <1>28, InCall DEF nni_task_wait
  <2>2. Moved(t, "idle", None, "idle") /\ rv' \in [Thread -> Results]
    BY <1>28, <2>1, ReturnEffect DEF nni_task_wait, Inv, Places
  <2> QED
    BY <1>28, <2>1, <2>2 DEF nni_task_wait, Moved
<1>29. ASSUME NEW t \in Thread, nni_task_fini(t)
     PROVE  TypeOK'
  <2>1. cur[t] \in Aio /\ ret[t] \in Places
    BY <1>29, InCall DEF nni_task_fini
  <2>2. Moved(t, "idle", None, "idle") /\ rv' \in [Thread -> Results]
    BY <1>29, <2>1, ReturnEffect DEF nni_task_fini, Inv, Places
  <2> QED
    BY <1>29, <2>1, <2>2 DEF nni_task_fini, Moved
<1>30. ASSUME ExpireEarly
     PROVE  TypeOK'
  BY <1>30 DEF ExpireEarly, Goto
<1>31. ASSUME ExpireScan
     PROVE  TypeOK'
  BY <1>31 DEF ExpireScan, Batches, Rest, Expired, Earliest, Goto
<1>32. ASSUME ExpireItemDone
     PROVE  TypeOK'
  BY <1>32 DEF ExpireItemDone, Goto
<1>33. ASSUME ExpireWake
     PROVE  TypeOK'
  BY <1>33 DEF ExpireWake, Goto
<1>34. ASSUME ExpireExit
     PROVE  TypeOK'
  BY <1>34 DEF ExpireExit, Goto
<1>35. ASSUME nni_aio_expire_q_free
     PROVE  TypeOK'
  BY <1>35 DEF nni_aio_expire_q_free, WakeUntil
<1>36. ASSUME Tick
     PROVE  TypeOK'
  BY <1>36 DEF Tick
<1> QED
  BY <1>1, <1>2, <1>3, <1>4, <1>5, <1>6, <1>7, <1>8, <1>9, <1>10, <1>11, <1>12,
     <1>13, <1>14, <1>15, <1>16, <1>17, <1>18, <1>19, <1>20, <1>21, <1>22, <1>23,
     <1>24, <1>25, <1>26, <1>27, <1>28, <1>29, <1>30, <1>31, <1>32, <1>33, <1>34,
     <1>35, <1>36
     DEF Next, Proceed, Work, Environment, ExpireLoop

\* Locals is preserved.
LEMMA LocalsStep ==
    ASSUME Inv, Next PROVE Locals'
<1> USE ThreadAssumption, TimeAssumption
<1> USE DEF Inv, TypeOK, HandleTypes, TaskTypes, QueueTypes, ThreadTypes, UserTypes,
            Locals, Places, Results, CallPlaces, CarryPlaces, StartPlaces,
            CancelPlaces, FiniPlaces, LoopPlaces, Thread, vars, aio_vars, task_vars,
            eq_vars, prov_vars, thr_vars, user_vars
<1>1. ASSUME NEW t \in Thread, NEW a \in Aio,
            NEW d \in Timeouts \union {Infinite}, NEW next \in {"sched", "sleepset"},Begin(t, a, d, next)
     PROVE  Locals'
  BY <1>1 DEF Begin, CanStart, PrepBusy, Goto
<1>2. ASSUME NEW t \in Thread, NEW a \in Aio, BeginStopped(t, a)
     PROVE  Locals'
  BY <1>2 DEF BeginStopped, CanStart
<1>3. ASSUME NEW t \in Thread, NEW a \in Aio, nni_aio_abort(t, a)
     PROVE  Locals'
  <2>1. Took(t, a, "idle", "idle", FALSE) /\ Control(t, a) /\ UNCHANGED user_vars
    BY <1>3, CancelEffect DEF nni_aio_abort, Inv
  <2>2. CASE a_cancel_fn[a] = "none"
    BY <2>1, <2>2 DEF Control, Took, Moved
  <2>3. CASE a_cancel_fn[a] = "prov"
    BY <2>1, <2>3 DEF Control, Took, Moved
  <2>4. CASE a_cancel_fn[a] = "sleep"
    BY <2>1, <2>4 DEF Control, Took, Moved
  <2> QED
    BY <2>1, <2>2, <2>3, <2>4 DEF Control, Took, Moved
<1>4. ASSUME NEW t \in Thread, NEW a \in Aio, nni_aio_close(t, a)
     PROVE  Locals'
  <2>1. Took(t, a, "idle", "idle", TRUE) /\ Control(t, a) /\ UNCHANGED user_vars
    BY <1>4, CancelEffect DEF nni_aio_close, Inv
  <2>2. CASE a_cancel_fn[a] = "none"
    BY <2>1, <2>2 DEF Control, Took, Moved
  <2>3. CASE a_cancel_fn[a] = "prov"
    BY <2>1, <2>3 DEF Control, Took, Moved
  <2>4. CASE a_cancel_fn[a] = "sleep"
    BY <2>1, <2>4 DEF Control, Took, Moved
  <2> QED
    BY <2>1, <2>2, <2>3, <2>4 DEF Control, Took, Moved
<1>5. ASSUME NEW t \in Thread, NEW a \in Aio, nni_aio_stop(t, a)
     PROVE  Locals'
  <2>1. Took(t, a, "wait", "wait", TRUE) /\ Control(t, a) /\ UNCHANGED user_vars
    BY <1>5, CancelEffect DEF nni_aio_stop, Inv
  <2>2. CASE a_cancel_fn[a] = "none"
    BY <2>1, <2>2 DEF Control, Took, Moved
  <2>3. CASE a_cancel_fn[a] = "prov"
    BY <2>1, <2>3 DEF Control, Took, Moved
  <2>4. CASE a_cancel_fn[a] = "sleep"
    BY <2>1, <2>4 DEF Control, Took, Moved
  <2> QED
    BY <2>1, <2>2, <2>3, <2>4 DEF Control, Took, Moved
<1>6. ASSUME NEW t \in Thread, NEW a \in Aio, Fini(t, a)
     PROVE  Locals'
  <2>1. Took(t, a, "fabort", "ffini", TRUE)
    BY <1>6, CancelEffect DEF Fini, Inv
  <2>2. CASE a_cancel_fn[a] = "none"
    BY <1>6, <2>1, <2>2 DEF Fini, FiniTake, Free, Alone, MustWait, Control, Took, Moved
  <2>3. CASE a_cancel_fn[a] = "prov"
    BY <1>6, <2>1, <2>3 DEF Fini, FiniTake, Free, Alone, MustWait, Control, Took, Moved
  <2>4. CASE a_cancel_fn[a] = "sleep"
    BY <1>6, <2>1, <2>4, SMTT(60) DEF Fini, FiniTake, Free, Alone, MustWait, Control, Took, Moved
  <2> QED
    BY <1>6, <2>1, <2>2, <2>3, <2>4 DEF Fini, FiniTake, Free, Alone, MustWait, Control, Took, Moved
<1>7. ASSUME NEW t \in Thread, NEW a \in Aio, FiniWaits(t, a)
     PROVE  Locals'
  BY <1>7 DEF FiniWaits, Free, Control, Alone, MustWait, Goto
<1>8. ASSUME NEW t \in Thread, NEW a \in Aio, Complete(t, a)
     PROVE  Locals'
  BY <1>8 DEF Complete, Goto
<1>9. ASSUME NEW t \in Thread, NEW a \in Aio, CompleteSync(t, a)
     PROVE  Locals'
  BY <1>9 DEF CompleteSync, Goto
<1>10. ASSUME NEW t \in Thread, NEW a \in Aio, RunTask(t, a)
     PROVE  Locals'
  BY <1>10 DEF RunTask, Goto
<1>11. ASSUME NEW t \in Thread, ProvStart(t)
     PROVE  Locals'
  <2>1. cur[t] \in Aio /\ ret[t] \in Places
    BY <1>11, InCall DEF ProvStart
  <2>2. PICK e \in Nat : Armed(cur[t], "prov", e)
    BY <1>11, <2>1, ScheduleEffect DEF ProvStart, Inv
  <2>3. /\ Moved(t, ret[t], None, "idle") /\ ret[t] \in {"idle", "cb"}
        /\ rv' \in [Thread -> Results]
    BY <1>11, <2>1, ReturnEffect DEF ProvStart, Inv, Locals, StartPlaces
  <2> QED
    BY <1>11, <2>1, <2>2, <2>3 DEF ProvStart, Armed, Moved
<1>12. ASSUME NEW t \in Thread, ProvRefused(t)
     PROVE  Locals'
  <2>1. cur[t] \in Aio /\ ret[t] \in Places
    BY <1>12, InCall DEF ProvRefused
  <2>2. Moved(t, "finish", cur[t], ret[t]) /\ rv' \in [Thread -> Results]
    BY <1>12, <2>1, ScheduleFailsEffect DEF ProvRefused, Inv
  <2>3. /\ \E e \in Nat : a_expire' = [a_expire EXCEPT ![cur[t]] = e]
        /\ UNCHANGED <<a_result, a_cancel_fn, a_abort, a_stop, a_timeout, a_sleep,
                       a_expire_ok, eq_vars>>
    BY <1>12, <2>1, ScheduleFailsEffect DEF ProvRefused, Inv
  <2> QED
    BY <1>12, <2>1, <2>2, <2>3 DEF ProvRefused, Moved
<1>13. ASSUME NEW t \in Thread, ProvAtOnce(t)
     PROVE  Locals'
  <2>1. cur[t] \in Aio /\ ret[t] \in Places
    BY <1>13, InCall DEF ProvAtOnce
  <2> QED
    BY <1>13, <2>1 DEF ProvAtOnce, Goto
<1>14. ASSUME NEW t \in Thread, SleepSet(t)
     PROVE  Locals'
  <2>1. cur[t] \in Aio /\ ret[t] \in Places
    BY <1>14, InCall DEF SleepSet
  <2>2. \E ok \in BOOLEAN, e \in Nat : /\ a_expire_ok' = [a_expire_ok EXCEPT ![cur[t]] = ok]
                                      /\ a_expire' = [a_expire EXCEPT ![cur[t]] = e]
    BY <1>14, <2>1, SleepEffect DEF Inv
  <2> QED
    BY <1>14, <2>1, <2>2 DEF SleepSet, Goto
<1>15. ASSUME NEW t \in Thread, SleepStart(t)
     PROVE  Locals'
  <2>1. cur[t] \in Aio /\ ret[t] \in Places
    BY <1>15, InCall DEF SleepStart
  <2>2. PICK e \in Nat : Armed(cur[t], "sleep", e)
    BY <1>15, <2>1, ScheduleEffect DEF SleepStart, Inv
  <2>3. /\ Moved(t, ret[t], None, "idle") /\ ret[t] \in {"idle", "cb"}
        /\ rv' \in [Thread -> Results]
    BY <1>15, <2>1, ReturnEffect DEF SleepStart, Inv, Locals, StartPlaces
  <2> QED
    BY <1>15, <2>1, <2>2, <2>3 DEF SleepStart, Armed, Moved
<1>16. ASSUME NEW t \in Thread, SleepRefused(t)
     PROVE  Locals'
  <2>1. cur[t] \in Aio /\ ret[t] \in Places
    BY <1>16, InCall DEF SleepRefused
  <2>2. Moved(t, "finish", cur[t], ret[t]) /\ rv' \in [Thread -> Results]
    BY <1>16, <2>1, ScheduleFailsEffect DEF SleepRefused, Inv
  <2>3. /\ \E e \in Nat : a_expire' = [a_expire EXCEPT ![cur[t]] = e]
        /\ UNCHANGED <<a_result, a_cancel_fn, a_abort, a_stop, a_timeout, a_sleep,
                       a_expire_ok, eq_vars>>
    BY <1>16, <2>1, ScheduleFailsEffect DEF SleepRefused, Inv
  <2> QED
    BY <1>16, <2>1, <2>2, <2>3 DEF SleepRefused, Moved
<1>17. ASSUME NEW t \in Thread, ProvCancel(t)
     PROVE  Locals'
  BY <1>17 DEF ProvCancel, nni_aio_list_active, Goto
<1>18. ASSUME NEW t \in Thread, ProvCancelLate(t)
     PROVE  Locals'
  <2>1. cur[t] \in Aio /\ ret[t] \in Places
    BY <1>18, InCall DEF ProvCancelLate
  <2>2. /\ \/ ret[t] = "idle" /\ Moved(t, "idle", None, "idle")
           \/ ret[t] \in {"wait", "ffini", "expired"} /\ Moved(t, ret[t], cur[t], ret[t])
        /\ rv' \in [Thread -> Results]
    BY <1>18, <2>1, ReturnEffect DEF ProvCancelLate, Inv, Locals, CancelPlaces
  <2>3. CASE ret[t] = "idle"
    BY <1>18, <2>1, <2>2, <2>3 DEF ProvCancelLate, nni_aio_list_active, Moved
  <2>4. CASE ret[t] # "idle"
    BY <1>18, <2>1, <2>2, <2>4 DEF ProvCancelLate, nni_aio_list_active, Moved
  <2> QED
    BY <1>18, <2>1, <2>2, <2>3, <2>4 DEF ProvCancelLate, nni_aio_list_active, Moved
<1>19. ASSUME NEW t \in Thread, nni_sleep_cancel(t)
     PROVE  Locals'
  <2>1. cur[t] \in Aio /\ ret[t] \in Places
    BY <1>19, InCall DEF nni_sleep_cancel
  <2>2. a_sleep[cur[t]]
    BY <1>19 DEF nni_sleep_cancel, Inv, Carried
  <2> QED
    BY <1>19, <2>1, <2>2 DEF nni_sleep_cancel, nni_aio_expire_rm, Goto
<1>20. ASSUME NEW t \in Thread, nni_aio_finish_impl(t)
     PROVE  Locals'
  <2>1. cur[t] \in Aio /\ ret[t] \in Places
    BY <1>20, InCall DEF nni_aio_finish_impl
  <2> QED
    BY <1>20, <2>1 DEF nni_aio_finish_impl, nni_aio_expire_rm, Goto
<1>21. ASSUME NEW t \in Thread, nni_task_dispatch(t)
     PROVE  Locals'
  <2>1. cur[t] \in Aio /\ ret[t] \in Places
    BY <1>21, InCall DEF nni_task_dispatch
  <2>2. /\ \/ ret[t] \in {"idle", "cb"} /\ Moved(t, ret[t], None, "idle")
           \/ ret[t] \in {"wait", "ffini", "expired"} /\ Moved(t, ret[t], cur[t], ret[t])
        /\ rv' \in [Thread -> Results]
    BY <1>21, <2>1, ReturnEffect DEF nni_task_dispatch, Inv, Locals
  <2>3. CASE ret[t] \in {"idle", "cb"}
    BY <1>21, <2>1, <2>2, <2>3 DEF nni_task_dispatch, Unprep, Moved
  <2>4. CASE ret[t] \in {"wait", "ffini", "expired"}
    BY <1>21, <2>1, <2>2, <2>4 DEF nni_task_dispatch, Unprep, Moved
  <2> QED
    BY <1>21, <2>1, <2>2, <2>3, <2>4 DEF nni_task_dispatch, Unprep, Moved
<1>22. ASSUME NEW t \in Thread, nni_task_exec(t)
     PROVE  Locals'
  <2>1. cur[t] \in Aio /\ ret[t] \in Places
    BY <1>22, InCall DEF nni_task_exec
  <2>2. Moved(t, "cb", None, "idle") /\ rv' \in [Thread -> Results]
    BY <1>22, <2>1, ReturnEffect DEF nni_task_exec, Inv, Places
  <2> QED
    BY <1>22, <2>1, <2>2 DEF nni_task_exec, Unprep, Moved
<1>23. ASSUME NEW t \in Thread, CallbackReturns(t)
     PROVE  Locals'
  <2>1. cb[t] \in Aio /\ cur[t] = None
    BY <1>23 DEF CallbackReturns, Inv, TypeOK, ThreadTypes, Locals, CallPlaces, CarryPlaces, StartPlaces, CancelPlaces, FiniPlaces
  <2> QED
    BY <1>23, <2>1 DEF CallbackReturns, Goto
<1>24. ASSUME NEW t \in Thread, nni_task_wait(t)
     PROVE  Locals'
  <2>1. cur[t] \in Aio /\ ret[t] \in Places
    BY <1>24, InCall DEF nni_task_wait
  <2>2. Moved(t, "idle", None, "idle") /\ rv' \in [Thread -> Results]
    BY <1>24, <2>1, ReturnEffect DEF nni_task_wait, Inv, Places
  <2> QED
    BY <1>24, <2>1, <2>2 DEF nni_task_wait, Moved
<1>25. ASSUME NEW t \in Thread, FiniWoken(t)
     PROVE  Locals'
  <2>1. cur[t] \in Aio /\ ret[t] \in Places
    BY <1>25, InCall DEF FiniWoken
  <2>2. Took(t, cur[t], "fabort", "ffini", TRUE)
    BY <1>25, <2>1, CancelEffect DEF FiniWoken, Inv
  <2>3. CASE a_cancel_fn[cur[t]] = "none"
    BY <1>25, <2>1, <2>2, <2>3 DEF FiniWoken, FiniTake, MustWait, Took, Moved
  <2>4. CASE a_cancel_fn[cur[t]] = "prov"
    BY <1>25, <2>1, <2>2, <2>4 DEF FiniWoken, FiniTake, MustWait, Took, Moved
  <2>5. CASE a_cancel_fn[cur[t]] = "sleep"
    BY <1>25, <2>1, <2>2, <2>5 DEF FiniWoken, FiniTake, MustWait, Took, Moved
  <2> QED
    BY <1>25, <2>1, <2>2, <2>3, <2>4, <2>5 DEF FiniWoken, FiniTake, MustWait, Took, Moved
<1>26. ASSUME NEW t \in Thread, nni_task_abort(t)
     PROVE  Locals'
  <2>1. cur[t] \in Aio /\ ret[t] \in Places
    BY <1>26, InCall DEF nni_task_abort
  <2> QED
    BY <1>26, <2>1 DEF nni_task_abort, AbortBusy, Goto
<1>27. ASSUME NEW t \in Thread, nni_task_fini(t)
     PROVE  Locals'
  <2>1. cur[t] \in Aio /\ ret[t] \in Places
    BY <1>27, InCall DEF nni_task_fini
  <2>2. Moved(t, "idle", None, "idle") /\ rv' \in [Thread -> Results]
    BY <1>27, <2>1, ReturnEffect DEF nni_task_fini, Inv, Places
  <2> QED
    BY <1>27, <2>1, <2>2 DEF nni_task_fini, Moved
<1>28. ASSUME ExpireEarly
     PROVE  Locals'
  BY <1>28 DEF ExpireEarly, Goto
<1>29. ASSUME ExpireScan
     PROVE  Locals'
  BY <1>29 DEF ExpireScan, Batches, Rest, Expired, Earliest, Goto
<1>30. ASSUME NEW a \in Aio, ExpireItem(a)
     PROVE  Locals'
  <2>1. CASE a_cancel_fn[a] = "none"
    BY <1>30, <2>1 DEF ExpireItem, Goto
  <2>2. CASE a_cancel_fn[a] = "prov"
    BY <1>30, <2>2 DEF ExpireItem, Goto
  <2>3. CASE a_cancel_fn[a] = "sleep"
    BY <1>30, <2>3 DEF ExpireItem, Goto
  <2> QED
    BY <1>30, <2>1, <2>2, <2>3 DEF ExpireItem, Goto
<1>31. ASSUME ExpireItemDone
     PROVE  Locals'
  BY <1>31 DEF ExpireItemDone, Goto
<1>32. ASSUME ExpireBatchEnd
     PROVE  Locals'
  BY <1>32 DEF ExpireBatchEnd, Goto
<1>33. ASSUME ExpireWake
     PROVE  Locals'
  BY <1>33 DEF ExpireWake, Goto
<1>34. ASSUME ExpireExit
     PROVE  Locals'
  BY <1>34 DEF ExpireExit, Goto
<1>35. ASSUME nni_aio_expire_q_free
     PROVE  Locals'
  BY <1>35 DEF nni_aio_expire_q_free, WakeUntil
<1>36. ASSUME Tick
     PROVE  Locals'
  BY <1>36 DEF Tick
<1> QED
  BY <1>1, <1>2, <1>3, <1>4, <1>5, <1>6, <1>7, <1>8, <1>9, <1>10, <1>11, <1>12,
     <1>13, <1>14, <1>15, <1>16, <1>17, <1>18, <1>19, <1>20, <1>21, <1>22, <1>23,
     <1>24, <1>25, <1>26, <1>27, <1>28, <1>29, <1>30, <1>31, <1>32, <1>33, <1>34,
     <1>35, <1>36
     DEF Next, Proceed, Work, Environment, ExpireLoop

\* An operation stays at one place: Carried and Owned are preserved.
LEMMA PlacesStep ==
    ASSUME Inv, Next PROVE Carried' /\ Owned'
<1> USE ThreadAssumption, TimeAssumption
<1>1. ASSUME NEW t \in Thread, NEW a \in Aio, nni_aio_abort(t, a)
     PROVE  Carried' /\ Owned'
  <2>1. Took(t, a, "idle", "idle", FALSE) /\ pc[t] = "idle" /\ UNCHANGED inuse
    BY <1>1, CancelEffect DEF nni_aio_abort, Control, user_vars, Inv
  <2> QED
    BY <2>1, TookCarried DEF Idles, CarryPlaces, StartPlaces
<1>2. ASSUME NEW t \in Thread, NEW a \in Aio, nni_aio_close(t, a)
     PROVE  Carried' /\ Owned'
  <2>1. Took(t, a, "idle", "idle", TRUE) /\ pc[t] = "idle" /\ UNCHANGED inuse
    BY <1>2, CancelEffect DEF nni_aio_close, Control, user_vars, Inv
  <2> QED
    BY <2>1, TookCarried DEF Idles, CarryPlaces, StartPlaces
<1>3. ASSUME NEW t \in Thread, NEW a \in Aio, nni_aio_stop(t, a)
     PROVE  Carried' /\ Owned'
  <2>1. Took(t, a, "wait", "wait", TRUE) /\ pc[t] = "idle" /\ UNCHANGED inuse
    BY <1>3, CancelEffect DEF nni_aio_stop, Control, user_vars, Inv
  <2> QED
    BY <2>1, TookCarried DEF Idles, CarryPlaces, StartPlaces
<1>4. ASSUME NEW t \in Thread, NEW a \in Aio, Fini(t, a)
     PROVE  Carried' /\ Owned'
  <2>1. Took(t, a, "fabort", "ffini", TRUE) /\ pc[t] = "idle" /\ UNCHANGED inuse
    BY <1>4, CancelEffect DEF Fini, Free, Control, user_vars, Inv
  <2> QED
    BY <2>1, TookCarried DEF Idles, CarryPlaces, StartPlaces
<1>5. ASSUME NEW t \in Thread, ProvCancelLate(t)
     PROVE  Carried' /\ Owned'
  <2>1. cur[t] \in Aio /\ ret[t] \in Places
    BY <1>5, InCall DEF ProvCancelLate
  <2>2. /\ Idles(ret[t]) /\ Idles(pc[t])
        /\ pc'[t] = ret[t] /\ \A u \in Thread \ {t} : pc'[u] = pc[u] /\ cur'[u] = cur[u]
    BY <1>5, <2>1, ReturnEffect, MovedAt
       DEF ProvCancelLate, Inv, Locals, Idles, CarryPlaces, StartPlaces, CancelPlaces
  <2> QED
    BY <1>5, <2>2, IdleMove DEF ProvCancelLate, aio_vars, prov_vars, task_vars, user_vars
<1>6. ASSUME NEW t \in Thread, nni_sleep_cancel(t)
     PROVE  Carried' /\ Owned'
  <2>1. cur[t] \in Aio /\ ret[t] \in Places
    BY <1>6, InCall DEF nni_sleep_cancel
  <2>2. /\ pc[t] = "scancel" /\ pc'[t] = "finish" /\ cur'[t] = cur[t]
        /\ \A u \in Thread \ {t} : pc'[u] = pc[u] /\ cur'[u] = cur[u]
        /\ a_sleep' = [a_sleep EXCEPT ![cur[t]] = FALSE]
        /\ UNCHANGED <<inuse, prov_list, tq_tasks, task_prep, a_cancel_fn>>
    BY <1>6 DEF nni_sleep_cancel, Goto, Inv, Carried, TypeOK, ThreadTypes, task_vars, prov_vars, user_vars
  <2>3. /\ inuse[cur[t]] /\ cur[t] \notin prov_list \union tq_tasks
        /\ a_cancel_fn[cur[t]] # "sleep"
        /\ \A u \in Thread \ {t} : pc[u] \in CarryPlaces \union {"scancel"} => cur[u] # cur[t]
    BY <2>1, <2>2 DEF Inv, Carried, Owned
  <2>4. Carried'
    BY <2>1, <2>2, <2>3 DEF Inv, Carried, CarryPlaces, StartPlaces, TypeOK, HandleTypes
  <2>5. Owned'
    BY <2>1, <2>2, <2>3 DEF Inv, Owned, CarryPlaces, TypeOK, HandleTypes
  <2> QED
    BY <2>4, <2>5
<1>7. ASSUME NEW t \in Thread, nni_task_dispatch(t)
     PROVE  Carried' /\ Owned'
  <2>1. cur[t] \in Aio /\ ret[t] \in Places
    BY <1>7, InCall DEF nni_task_dispatch
  <2>2. /\ pc[t] = "dispatch" /\ pc'[t] = ret[t] /\ Idles(ret[t])
        /\ \A u \in Thread \ {t} : pc'[u] = pc[u] /\ cur'[u] = cur[u]
        /\ tq_tasks' = tq_tasks \union {cur[t]}
        /\ task_prep' = [task_prep EXCEPT ![cur[t]] = FALSE]
        /\ UNCHANGED <<inuse, prov_list, a_sleep, a_cancel_fn>>
    BY <1>7, <2>1, ReturnEffect, MovedAt
       DEF nni_task_dispatch, Inv, Locals, Idles, CarryPlaces, StartPlaces, Unprep, aio_vars, user_vars
  <2>3. /\ inuse[cur[t]] /\ cur[t] \notin prov_list /\ ~a_sleep[cur[t]]
        /\ \A u \in Thread \ {t} : pc[u] \in CarryPlaces \union {"scancel"} => cur[u] # cur[t]
    BY <2>1, <2>2 DEF Inv, Carried, CarryPlaces
  <2>4. Carried'
    BY <2>1, <2>2, <2>3 DEF Inv, Carried, Idles, CarryPlaces, StartPlaces
  <2>5. Owned'
    BY <2>1, <2>2, <2>3 DEF Inv, Owned, Idles, TypeOK, TaskTypes
  <2> QED
    BY <2>4, <2>5
<1>8. ASSUME NEW t \in Thread, FiniWoken(t)
     PROVE  Carried' /\ Owned'
  <2>1. cur[t] \in Aio /\ ret[t] \in Places
    BY <1>8, InCall DEF FiniWoken
  <2>2. Took(t, cur[t], "fabort", "ffini", TRUE) /\ pc[t] = "fwait" /\ UNCHANGED inuse
    BY <1>8, <2>1, CancelEffect DEF FiniWoken, Inv, user_vars
  <2> QED
    BY <2>1, <2>2, TookCarried DEF Idles, CarryPlaces, StartPlaces
<1>9. ASSUME NEW a \in Aio, ExpireItem(a)
     PROVE  Carried' /\ Owned'
  <2>1. /\ pc[Expire] = "item" /\ Expire \in Thread /\ a_cancel_fn'[a] = "none"
        /\ \A b \in Aio \ {a} : a_cancel_fn'[b] = a_cancel_fn[b]
        /\ UNCHANGED <<inuse, prov_list, tq_tasks, a_sleep, task_prep>>
    BY <1>9 DEF ExpireItem, Inv, TypeOK, HandleTypes, Thread, task_vars, prov_vars, user_vars
  <2>2. a_cancel_fn[a] \in {"none", "prov", "sleep"}
    BY DEF Inv, TypeOK, HandleTypes
  <2>3. CASE a_cancel_fn[a] = "none"
    BY <1>9, <2>1, <2>3, IdleMove DEF ExpireItem, Idles, CarryPlaces, StartPlaces
  <2>4. CASE a_cancel_fn[a] # "none"
    <3>1. /\ pc'[Expire] = (IF a_cancel_fn[a] = "prov" THEN "pcancel" ELSE "scancel")
          /\ cur'[Expire] = a
          /\ \A u \in Thread \ {Expire} : pc'[u] = pc[u] /\ cur'[u] = cur[u]
      BY <1>9, <2>1, <2>4 DEF ExpireItem, Goto, Inv, TypeOK, ThreadTypes
    <3>2. CASE a_cancel_fn[a] = "prov"
      BY <2>1, <3>1, <3>2, IdleMove DEF Idles, CarryPlaces, StartPlaces
    <3>3. CASE a_cancel_fn[a] = "sleep"
      BY <2>1, <3>1, <3>3, SleepTaken DEF Idles, CarryPlaces, StartPlaces
    <3> QED
      BY <2>2, <2>4, <3>2, <3>3
  <2> QED
    BY <2>3, <2>4
<1> USE DEF Inv, Carried, Owned, TypeOK, ThreadTypes, TaskTypes, HandleTypes,
            UserTypes, CarryPlaces, StartPlaces, vars, aio_vars, task_vars, eq_vars,
            prov_vars, thr_vars, user_vars
<1>10. ASSUME NEW t \in Thread, NEW a \in Aio,
            NEW d \in Timeouts \union {Infinite}, NEW next \in {"sched", "sleepset"},Begin(t, a, d, next)
     PROVE  Carried' /\ Owned'
  <2>1. Carried'
    BY <1>10 DEF Begin, CanStart, PrepBusy, Goto
  <2>2. Owned'
    BY <1>10, SMTT(60) DEF Begin, CanStart, PrepBusy, Goto
  <2> QED
    BY <2>1, <2>2
<1>11. ASSUME NEW t \in Thread, NEW a \in Aio, BeginStopped(t, a)
     PROVE  Carried' /\ Owned'
  <2>1. Carried'
    BY <1>11 DEF BeginStopped, CanStart
  <2>2. Owned'
    BY <1>11 DEF BeginStopped, CanStart
  <2> QED
    BY <2>1, <2>2
<1>12. ASSUME NEW t \in Thread, NEW a \in Aio, FiniWaits(t, a)
     PROVE  Carried' /\ Owned'
  <2>1. Carried'
    BY <1>12 DEF FiniWaits, Free, Control, Alone, MustWait, Goto
  <2>2. Owned'
    BY <1>12, SMTT(60) DEF FiniWaits, Free, Control, Alone, MustWait, Goto
  <2> QED
    BY <2>1, <2>2
<1>13. ASSUME NEW t \in Thread, NEW a \in Aio, Complete(t, a)
     PROVE  Carried' /\ Owned'
  <2>1. Carried'
    BY <1>13 DEF Complete, Goto
  <2>2. Owned'
    BY <1>13 DEF Complete, Goto
  <2> QED
    BY <2>1, <2>2
<1>14. ASSUME NEW t \in Thread, NEW a \in Aio, CompleteSync(t, a)
     PROVE  Carried' /\ Owned'
  <2>1. Carried'
    BY <1>14 DEF CompleteSync, Goto
  <2>2. Owned'
    BY <1>14 DEF CompleteSync, Goto
  <2> QED
    BY <2>1, <2>2
<1>15. ASSUME NEW t \in Thread, NEW a \in Aio, RunTask(t, a)
     PROVE  Carried' /\ Owned'
  <2>1. Carried'
    BY <1>15 DEF RunTask, Goto
  <2>2. Owned'
    BY <1>15 DEF RunTask, Goto
  <2> QED
    BY <2>1, <2>2
<1>16. ASSUME NEW t \in Thread, ProvStart(t)
     PROVE  Carried' /\ Owned'
  <2>1. cur[t] \in Aio /\ ret[t] \in Places
    BY <1>16, InCall DEF ProvStart
  <2>2. PICK e \in Nat : Armed(cur[t], "prov", e)
    BY <1>16, <2>1, ScheduleEffect DEF ProvStart, Inv
  <2>3. /\ Moved(t, ret[t], None, "idle") /\ ret[t] \in {"idle", "cb"}
        /\ rv' \in [Thread -> Results]
    BY <1>16, <2>1, ReturnEffect DEF ProvStart, Inv, Locals, StartPlaces
  <2>4. Carried'
    BY <1>16, <2>1, <2>2, <2>3 DEF ProvStart, Armed, Moved
  <2>5. Owned'
    BY <1>16, <2>1, <2>2, <2>3 DEF ProvStart, Armed, Moved
  <2> QED
    BY <2>4, <2>5
<1>17. ASSUME NEW t \in Thread, ProvRefused(t)
     PROVE  Carried' /\ Owned'
  <2>1. cur[t] \in Aio /\ ret[t] \in Places
    BY <1>17, InCall DEF ProvRefused
  <2>2. Moved(t, "finish", cur[t], ret[t]) /\ rv' \in [Thread -> Results]
    BY <1>17, <2>1, ScheduleFailsEffect DEF ProvRefused, Inv
  <2>3. /\ \E e \in Nat : a_expire' = [a_expire EXCEPT ![cur[t]] = e]
        /\ UNCHANGED <<a_result, a_cancel_fn, a_abort, a_stop, a_timeout, a_sleep,
                       a_expire_ok, eq_vars>>
    BY <1>17, <2>1, ScheduleFailsEffect DEF ProvRefused, Inv
  <2>4. Carried'
    BY <1>17, <2>1, <2>2, <2>3 DEF ProvRefused, Moved
  <2>5. Owned'
    BY <1>17, <2>1, <2>2, <2>3 DEF ProvRefused, Moved
  <2> QED
    BY <2>4, <2>5
<1>18. ASSUME NEW t \in Thread, ProvAtOnce(t)
     PROVE  Carried' /\ Owned'
  <2>1. cur[t] \in Aio /\ ret[t] \in Places
    BY <1>18, InCall DEF ProvAtOnce
  <2>2. Carried'
    BY <1>18, <2>1 DEF ProvAtOnce, Goto
  <2>3. Owned'
    BY <1>18, <2>1 DEF ProvAtOnce, Goto
  <2> QED
    BY <2>2, <2>3
<1>19. ASSUME NEW t \in Thread, SleepSet(t)
     PROVE  Carried' /\ Owned'
  <2>1. cur[t] \in Aio /\ ret[t] \in Places
    BY <1>19, InCall DEF SleepSet
  <2>2. \E ok \in BOOLEAN, e \in Nat : /\ a_expire_ok' = [a_expire_ok EXCEPT ![cur[t]] = ok]
                                      /\ a_expire' = [a_expire EXCEPT ![cur[t]] = e]
    BY <1>19, <2>1, SleepEffect DEF Inv
  <2>3. Carried'
    BY <1>19, <2>1, <2>2 DEF SleepSet, Goto
  <2>4. Owned'
    BY <1>19, <2>1, <2>2 DEF SleepSet, Goto
  <2> QED
    BY <2>3, <2>4
<1>20. ASSUME NEW t \in Thread, SleepStart(t)
     PROVE  Carried' /\ Owned'
  <2>1. cur[t] \in Aio /\ ret[t] \in Places
    BY <1>20, InCall DEF SleepStart
  <2>2. PICK e \in Nat : Armed(cur[t], "sleep", e)
    BY <1>20, <2>1, ScheduleEffect DEF SleepStart, Inv
  <2>3. /\ Moved(t, ret[t], None, "idle") /\ ret[t] \in {"idle", "cb"}
        /\ rv' \in [Thread -> Results]
    BY <1>20, <2>1, ReturnEffect DEF SleepStart, Inv, Locals, StartPlaces
  <2>4. Carried'
    BY <1>20, <2>1, <2>2, <2>3 DEF SleepStart, Armed, Moved
  <2>5. Owned'
    BY <1>20, <2>1, <2>2, <2>3 DEF SleepStart, Armed, Moved
  <2> QED
    BY <2>4, <2>5
<1>21. ASSUME NEW t \in Thread, SleepRefused(t)
     PROVE  Carried' /\ Owned'
  <2>1. cur[t] \in Aio /\ ret[t] \in Places
    BY <1>21, InCall DEF SleepRefused
  <2>2. Moved(t, "finish", cur[t], ret[t]) /\ rv' \in [Thread -> Results]
    BY <1>21, <2>1, ScheduleFailsEffect DEF SleepRefused, Inv
  <2>3. /\ \E e \in Nat : a_expire' = [a_expire EXCEPT ![cur[t]] = e]
        /\ UNCHANGED <<a_result, a_cancel_fn, a_abort, a_stop, a_timeout, a_sleep,
                       a_expire_ok, eq_vars>>
    BY <1>21, <2>1, ScheduleFailsEffect DEF SleepRefused, Inv
  <2>4. Carried'
    BY <1>21, <2>1, <2>2, <2>3 DEF SleepRefused, Moved
  <2>5. Owned'
    BY <1>21, <2>1, <2>2, <2>3 DEF SleepRefused, Moved
  <2> QED
    BY <2>4, <2>5
<1>22. ASSUME NEW t \in Thread, ProvCancel(t)
     PROVE  Carried' /\ Owned'
  <2>1. Carried'
    BY <1>22 DEF ProvCancel, nni_aio_list_active, Goto
  <2>2. Owned'
    BY <1>22 DEF ProvCancel, nni_aio_list_active, Goto
  <2> QED
    BY <2>1, <2>2
<1>23. ASSUME NEW t \in Thread, nni_aio_finish_impl(t)
     PROVE  Carried' /\ Owned'
  <2>1. cur[t] \in Aio /\ ret[t] \in Places
    BY <1>23, InCall DEF nni_aio_finish_impl
  <2>2. Carried'
    BY <1>23, <2>1 DEF nni_aio_finish_impl, nni_aio_expire_rm, Goto
  <2>3. Owned'
    BY <1>23, <2>1 DEF nni_aio_finish_impl, nni_aio_expire_rm, Goto
  <2> QED
    BY <2>2, <2>3
<1>24. ASSUME NEW t \in Thread, nni_task_exec(t)
     PROVE  Carried' /\ Owned'
  <2>1. cur[t] \in Aio /\ ret[t] \in Places
    BY <1>24, InCall DEF nni_task_exec
  <2>2. Moved(t, "cb", None, "idle") /\ rv' \in [Thread -> Results]
    BY <1>24, <2>1, ReturnEffect DEF nni_task_exec, Inv, Places
  <2>3. Carried'
    BY <1>24, <2>1, <2>2 DEF nni_task_exec, Unprep, Moved
  <2>4. Owned'
    BY <1>24, <2>1, <2>2 DEF nni_task_exec, Unprep, Moved
  <2> QED
    BY <2>3, <2>4
<1>25. ASSUME NEW t \in Thread, CallbackReturns(t)
     PROVE  Carried' /\ Owned'
  <2>1. cb[t] \in Aio /\ cur[t] = None
    BY <1>25 DEF CallbackReturns, Inv, TypeOK, ThreadTypes, Locals, CallPlaces, CarryPlaces, StartPlaces, CancelPlaces, FiniPlaces
  <2>2. Carried'
    BY <1>25, <2>1 DEF CallbackReturns, Goto
  <2>3. Owned'
    BY <1>25, <2>1 DEF CallbackReturns, Goto
  <2> QED
    BY <2>2, <2>3
<1>26. ASSUME NEW t \in Thread, nni_task_wait(t)
     PROVE  Carried' /\ Owned'
  <2>1. cur[t] \in Aio /\ ret[t] \in Places
    BY <1>26, InCall DEF nni_task_wait
  <2>2. Moved(t, "idle", None, "idle") /\ rv' \in [Thread -> Results]
    BY <1>26, <2>1, ReturnEffect DEF nni_task_wait, Inv, Places
  <2>3. Carried'
    BY <1>26, <2>1, <2>2 DEF nni_task_wait, Moved
  <2>4. Owned'
    BY <1>26, <2>1, <2>2 DEF nni_task_wait, Moved
  <2> QED
    BY <2>3, <2>4
<1>27. ASSUME NEW t \in Thread, nni_task_abort(t)
     PROVE  Carried' /\ Owned'
  <2>1. cur[t] \in Aio /\ ret[t] \in Places
    BY <1>27, InCall DEF nni_task_abort
  <2>2. Carried'
    BY <1>27, <2>1 DEF nni_task_abort, AbortBusy, Goto
  <2>3. Owned'
    BY <1>27, <2>1 DEF nni_task_abort, AbortBusy, Goto
  <2> QED
    BY <2>2, <2>3
<1>28. ASSUME NEW t \in Thread, nni_task_fini(t)
     PROVE  Carried' /\ Owned'
  <2>1. cur[t] \in Aio /\ ret[t] \in Places
    BY <1>28, InCall DEF nni_task_fini
  <2>2. Moved(t, "idle", None, "idle") /\ rv' \in [Thread -> Results]
    BY <1>28, <2>1, ReturnEffect DEF nni_task_fini, Inv, Places
  <2>3. Carried'
    BY <1>28, <2>1, <2>2 DEF nni_task_fini, Moved
  <2>4. Owned'
    BY <1>28, <2>1, <2>2 DEF nni_task_fini, Moved
  <2> QED
    BY <2>3, <2>4
<1>29. ASSUME ExpireEarly
     PROVE  Carried' /\ Owned'
  <2>1. Carried'
    BY <1>29 DEF ExpireEarly, Goto
  <2>2. Owned'
    BY <1>29 DEF ExpireEarly, Goto
  <2> QED
    BY <2>1, <2>2
<1>30. ASSUME ExpireScan
     PROVE  Carried' /\ Owned'
  <2>1. Carried'
    BY <1>30 DEF ExpireScan, Batches, Rest, Expired, Earliest, Goto
  <2>2. Owned'
    BY <1>30 DEF ExpireScan, Batches, Rest, Expired, Earliest, Goto
  <2> QED
    BY <2>1, <2>2
<1>31. ASSUME ExpireItemDone
     PROVE  Carried' /\ Owned'
  <2>1. Carried'
    BY <1>31 DEF ExpireItemDone, Goto
  <2>2. Owned'
    BY <1>31 DEF ExpireItemDone, Goto
  <2> QED
    BY <2>1, <2>2
<1>32. ASSUME ExpireBatchEnd
     PROVE  Carried' /\ Owned'
  <2>1. Carried'
    BY <1>32 DEF ExpireBatchEnd, Goto
  <2>2. Owned'
    BY <1>32 DEF ExpireBatchEnd, Goto
  <2> QED
    BY <2>1, <2>2
<1>33. ASSUME ExpireWake
     PROVE  Carried' /\ Owned'
  <2>1. Carried'
    BY <1>33 DEF ExpireWake, Goto
  <2>2. Owned'
    BY <1>33 DEF ExpireWake, Goto
  <2> QED
    BY <2>1, <2>2
<1>34. ASSUME ExpireExit
     PROVE  Carried' /\ Owned'
  <2>1. Carried'
    BY <1>34 DEF ExpireExit, Goto
  <2>2. Owned'
    BY <1>34 DEF ExpireExit, Goto
  <2> QED
    BY <2>1, <2>2
<1>35. ASSUME nni_aio_expire_q_free
     PROVE  Carried' /\ Owned'
  <2>1. Carried'
    BY <1>35 DEF nni_aio_expire_q_free, WakeUntil
  <2>2. Owned'
    BY <1>35 DEF nni_aio_expire_q_free, WakeUntil
  <2> QED
    BY <2>1, <2>2
<1>36. ASSUME Tick
     PROVE  Carried' /\ Owned'
  <2>1. Carried'
    BY <1>36 DEF Tick
  <2>2. Owned'
    BY <1>36 DEF Tick
  <2> QED
    BY <2>1, <2>2
<1> QED
  BY <1>1, <1>2, <1>3, <1>4, <1>5, <1>6, <1>7, <1>8, <1>9, <1>10, <1>11, <1>12,
     <1>13, <1>14, <1>15, <1>16, <1>17, <1>18, <1>19, <1>20, <1>21, <1>22, <1>23,
     <1>24, <1>25, <1>26, <1>27, <1>28, <1>29, <1>30, <1>31, <1>32, <1>33, <1>34,
     <1>35, <1>36
     DEF Next, Proceed, Work, Environment, ExpireLoop

\* Unlisted is preserved.
LEMMA UnlistedStep ==
    ASSUME Inv, Next PROVE Unlisted'
<1> USE ThreadAssumption, TimeAssumption
<1> USE DEF Inv, Unlisted, TypeOK, HandleTypes, TaskTypes, QueueTypes, ThreadTypes,
            UserTypes, Carried, Owned, CarryPlaces, StartPlaces, Thread, vars,
            aio_vars, task_vars, eq_vars, prov_vars, thr_vars, user_vars
<1>1. ASSUME NEW t \in Thread, NEW a \in Aio,
            NEW d \in Timeouts \union {Infinite}, NEW next \in {"sched", "sleepset"},Begin(t, a, d, next)
     PROVE  Unlisted'
  BY <1>1 DEF Begin, CanStart, PrepBusy, Goto
<1>2. ASSUME NEW t \in Thread, NEW a \in Aio, BeginStopped(t, a)
     PROVE  Unlisted'
  BY <1>2 DEF BeginStopped, CanStart
<1>3. ASSUME NEW t \in Thread, NEW a \in Aio, nni_aio_abort(t, a)
     PROVE  Unlisted'
  <2>1. Took(t, a, "idle", "idle", FALSE) /\ Control(t, a) /\ UNCHANGED user_vars
    BY <1>3, CancelEffect DEF nni_aio_abort, Inv
  <2>2. CASE a_cancel_fn[a] = "none"
    BY <2>1, <2>2 DEF Control, Took, Moved
  <2>3. CASE a_cancel_fn[a] = "prov"
    BY <2>1, <2>3 DEF Control, Took, Moved
  <2>4. CASE a_cancel_fn[a] = "sleep"
    BY <2>1, <2>4 DEF Control, Took, Moved
  <2> QED
    BY <2>1, <2>2, <2>3, <2>4 DEF Control, Took, Moved
<1>4. ASSUME NEW t \in Thread, NEW a \in Aio, nni_aio_close(t, a)
     PROVE  Unlisted'
  <2>1. Took(t, a, "idle", "idle", TRUE) /\ Control(t, a) /\ UNCHANGED user_vars
    BY <1>4, CancelEffect DEF nni_aio_close, Inv
  <2>2. CASE a_cancel_fn[a] = "none"
    BY <2>1, <2>2 DEF Control, Took, Moved
  <2>3. CASE a_cancel_fn[a] = "prov"
    BY <2>1, <2>3 DEF Control, Took, Moved
  <2>4. CASE a_cancel_fn[a] = "sleep"
    BY <2>1, <2>4 DEF Control, Took, Moved
  <2> QED
    BY <2>1, <2>2, <2>3, <2>4 DEF Control, Took, Moved
<1>5. ASSUME NEW t \in Thread, NEW a \in Aio, nni_aio_stop(t, a)
     PROVE  Unlisted'
  <2>1. Took(t, a, "wait", "wait", TRUE) /\ Control(t, a) /\ UNCHANGED user_vars
    BY <1>5, CancelEffect DEF nni_aio_stop, Inv
  <2>2. CASE a_cancel_fn[a] = "none"
    BY <2>1, <2>2 DEF Control, Took, Moved
  <2>3. CASE a_cancel_fn[a] = "prov"
    BY <2>1, <2>3 DEF Control, Took, Moved
  <2>4. CASE a_cancel_fn[a] = "sleep"
    BY <2>1, <2>4 DEF Control, Took, Moved
  <2> QED
    BY <2>1, <2>2, <2>3, <2>4 DEF Control, Took, Moved
<1>6. ASSUME NEW t \in Thread, NEW a \in Aio, Fini(t, a)
     PROVE  Unlisted'
  <2>1. Took(t, a, "fabort", "ffini", TRUE)
    BY <1>6, CancelEffect DEF Fini, Inv
  <2>2. CASE a_cancel_fn[a] = "none"
    BY <1>6, <2>1, <2>2 DEF Fini, FiniTake, Free, Alone, MustWait, Control, Took, Moved
  <2>3. CASE a_cancel_fn[a] = "prov"
    BY <1>6, <2>1, <2>3 DEF Fini, FiniTake, Free, Alone, MustWait, Control, Took, Moved
  <2>4. CASE a_cancel_fn[a] = "sleep"
    BY <1>6, <2>1, <2>4 DEF Fini, FiniTake, Free, Alone, MustWait, Control, Took, Moved
  <2> QED
    BY <1>6, <2>1, <2>2, <2>3, <2>4 DEF Fini, FiniTake, Free, Alone, MustWait, Control, Took, Moved
<1>7. ASSUME NEW t \in Thread, NEW a \in Aio, FiniWaits(t, a)
     PROVE  Unlisted'
  BY <1>7 DEF FiniWaits, Free, Control, Alone, MustWait, Goto
<1>8. ASSUME NEW t \in Thread, NEW a \in Aio, Complete(t, a)
     PROVE  Unlisted'
  BY <1>8 DEF Complete, Goto
<1>9. ASSUME NEW t \in Thread, NEW a \in Aio, CompleteSync(t, a)
     PROVE  Unlisted'
  BY <1>9 DEF CompleteSync, Goto
<1>10. ASSUME NEW t \in Thread, NEW a \in Aio, RunTask(t, a)
     PROVE  Unlisted'
  BY <1>10 DEF RunTask, Goto
<1>11. ASSUME NEW t \in Thread, ProvStart(t)
     PROVE  Unlisted'
  <2>1. cur[t] \in Aio /\ ret[t] \in Places
    BY <1>11, InCall DEF ProvStart
  <2>2. PICK e \in Nat : Armed(cur[t], "prov", e)
    BY <1>11, <2>1, ScheduleEffect DEF ProvStart, Inv
  <2>3. /\ Moved(t, ret[t], None, "idle") /\ ret[t] \in {"idle", "cb"}
        /\ rv' \in [Thread -> Results]
    BY <1>11, <2>1, ReturnEffect DEF ProvStart, Inv, Locals, StartPlaces
  <2> QED
    BY <1>11, <2>1, <2>2, <2>3 DEF ProvStart, Armed, Moved
<1>12. ASSUME NEW t \in Thread, ProvRefused(t)
     PROVE  Unlisted'
  <2>1. cur[t] \in Aio /\ ret[t] \in Places
    BY <1>12, InCall DEF ProvRefused
  <2>2. Moved(t, "finish", cur[t], ret[t]) /\ rv' \in [Thread -> Results]
    BY <1>12, <2>1, ScheduleFailsEffect DEF ProvRefused, Inv
  <2>3. /\ \E e \in Nat : a_expire' = [a_expire EXCEPT ![cur[t]] = e]
        /\ UNCHANGED <<a_result, a_cancel_fn, a_abort, a_stop, a_timeout, a_sleep,
                       a_expire_ok, eq_vars>>
    BY <1>12, <2>1, ScheduleFailsEffect DEF ProvRefused, Inv
  <2> QED
    BY <1>12, <2>1, <2>2, <2>3 DEF ProvRefused, Moved
<1>13. ASSUME NEW t \in Thread, ProvAtOnce(t)
     PROVE  Unlisted'
  <2>1. cur[t] \in Aio /\ ret[t] \in Places
    BY <1>13, InCall DEF ProvAtOnce
  <2> QED
    BY <1>13, <2>1 DEF ProvAtOnce, Goto
<1>14. ASSUME NEW t \in Thread, SleepSet(t)
     PROVE  Unlisted'
  <2>1. cur[t] \in Aio /\ ret[t] \in Places
    BY <1>14, InCall DEF SleepSet
  <2>2. \E ok \in BOOLEAN, e \in Nat : /\ a_expire_ok' = [a_expire_ok EXCEPT ![cur[t]] = ok]
                                      /\ a_expire' = [a_expire EXCEPT ![cur[t]] = e]
    BY <1>14, <2>1, SleepEffect DEF Inv
  <2> QED
    BY <1>14, <2>1, <2>2 DEF SleepSet, Goto
<1>15. ASSUME NEW t \in Thread, SleepStart(t)
     PROVE  Unlisted'
  <2>1. cur[t] \in Aio /\ ret[t] \in Places
    BY <1>15, InCall DEF SleepStart
  <2>2. PICK e \in Nat : Armed(cur[t], "sleep", e)
    BY <1>15, <2>1, ScheduleEffect DEF SleepStart, Inv
  <2>3. /\ Moved(t, ret[t], None, "idle") /\ ret[t] \in {"idle", "cb"}
        /\ rv' \in [Thread -> Results]
    BY <1>15, <2>1, ReturnEffect DEF SleepStart, Inv, Locals, StartPlaces
  <2> QED
    BY <1>15, <2>1, <2>2, <2>3 DEF SleepStart, Armed, Moved
<1>16. ASSUME NEW t \in Thread, SleepRefused(t)
     PROVE  Unlisted'
  <2>1. cur[t] \in Aio /\ ret[t] \in Places
    BY <1>16, InCall DEF SleepRefused
  <2>2. Moved(t, "finish", cur[t], ret[t]) /\ rv' \in [Thread -> Results]
    BY <1>16, <2>1, ScheduleFailsEffect DEF SleepRefused, Inv
  <2>3. /\ \E e \in Nat : a_expire' = [a_expire EXCEPT ![cur[t]] = e]
        /\ UNCHANGED <<a_result, a_cancel_fn, a_abort, a_stop, a_timeout, a_sleep,
                       a_expire_ok, eq_vars>>
    BY <1>16, <2>1, ScheduleFailsEffect DEF SleepRefused, Inv
  <2> QED
    BY <1>16, <2>1, <2>2, <2>3 DEF SleepRefused, Moved
<1>17. ASSUME NEW t \in Thread, ProvCancel(t)
     PROVE  Unlisted'
  BY <1>17 DEF ProvCancel, nni_aio_list_active, Goto
<1>18. ASSUME NEW t \in Thread, ProvCancelLate(t)
     PROVE  Unlisted'
  <2>1. cur[t] \in Aio /\ ret[t] \in Places
    BY <1>18, InCall DEF ProvCancelLate
  <2>2. /\ \/ ret[t] = "idle" /\ Moved(t, "idle", None, "idle")
           \/ ret[t] \in {"wait", "ffini", "expired"} /\ Moved(t, ret[t], cur[t], ret[t])
        /\ rv' \in [Thread -> Results]
    BY <1>18, <2>1, ReturnEffect DEF ProvCancelLate, Inv, Locals, CancelPlaces
  <2>3. CASE ret[t] = "idle"
    BY <1>18, <2>1, <2>2, <2>3 DEF ProvCancelLate, nni_aio_list_active, Moved
  <2>4. CASE ret[t] # "idle"
    BY <1>18, <2>1, <2>2, <2>4 DEF ProvCancelLate, nni_aio_list_active, Moved
  <2> QED
    BY <1>18, <2>1, <2>2, <2>3, <2>4 DEF ProvCancelLate, nni_aio_list_active, Moved
<1>19. ASSUME NEW t \in Thread, nni_sleep_cancel(t)
     PROVE  Unlisted'
  <2>1. cur[t] \in Aio /\ ret[t] \in Places
    BY <1>19, InCall DEF nni_sleep_cancel
  <2>2. a_sleep[cur[t]]
    BY <1>19 DEF nni_sleep_cancel, Inv, Carried
  <2> QED
    BY <1>19, <2>1, <2>2 DEF nni_sleep_cancel, nni_aio_expire_rm, Goto
<1>20. ASSUME NEW t \in Thread, nni_aio_finish_impl(t)
     PROVE  Unlisted'
  <2>1. cur[t] \in Aio /\ ret[t] \in Places
    BY <1>20, InCall DEF nni_aio_finish_impl
  <2> QED
    BY <1>20, <2>1 DEF nni_aio_finish_impl, nni_aio_expire_rm, Goto
<1>21. ASSUME NEW t \in Thread, nni_task_dispatch(t)
     PROVE  Unlisted'
  <2>1. cur[t] \in Aio /\ ret[t] \in Places
    BY <1>21, InCall DEF nni_task_dispatch
  <2>2. /\ \/ ret[t] \in {"idle", "cb"} /\ Moved(t, ret[t], None, "idle")
           \/ ret[t] \in {"wait", "ffini", "expired"} /\ Moved(t, ret[t], cur[t], ret[t])
        /\ rv' \in [Thread -> Results]
    BY <1>21, <2>1, ReturnEffect DEF nni_task_dispatch, Inv, Locals
  <2>3. CASE ret[t] \in {"idle", "cb"}
    BY <1>21, <2>1, <2>2, <2>3, SMTT(60) DEF nni_task_dispatch, Unprep, Moved
  <2>4. CASE ret[t] \in {"wait", "ffini", "expired"}
    BY <1>21, <2>1, <2>2, <2>4, SMTT(60) DEF nni_task_dispatch, Unprep, Moved
  <2> QED
    BY <1>21, <2>1, <2>2, <2>3, <2>4 DEF nni_task_dispatch, Unprep, Moved
<1>22. ASSUME NEW t \in Thread, nni_task_exec(t)
     PROVE  Unlisted'
  <2>1. cur[t] \in Aio /\ ret[t] \in Places
    BY <1>22, InCall DEF nni_task_exec
  <2>2. Moved(t, "cb", None, "idle") /\ rv' \in [Thread -> Results]
    BY <1>22, <2>1, ReturnEffect DEF nni_task_exec, Inv, Places
  <2> QED
    BY <1>22, <2>1, <2>2 DEF nni_task_exec, Unprep, Moved
<1>23. ASSUME NEW t \in Thread, CallbackReturns(t)
     PROVE  Unlisted'
  <2>1. cb[t] \in Aio /\ cur[t] = None
    BY <1>23 DEF CallbackReturns, Inv, TypeOK, ThreadTypes, Locals, CallPlaces, CarryPlaces, StartPlaces, CancelPlaces, FiniPlaces
  <2> QED
    BY <1>23, <2>1 DEF CallbackReturns, Goto
<1>24. ASSUME NEW t \in Thread, nni_task_wait(t)
     PROVE  Unlisted'
  <2>1. cur[t] \in Aio /\ ret[t] \in Places
    BY <1>24, InCall DEF nni_task_wait
  <2>2. Moved(t, "idle", None, "idle") /\ rv' \in [Thread -> Results]
    BY <1>24, <2>1, ReturnEffect DEF nni_task_wait, Inv, Places
  <2> QED
    BY <1>24, <2>1, <2>2 DEF nni_task_wait, Moved
<1>25. ASSUME NEW t \in Thread, FiniWoken(t)
     PROVE  Unlisted'
  <2>1. cur[t] \in Aio /\ ret[t] \in Places
    BY <1>25, InCall DEF FiniWoken
  <2>2. Took(t, cur[t], "fabort", "ffini", TRUE)
    BY <1>25, <2>1, CancelEffect DEF FiniWoken, Inv
  <2>3. CASE a_cancel_fn[cur[t]] = "none"
    BY <1>25, <2>1, <2>2, <2>3 DEF FiniWoken, FiniTake, MustWait, Took, Moved
  <2>4. CASE a_cancel_fn[cur[t]] = "prov"
    BY <1>25, <2>1, <2>2, <2>4 DEF FiniWoken, FiniTake, MustWait, Took, Moved
  <2>5. CASE a_cancel_fn[cur[t]] = "sleep"
    BY <1>25, <2>1, <2>2, <2>5 DEF FiniWoken, FiniTake, MustWait, Took, Moved
  <2> QED
    BY <1>25, <2>1, <2>2, <2>3, <2>4, <2>5 DEF FiniWoken, FiniTake, MustWait, Took, Moved
<1>26. ASSUME NEW t \in Thread, nni_task_abort(t)
     PROVE  Unlisted'
  <2>1. cur[t] \in Aio /\ ret[t] \in Places
    BY <1>26, InCall DEF nni_task_abort
  <2> QED
    BY <1>26, <2>1 DEF nni_task_abort, AbortBusy, Goto
<1>27. ASSUME NEW t \in Thread, nni_task_fini(t)
     PROVE  Unlisted'
  <2>1. cur[t] \in Aio /\ ret[t] \in Places
    BY <1>27, InCall DEF nni_task_fini
  <2>2. Moved(t, "idle", None, "idle") /\ rv' \in [Thread -> Results]
    BY <1>27, <2>1, ReturnEffect DEF nni_task_fini, Inv, Places
  <2> QED
    BY <1>27, <2>1, <2>2 DEF nni_task_fini, Moved
<1>28. ASSUME ExpireEarly
     PROVE  Unlisted'
  BY <1>28 DEF ExpireEarly, Goto
<1>29. ASSUME ExpireScan
     PROVE  Unlisted'
  BY <1>29 DEF ExpireScan, Batches, Rest, Expired, Earliest, Goto
<1>30. ASSUME NEW a \in Aio, ExpireItem(a)
     PROVE  Unlisted'
  <2>1. CASE a_cancel_fn[a] = "none"
    BY <1>30, <2>1 DEF ExpireItem, Goto
  <2>2. CASE a_cancel_fn[a] = "prov"
    BY <1>30, <2>2 DEF ExpireItem, Goto
  <2>3. CASE a_cancel_fn[a] = "sleep"
    BY <1>30, <2>3 DEF ExpireItem, Goto
  <2> QED
    BY <1>30, <2>1, <2>2, <2>3 DEF ExpireItem, Goto
<1>31. ASSUME ExpireItemDone
     PROVE  Unlisted'
  BY <1>31 DEF ExpireItemDone, Goto
<1>32. ASSUME ExpireBatchEnd
     PROVE  Unlisted'
  BY <1>32 DEF ExpireBatchEnd, Goto
<1>33. ASSUME ExpireWake
     PROVE  Unlisted'
  BY <1>33 DEF ExpireWake, Goto
<1>34. ASSUME ExpireExit
     PROVE  Unlisted'
  BY <1>34 DEF ExpireExit, Goto
<1>35. ASSUME nni_aio_expire_q_free
     PROVE  Unlisted'
  BY <1>35 DEF nni_aio_expire_q_free, WakeUntil
<1>36. ASSUME Tick
     PROVE  Unlisted'
  BY <1>36 DEF Tick
<1> QED
  BY <1>1, <1>2, <1>3, <1>4, <1>5, <1>6, <1>7, <1>8, <1>9, <1>10, <1>11, <1>12,
     <1>13, <1>14, <1>15, <1>16, <1>17, <1>18, <1>19, <1>20, <1>21, <1>22, <1>23,
     <1>24, <1>25, <1>26, <1>27, <1>28, <1>29, <1>30, <1>31, <1>32, <1>33, <1>34,
     <1>35, <1>36
     DEF Next, Proceed, Work, Environment, ExpireLoop

\* Stopping is preserved.
LEMMA StoppingStep ==
    ASSUME Inv, Next PROVE Stopping'
<1> USE ThreadAssumption, TimeAssumption
<1>1. ASSUME NEW t \in Thread, NEW a \in Aio, nni_aio_abort(t, a)
     PROVE  Stopping'
  <2>1. /\ Took(t, a, "idle", "idle", FALSE) /\ pc[t] = "idle" /\ ~dying[a]
        /\ UNCHANGED <<inuse, stopped, dying>>
    BY <1>1, CancelEffect DEF nni_aio_abort, Control, user_vars, Inv
  <2>2. \A u \in Thread : ret[u] = "wait" => ~dying[cur[u]]
    BY DEF Inv, Stopping
  <2> QED
    BY <2>1, <2>2, TookStopping
<1>2. ASSUME NEW t \in Thread, NEW a \in Aio, nni_aio_close(t, a)
     PROVE  Stopping'
  <2>1. /\ Took(t, a, "idle", "idle", TRUE) /\ pc[t] = "idle" /\ ~dying[a]
        /\ UNCHANGED <<inuse, stopped, dying>>
    BY <1>2, CancelEffect DEF nni_aio_close, Control, user_vars, Inv
  <2>2. \A u \in Thread : ret[u] = "wait" => ~dying[cur[u]]
    BY DEF Inv, Stopping
  <2> QED
    BY <2>1, <2>2, TookStopping
<1>3. ASSUME NEW t \in Thread, NEW a \in Aio, nni_aio_stop(t, a)
     PROVE  Stopping'
  <2>1. /\ Took(t, a, "wait", "wait", TRUE) /\ pc[t] = "idle" /\ ~dying[a]
        /\ UNCHANGED <<inuse, stopped, dying>>
    BY <1>3, CancelEffect DEF nni_aio_stop, Control, user_vars, Inv
  <2>2. \A u \in Thread : ret[u] = "wait" => ~dying[cur[u]]
    BY DEF Inv, Stopping
  <2> QED
    BY <2>1, <2>2, TookStopping
<1>4. ASSUME NEW t \in Thread, NEW a \in Aio, Fini(t, a)
     PROVE  Stopping'
  <2>1. /\ Took(t, a, "fabort", "ffini", TRUE) /\ pc[t] = "idle" /\ t \in App
        /\ dying' = [dying EXCEPT ![a] = TRUE] /\ UNCHANGED <<inuse, stopped>>
        /\ \A u \in App \ {t} : cur[u] # a
    BY <1>4, CancelEffect DEF Fini, Free, Control, Alone, Inv
  <2>2. \A b \in Aio : dying[b] => dying'[b]
    BY <2>1 DEF Inv, TypeOK, UserTypes
  <2>3. \A u \in Thread \ {t} : ret[u] = "wait" => ~dying'[cur[u]]
    BY <2>1 DEF Inv, Stopping, Locals, TypeOK, UserTypes
  <2>4. dying'[a]
    BY <2>1 DEF Inv, TypeOK, UserTypes
  <2> QED
    BY <2>1, <2>2, <2>3, <2>4, TookStopping
<1>5. ASSUME NEW t \in Thread, ProvCancelLate(t)
     PROVE  Stopping'
  <2>1. cur[t] \in Aio /\ ret[t] \in Places
    BY <1>5, InCall DEF ProvCancelLate
  <2>2. /\ UNCHANGED <<inuse, stopped, dying, tq_tasks, task_prep, cb, a_stop>>
        /\ pc'[t] = ret[t]
        /\ \A u \in Thread \ {t} : pc'[u] = pc[u] /\ cur'[u] = cur[u] /\ ret'[u] = ret[u]
        /\ \/ ret[t] \in {"idle", "cb"} /\ cur'[t] = None /\ ret'[t] = "idle"
           \/ ret[t] \in {"wait", "ffini", "expired"} /\ cur'[t] = cur[t] /\ ret'[t] = ret[t]
    BY <1>5, <2>1, ReturnEffect, MovedAt
       DEF ProvCancelLate, Inv, Locals, CancelPlaces, aio_vars, task_vars, user_vars
  <2>3. /\ \A u \in Thread : pc[u] = "wait" => ret[u] = "wait"
        /\ \A u \in Thread : ret[u] = "wait" => a_stop[cur[u]] /\ ~dying[cur[u]]
        /\ \A u \in Thread : pc[u] \in FiniPlaces \/ ret[u] = "ffini" => dying[cur[u]]
    BY DEF Inv, Locals, Stopping
  <2>4. \A u \in Thread : pc'[u] = "wait" \/ ret'[u] = "wait" =>
           a_stop'[cur'[u]] /\ ~dying'[cur'[u]]
    BY <2>2, <2>3
  <2>5. \A u \in Thread : pc'[u] \in FiniPlaces \/ ret'[u] = "ffini" => dying'[cur'[u]]
    BY <2>2, <2>3 DEF FiniPlaces
  <2>6. \A b \in Aio : inuse'[b] /\ ~dying'[b] /\ b \notin tq_tasks' => task_prep'[b]
    BY <2>2 DEF Inv, Stopping
  <2>7. \A b \in Aio : stopped'[b] =>
           a_stop'[b] /\ ~inuse'[b] /\ \A u \in Thread : cb'[u] # b
    BY <2>2 DEF Inv, Stopping
  <2> QED
    BY <2>4, <2>5, <2>6, <2>7 DEF Stopping
<1>6. ASSUME NEW t \in Thread, nni_task_dispatch(t)
     PROVE  Stopping'
  <2>1. cur[t] \in Aio /\ ret[t] \in Places
    BY <1>6, InCall DEF nni_task_dispatch
  <2>2. /\ UNCHANGED <<inuse, stopped, dying, cb, a_stop>>
        /\ tq_tasks' = tq_tasks \union {cur[t]}
        /\ task_prep' = [task_prep EXCEPT ![cur[t]] = FALSE]
        /\ pc'[t] = ret[t]
        /\ \A u \in Thread \ {t} : pc'[u] = pc[u] /\ cur'[u] = cur[u] /\ ret'[u] = ret[u]
        /\ \/ ret[t] \in {"idle", "cb"} /\ cur'[t] = None /\ ret'[t] = "idle"
           \/ ret[t] \in {"wait", "ffini", "expired"} /\ cur'[t] = cur[t] /\ ret'[t] = ret[t]
    BY <1>6, <2>1, ReturnEffect, MovedAt
       DEF nni_task_dispatch, Inv, Locals, Unprep, aio_vars, task_vars, user_vars
  <2>3. /\ \A u \in Thread : pc[u] = "wait" => ret[u] = "wait"
        /\ \A u \in Thread : ret[u] = "wait" => a_stop[cur[u]] /\ ~dying[cur[u]]
        /\ \A u \in Thread : pc[u] \in FiniPlaces \/ ret[u] = "ffini" => dying[cur[u]]
    BY DEF Inv, Locals, Stopping
  <2>4. \A u \in Thread : pc'[u] = "wait" \/ ret'[u] = "wait" =>
           a_stop'[cur'[u]] /\ ~dying'[cur'[u]]
    BY <2>2, <2>3
  <2>5. \A u \in Thread : pc'[u] \in FiniPlaces \/ ret'[u] = "ffini" => dying'[cur'[u]]
    BY <2>2, <2>3 DEF FiniPlaces
  <2>6. \A b \in Aio : inuse'[b] /\ ~dying'[b] /\ b \notin tq_tasks' => task_prep'[b]
    BY <2>1, <2>2 DEF Inv, Stopping, TypeOK, TaskTypes
  <2>7. \A b \in Aio : stopped'[b] =>
           a_stop'[b] /\ ~inuse'[b] /\ \A u \in Thread : cb'[u] # b
    BY <2>2 DEF Inv, Stopping
  <2> QED
    BY <2>4, <2>5, <2>6, <2>7 DEF Stopping
<1>7. ASSUME NEW t \in Thread, nni_task_wait(t)
     PROVE  Stopping'
  <2>1. cur[t] \in Aio /\ ret[t] \in Places
    BY <1>7, InCall DEF nni_task_wait
  <2>2. /\ UNCHANGED <<inuse, dying, tq_tasks, task_prep, cb, a_stop>>
        /\ stopped' = [stopped EXCEPT ![cur[t]] = TRUE] /\ task_busy[cur[t]] = 0
        /\ pc[t] = "wait" /\ pc'[t] = "idle" /\ cur'[t] = None /\ ret'[t] = "idle"
        /\ \A u \in Thread \ {t} : pc'[u] = pc[u] /\ cur'[u] = cur[u] /\ ret'[u] = ret[u]
    BY <1>7, <2>1, ReturnEffect, MovedAt
       DEF nni_task_wait, Inv, Places, aio_vars, task_vars
  <2>3. a_stop[cur[t]] /\ ~inuse[cur[t]] /\ \A u \in Thread : cb[u] # cur[t]
    BY <2>1, <2>2, BusyShares DEF Inv, Stopping
  <2>4. \A b \in Aio : stopped'[b] =>
           a_stop'[b] /\ ~inuse'[b] /\ \A u \in Thread : cb'[u] # b
    BY <2>1, <2>2, <2>3 DEF Inv, Stopping, TypeOK, UserTypes
  <2> QED
    BY <2>2, <2>4 DEF Inv, Stopping, FiniPlaces
<1>8. ASSUME NEW t \in Thread, FiniWoken(t)
     PROVE  Stopping'
  <2>1. cur[t] \in Aio /\ ret[t] \in Places
    BY <1>8, InCall DEF FiniWoken
  <2>2. /\ Took(t, cur[t], "fabort", "ffini", TRUE) /\ pc[t] = "fwait" /\ dying[cur[t]]
        /\ UNCHANGED <<inuse, stopped, dying>>
    BY <1>8, <2>1, CancelEffect DEF FiniWoken, Inv, Stopping, FiniPlaces, user_vars
  <2>3. \A u \in Thread : ret[u] = "wait" => ~dying[cur[u]]
    BY DEF Inv, Stopping
  <2> QED
    BY <2>1, <2>2, <2>3, TookStopping
<1>9. ASSUME NEW a \in Aio, ExpireItem(a)
     PROVE  Stopping'
  <2>1. /\ UNCHANGED <<inuse, stopped, dying, tq_tasks, task_prep, cb, a_stop>>
        /\ \A u \in Thread \ {Expire} : pc'[u] = pc[u] /\ cur'[u] = cur[u] /\ ret'[u] = ret[u]
        /\ \/ pc'[Expire] = pc[Expire] /\ cur'[Expire] = cur[Expire] /\ ret'[Expire] = ret[Expire]
           \/ pc'[Expire] \in {"pcancel", "scancel"} /\ ret'[Expire] = "expired"
    BY <1>9 DEF ExpireItem, Goto, Inv, TypeOK, ThreadTypes, task_vars, user_vars
  <2> QED
    BY <2>1 DEF Inv, Stopping, FiniPlaces
<1> USE DEF Inv, Stopping, TypeOK, HandleTypes, TaskTypes, QueueTypes, ThreadTypes,
            UserTypes, Locals, Carried, Owned, CallPlaces, CarryPlaces, StartPlaces,
            CancelPlaces, FiniPlaces, LoopPlaces, vars, aio_vars, task_vars,
            eq_vars, prov_vars, thr_vars, user_vars
<1>10. ASSUME NEW t \in Thread, NEW a \in Aio,
            NEW d \in Timeouts \union {Infinite}, NEW next \in {"sched", "sleepset"},Begin(t, a, d, next)
     PROVE  Stopping'
  BY <1>10 DEF Begin, CanStart, PrepBusy, Goto
<1>11. ASSUME NEW t \in Thread, NEW a \in Aio, BeginStopped(t, a)
     PROVE  Stopping'
  BY <1>11 DEF BeginStopped, CanStart
<1>12. ASSUME NEW t \in Thread, NEW a \in Aio, FiniWaits(t, a)
     PROVE  Stopping'
  BY <1>12 DEF FiniWaits, Free, Control, Alone, MustWait, Goto
<1>13. ASSUME NEW t \in Thread, NEW a \in Aio, Complete(t, a)
     PROVE  Stopping'
  BY <1>13 DEF Complete, Goto
<1>14. ASSUME NEW t \in Thread, NEW a \in Aio, CompleteSync(t, a)
     PROVE  Stopping'
  BY <1>14 DEF CompleteSync, Goto
<1>15. ASSUME NEW t \in Thread, NEW a \in Aio, RunTask(t, a)
     PROVE  Stopping'
  BY <1>15 DEF RunTask, Goto
<1>16. ASSUME NEW t \in Thread, ProvStart(t)
     PROVE  Stopping'
  <2>1. cur[t] \in Aio /\ ret[t] \in Places
    BY <1>16, InCall DEF ProvStart
  <2>2. PICK e \in Nat : Armed(cur[t], "prov", e)
    BY <1>16, <2>1, ScheduleEffect DEF ProvStart, Inv
  <2>3. /\ Moved(t, ret[t], None, "idle") /\ ret[t] \in {"idle", "cb"}
        /\ rv' \in [Thread -> Results]
    BY <1>16, <2>1, ReturnEffect DEF ProvStart, Inv, Locals, StartPlaces
  <2> QED
    BY <1>16, <2>1, <2>2, <2>3 DEF ProvStart, Armed, Moved
<1>17. ASSUME NEW t \in Thread, ProvRefused(t)
     PROVE  Stopping'
  <2>1. cur[t] \in Aio /\ ret[t] \in Places
    BY <1>17, InCall DEF ProvRefused
  <2>2. Moved(t, "finish", cur[t], ret[t]) /\ rv' \in [Thread -> Results]
    BY <1>17, <2>1, ScheduleFailsEffect DEF ProvRefused, Inv
  <2>3. /\ \E e \in Nat : a_expire' = [a_expire EXCEPT ![cur[t]] = e]
        /\ UNCHANGED <<a_result, a_cancel_fn, a_abort, a_stop, a_timeout, a_sleep,
                       a_expire_ok, eq_vars>>
    BY <1>17, <2>1, ScheduleFailsEffect DEF ProvRefused, Inv
  <2> QED
    BY <1>17, <2>1, <2>2, <2>3 DEF ProvRefused, Moved
<1>18. ASSUME NEW t \in Thread, ProvAtOnce(t)
     PROVE  Stopping'
  <2>1. cur[t] \in Aio /\ ret[t] \in Places
    BY <1>18, InCall DEF ProvAtOnce
  <2> QED
    BY <1>18, <2>1 DEF ProvAtOnce, Goto
<1>19. ASSUME NEW t \in Thread, SleepSet(t)
     PROVE  Stopping'
  <2>1. cur[t] \in Aio /\ ret[t] \in Places
    BY <1>19, InCall DEF SleepSet
  <2>2. \E ok \in BOOLEAN, e \in Nat : /\ a_expire_ok' = [a_expire_ok EXCEPT ![cur[t]] = ok]
                                      /\ a_expire' = [a_expire EXCEPT ![cur[t]] = e]
    BY <1>19, <2>1, SleepEffect DEF Inv
  <2> QED
    BY <1>19, <2>1, <2>2 DEF SleepSet, Goto
<1>20. ASSUME NEW t \in Thread, SleepStart(t)
     PROVE  Stopping'
  <2>1. cur[t] \in Aio /\ ret[t] \in Places
    BY <1>20, InCall DEF SleepStart
  <2>2. PICK e \in Nat : Armed(cur[t], "sleep", e)
    BY <1>20, <2>1, ScheduleEffect DEF SleepStart, Inv
  <2>3. /\ Moved(t, ret[t], None, "idle") /\ ret[t] \in {"idle", "cb"}
        /\ rv' \in [Thread -> Results]
    BY <1>20, <2>1, ReturnEffect DEF SleepStart, Inv, Locals, StartPlaces
  <2> QED
    BY <1>20, <2>1, <2>2, <2>3 DEF SleepStart, Armed, Moved
<1>21. ASSUME NEW t \in Thread, SleepRefused(t)
     PROVE  Stopping'
  <2>1. cur[t] \in Aio /\ ret[t] \in Places
    BY <1>21, InCall DEF SleepRefused
  <2>2. Moved(t, "finish", cur[t], ret[t]) /\ rv' \in [Thread -> Results]
    BY <1>21, <2>1, ScheduleFailsEffect DEF SleepRefused, Inv
  <2>3. /\ \E e \in Nat : a_expire' = [a_expire EXCEPT ![cur[t]] = e]
        /\ UNCHANGED <<a_result, a_cancel_fn, a_abort, a_stop, a_timeout, a_sleep,
                       a_expire_ok, eq_vars>>
    BY <1>21, <2>1, ScheduleFailsEffect DEF SleepRefused, Inv
  <2> QED
    BY <1>21, <2>1, <2>2, <2>3 DEF SleepRefused, Moved
<1>22. ASSUME NEW t \in Thread, ProvCancel(t)
     PROVE  Stopping'
  BY <1>22 DEF ProvCancel, nni_aio_list_active, Goto
<1>23. ASSUME NEW t \in Thread, nni_sleep_cancel(t)
     PROVE  Stopping'
  <2>1. cur[t] \in Aio /\ ret[t] \in Places
    BY <1>23, InCall DEF nni_sleep_cancel
  <2>2. a_sleep[cur[t]]
    BY <1>23 DEF nni_sleep_cancel, Inv, Carried
  <2> QED
    BY <1>23, <2>1, <2>2 DEF nni_sleep_cancel, nni_aio_expire_rm, Goto
<1>24. ASSUME NEW t \in Thread, nni_aio_finish_impl(t)
     PROVE  Stopping'
  <2>1. cur[t] \in Aio /\ ret[t] \in Places
    BY <1>24, InCall DEF nni_aio_finish_impl
  <2> QED
    BY <1>24, <2>1 DEF nni_aio_finish_impl, nni_aio_expire_rm, Goto
<1>25. ASSUME NEW t \in Thread, nni_task_exec(t)
     PROVE  Stopping'
  <2>1. cur[t] \in Aio /\ ret[t] \in Places
    BY <1>25, InCall DEF nni_task_exec
  <2>2. Moved(t, "cb", None, "idle") /\ rv' \in [Thread -> Results]
    BY <1>25, <2>1, ReturnEffect DEF nni_task_exec, Inv, Places
  <2> QED
    BY <1>25, <2>1, <2>2 DEF nni_task_exec, Unprep, Moved
<1>26. ASSUME NEW t \in Thread, CallbackReturns(t)
     PROVE  Stopping'
  <2>1. cb[t] \in Aio /\ cur[t] = None
    BY <1>26 DEF CallbackReturns, Inv, TypeOK, ThreadTypes, Locals, CallPlaces, CarryPlaces, StartPlaces, CancelPlaces, FiniPlaces
  <2> QED
    BY <1>26, <2>1 DEF CallbackReturns, Goto
<1>27. ASSUME NEW t \in Thread, nni_task_abort(t)
     PROVE  Stopping'
  <2>1. cur[t] \in Aio /\ ret[t] \in Places
    BY <1>27, InCall DEF nni_task_abort
  <2> QED
    BY <1>27, <2>1 DEF nni_task_abort, AbortBusy, Goto
<1>28. ASSUME NEW t \in Thread, nni_task_fini(t)
     PROVE  Stopping'
  <2>1. cur[t] \in Aio /\ ret[t] \in Places
    BY <1>28, InCall DEF nni_task_fini
  <2>2. Moved(t, "idle", None, "idle") /\ rv' \in [Thread -> Results]
    BY <1>28, <2>1, ReturnEffect DEF nni_task_fini, Inv, Places
  <2> QED
    BY <1>28, <2>1, <2>2 DEF nni_task_fini, Moved
<1>29. ASSUME ExpireEarly
     PROVE  Stopping'
  BY <1>29 DEF ExpireEarly, Goto
<1>30. ASSUME ExpireScan
     PROVE  Stopping'
  BY <1>30 DEF ExpireScan, Batches, Rest, Expired, Earliest, Goto
<1>31. ASSUME ExpireItemDone
     PROVE  Stopping'
  BY <1>31 DEF ExpireItemDone, Goto
<1>32. ASSUME ExpireBatchEnd
     PROVE  Stopping'
  BY <1>32 DEF ExpireBatchEnd, Goto
<1>33. ASSUME ExpireWake
     PROVE  Stopping'
  BY <1>33 DEF ExpireWake, Goto
<1>34. ASSUME ExpireExit
     PROVE  Stopping'
  BY <1>34 DEF ExpireExit, Goto
<1>35. ASSUME nni_aio_expire_q_free
     PROVE  Stopping'
  BY <1>35 DEF nni_aio_expire_q_free, WakeUntil
<1>36. ASSUME Tick
     PROVE  Stopping'
  BY <1>36 DEF Tick
<1> QED
  BY <1>1, <1>2, <1>3, <1>4, <1>5, <1>6, <1>7, <1>8, <1>9, <1>10, <1>11, <1>12,
     <1>13, <1>14, <1>15, <1>16, <1>17, <1>18, <1>19, <1>20, <1>21, <1>22, <1>23,
     <1>24, <1>25, <1>26, <1>27, <1>28, <1>29, <1>30, <1>31, <1>32, <1>33, <1>34,
     <1>35, <1>36, ZenonT(60)
     DEF Next, Proceed, Work, Environment, ExpireLoop

\* Freeing is preserved.
LEMMA FreeingStep ==
    ASSUME Inv, StopFirst, Next PROVE Freeing'
<1> USE ThreadAssumption, TimeAssumption
<1>1. ASSUME NEW t \in Thread, NEW a \in Aio, nni_aio_abort(t, a)
     PROVE  Freeing'
  <2>1. /\ Took(t, a, "idle", "idle", FALSE) /\ pc[t] = "idle" /\ ~dying[a] /\ t \in App
        /\ UNCHANGED <<stopped, freed, dying>>
    BY <1>1, CancelEffect DEF nni_aio_abort, Control, user_vars, Inv
  <2> QED
    BY <2>1, TookFreeing
<1>2. ASSUME NEW t \in Thread, NEW a \in Aio, nni_aio_close(t, a)
     PROVE  Freeing'
  <2>1. /\ Took(t, a, "idle", "idle", TRUE) /\ pc[t] = "idle" /\ ~dying[a] /\ t \in App
        /\ UNCHANGED <<stopped, freed, dying>>
    BY <1>2, CancelEffect DEF nni_aio_close, Control, user_vars, Inv
  <2> QED
    BY <2>1, TookFreeing
<1>3. ASSUME NEW t \in Thread, NEW a \in Aio, nni_aio_stop(t, a)
     PROVE  Freeing'
  <2>1. /\ Took(t, a, "wait", "wait", TRUE) /\ pc[t] = "idle" /\ ~dying[a] /\ t \in App
        /\ UNCHANGED <<stopped, freed, dying>>
    BY <1>3, CancelEffect DEF nni_aio_stop, Control, user_vars, Inv
  <2> QED
    BY <2>1, TookFreeing
<1>4. ASSUME NEW t \in Thread, NEW a \in Aio, Fini(t, a)
     PROVE  Freeing'
  <2>1. /\ Took(t, a, "fabort", "ffini", TRUE) /\ pc[t] = "idle" /\ t \in App
        /\ dying' = [dying EXCEPT ![a] = TRUE] /\ UNCHANGED <<stopped, freed>>
        /\ ~dying[a] /\ stopped[a] /\ ~a_expiring[a]
        /\ \A u \in App \ {t} : cur[u] # a
    BY <1>4, CancelEffect DEF Fini, Free, FiniTake, MustWait, Control, Alone, Inv
  <2> QED
    BY <2>1, TookFreeing
<1>5. ASSUME NEW t \in Thread, ProvCancelLate(t)
     PROVE  Freeing'
  <2>1. cur[t] \in Aio /\ ret[t] \in Places
    BY <1>5, InCall DEF ProvCancelLate
  <2>2. /\ UNCHANGED <<stopped, dying, freed, a_stop, expires, a_expiring>>
        /\ pc[t] = "pcancel"
        /\ pc'[t] = ret[t]
        /\ \A u \in Thread \ {t} : pc'[u] = pc[u] /\ cur'[u] = cur[u] /\ ret'[u] = ret[u]
        /\ \/ ret[t] \in {"idle", "cb"} /\ cur'[t] = None /\ ret'[t] = "idle"
           \/ ret[t] \in {"wait", "ffini", "expired"} /\ cur'[t] = cur[t] /\ ret'[t] = ret[t]
    BY <1>5, <2>1, ReturnEffect, MovedAt
       DEF ProvCancelLate, Inv, Locals, CancelPlaces, aio_vars, eq_vars, user_vars
  <2>3. Expire \in Thread /\ None \notin Aio /\ App \subseteq Thread
    BY DEF Thread
  <2> QED
    BY <2>1, <2>2, <2>3 DEF Inv, Freeing
<1>6. ASSUME NEW t \in Thread, FiniWoken(t)
     PROVE  Freeing'
  <2>1. cur[t] \in Aio /\ ret[t] \in Places
    BY <1>6, InCall DEF FiniWoken
  <2>2. /\ Took(t, cur[t], "fabort", "ffini", TRUE) /\ pc[t] = "fwait" /\ t \in App
        /\ UNCHANGED <<stopped, freed, dying>> /\ ~a_expiring[cur[t]]
    BY <1>6, <2>1, CancelEffect
       DEF FiniWoken, FiniTake, MustWait, Inv, Locals, FiniPlaces, user_vars
  <2> QED
    BY <2>1, <2>2, TookFreeing
<1>7. ASSUME ExpireScan
     PROVE  Freeing'
  <2>1. PICK batch \in SUBSET Expired :
        /\ pc[Expire] = "top" /\ pc'[Expire] = "item" /\ expires' = batch
        /\ a_expiring' = [b \in Aio |-> a_expiring[b] \/ b \in batch]
        /\ UNCHANGED <<stopped, freed, dying, a_stop, cur, ret>>
    BY <1>7 DEF ExpireScan, Batches, Goto, Inv, TypeOK, ThreadTypes, Thread, aio_vars, user_vars
  <2>2. expires = {} /\ \A b \in Aio : ~a_expiring[b]
    BY <2>1 DEF Inv, Freeing
  <2>3. \A b \in Aio : a_expiring'[b] <=> b \in batch
    BY <2>1, <2>2
  <2>4. batch \subseteq Aio /\ \A b \in batch : ~stopped[b] /\ ~dying[b]
    BY DEF Expired, Inv, TypeOK, QueueTypes, Unlisted, Stopping, Freeing
  <2>5. cur[Expire] = None /\ None \notin Aio
    BY <2>1 DEF Inv, Locals, TypeOK, ThreadTypes, Thread, CallPlaces, CarryPlaces,
               StartPlaces, CancelPlaces, FiniPlaces
  <2>6. \A u \in Thread : ret[u] = "ffini" => cur[u] \in Aio /\ dying[cur[u]]
    BY DEF Inv, Stopping, Locals, CallPlaces, CarryPlaces, StartPlaces, CancelPlaces,
           FiniPlaces, LoopPlaces, TypeOK, ThreadTypes, Places
  <2> QED
    BY <2>1, <2>3, <2>4, <2>5, <2>6 DEF Inv, Freeing
<1>8. ASSUME NEW a \in Aio, ExpireItem(a)
     PROVE  Freeing'
  <2>1. /\ pc[Expire] = "item" /\ a \in expires
        /\ UNCHANGED <<stopped, freed, dying, a_stop>>
        /\ \A u \in Thread \ {Expire} : cur'[u] = cur[u] /\ ret'[u] = ret[u]
    BY <1>8 DEF ExpireItem, Inv, TypeOK, ThreadTypes, user_vars
  <2>2. Expire \in Thread /\ Expire \notin App /\ App \subseteq Thread
    BY DEF Thread
  <2>3. cur[Expire] = None /\ None \notin Aio /\ ret[Expire] = "idle"
    BY <2>1, <2>2 DEF Inv, Locals, TypeOK, ThreadTypes, CallPlaces, CarryPlaces,
               StartPlaces, CancelPlaces, FiniPlaces, LoopPlaces
  <2>4. CASE a_cancel_fn[a] = "none"
    <3>1. /\ a_expiring' = [a_expiring EXCEPT ![a] = FALSE] /\ expires' = expires \ {a}
          /\ UNCHANGED <<pc, cur, ret>>
      BY <1>8, <2>4 DEF ExpireItem
    <3>2. ~a_expiring'[a] /\ \A b \in Aio \ {a} : a_expiring'[b] = a_expiring[b]
      BY <3>1 DEF Inv, TypeOK, QueueTypes
    <3>3. \A u \in Thread : ret[u] = "ffini" => ~a_expiring'[cur[u]]
      <4>1. \A u \in Thread : ret[u] = "ffini" => cur[u] \in Aio
        BY DEF Inv, Locals, CallPlaces, CarryPlaces, StartPlaces, CancelPlaces,
               FiniPlaces, LoopPlaces, TypeOK, ThreadTypes, Places
      <4> QED
        BY <3>2, <4>1 DEF Inv, Freeing
    <3>4. expires \subseteq Aio
      BY DEF Inv, TypeOK, QueueTypes
    <3> QED
      BY <2>1, <2>2, <2>3, <3>1, <3>2, <3>3, <3>4 DEF Inv, Freeing
  <2>5. CASE a_cancel_fn[a] # "none"
    <3>1. /\ UNCHANGED <<a_expiring, expires>>
          /\ pc'[Expire] \in {"pcancel", "scancel"} /\ cur'[Expire] = a
          /\ ret'[Expire] = "expired"
      BY <1>8, <2>2, <2>5 DEF ExpireItem, Goto, Inv, TypeOK, ThreadTypes
    <3> QED
      BY <2>1, <2>2, <3>1 DEF Inv, Freeing
  <2> QED
    BY <2>4, <2>5
<1> USE DEF Inv, Freeing, TypeOK, HandleTypes, TaskTypes, QueueTypes, ThreadTypes,
            UserTypes, Locals, Stopping, Owned, Unlisted, CallPlaces, CarryPlaces,
            StartPlaces, CancelPlaces, FiniPlaces, LoopPlaces, Thread, vars,
            aio_vars, task_vars, eq_vars, prov_vars, thr_vars, user_vars
<1>9. ASSUME NEW t \in Thread, NEW a \in Aio,
            NEW d \in Timeouts \union {Infinite}, NEW next \in {"sched", "sleepset"},Begin(t, a, d, next)
     PROVE  Freeing'
  BY <1>9, SMTT(60) DEF Begin, CanStart, PrepBusy, Goto
<1>10. ASSUME NEW t \in Thread, NEW a \in Aio, BeginStopped(t, a)
     PROVE  Freeing'
  BY <1>10 DEF BeginStopped, CanStart
<1>11. ASSUME NEW t \in Thread, NEW a \in Aio, FiniWaits(t, a)
     PROVE  Freeing'
  BY <1>11 DEF FiniWaits, Free, Control, Alone, MustWait, Goto
<1>12. ASSUME NEW t \in Thread, NEW a \in Aio, Complete(t, a)
     PROVE  Freeing'
  BY <1>12 DEF Complete, Goto
<1>13. ASSUME NEW t \in Thread, NEW a \in Aio, CompleteSync(t, a)
     PROVE  Freeing'
  BY <1>13 DEF CompleteSync, Goto
<1>14. ASSUME NEW t \in Thread, NEW a \in Aio, RunTask(t, a)
     PROVE  Freeing'
  BY <1>14 DEF RunTask, Goto
<1>15. ASSUME NEW t \in Thread, ProvStart(t)
     PROVE  Freeing'
  <2>1. cur[t] \in Aio /\ ret[t] \in Places
    BY <1>15, InCall DEF ProvStart
  <2>2. PICK e \in Nat : Armed(cur[t], "prov", e)
    BY <1>15, <2>1, ScheduleEffect DEF ProvStart, Inv
  <2>3. /\ Moved(t, ret[t], None, "idle") /\ ret[t] \in {"idle", "cb"}
        /\ rv' \in [Thread -> Results]
    BY <1>15, <2>1, ReturnEffect DEF ProvStart, Inv, Locals, StartPlaces
  <2> QED
    BY <1>15, <2>1, <2>2, <2>3 DEF ProvStart, Armed, Moved
<1>16. ASSUME NEW t \in Thread, ProvRefused(t)
     PROVE  Freeing'
  <2>1. cur[t] \in Aio /\ ret[t] \in Places
    BY <1>16, InCall DEF ProvRefused
  <2>2. Moved(t, "finish", cur[t], ret[t]) /\ rv' \in [Thread -> Results]
    BY <1>16, <2>1, ScheduleFailsEffect DEF ProvRefused, Inv
  <2>3. /\ \E e \in Nat : a_expire' = [a_expire EXCEPT ![cur[t]] = e]
        /\ UNCHANGED <<a_result, a_cancel_fn, a_abort, a_stop, a_timeout, a_sleep,
                       a_expire_ok, eq_vars>>
    BY <1>16, <2>1, ScheduleFailsEffect DEF ProvRefused, Inv
  <2> QED
    BY <1>16, <2>1, <2>2, <2>3 DEF ProvRefused, Moved
<1>17. ASSUME NEW t \in Thread, ProvAtOnce(t)
     PROVE  Freeing'
  <2>1. cur[t] \in Aio /\ ret[t] \in Places
    BY <1>17, InCall DEF ProvAtOnce
  <2> QED
    BY <1>17, <2>1 DEF ProvAtOnce, Goto
<1>18. ASSUME NEW t \in Thread, SleepSet(t)
     PROVE  Freeing'
  <2>1. cur[t] \in Aio /\ ret[t] \in Places
    BY <1>18, InCall DEF SleepSet
  <2>2. \E ok \in BOOLEAN, e \in Nat : /\ a_expire_ok' = [a_expire_ok EXCEPT ![cur[t]] = ok]
                                      /\ a_expire' = [a_expire EXCEPT ![cur[t]] = e]
    BY <1>18, <2>1, SleepEffect DEF Inv
  <2> QED
    BY <1>18, <2>1, <2>2 DEF SleepSet, Goto
<1>19. ASSUME NEW t \in Thread, SleepStart(t)
     PROVE  Freeing'
  <2>1. cur[t] \in Aio /\ ret[t] \in Places
    BY <1>19, InCall DEF SleepStart
  <2>2. PICK e \in Nat : Armed(cur[t], "sleep", e)
    BY <1>19, <2>1, ScheduleEffect DEF SleepStart, Inv
  <2>3. /\ Moved(t, ret[t], None, "idle") /\ ret[t] \in {"idle", "cb"}
        /\ rv' \in [Thread -> Results]
    BY <1>19, <2>1, ReturnEffect DEF SleepStart, Inv, Locals, StartPlaces
  <2> QED
    BY <1>19, <2>1, <2>2, <2>3 DEF SleepStart, Armed, Moved
<1>20. ASSUME NEW t \in Thread, SleepRefused(t)
     PROVE  Freeing'
  <2>1. cur[t] \in Aio /\ ret[t] \in Places
    BY <1>20, InCall DEF SleepRefused
  <2>2. Moved(t, "finish", cur[t], ret[t]) /\ rv' \in [Thread -> Results]
    BY <1>20, <2>1, ScheduleFailsEffect DEF SleepRefused, Inv
  <2>3. /\ \E e \in Nat : a_expire' = [a_expire EXCEPT ![cur[t]] = e]
        /\ UNCHANGED <<a_result, a_cancel_fn, a_abort, a_stop, a_timeout, a_sleep,
                       a_expire_ok, eq_vars>>
    BY <1>20, <2>1, ScheduleFailsEffect DEF SleepRefused, Inv
  <2> QED
    BY <1>20, <2>1, <2>2, <2>3 DEF SleepRefused, Moved
<1>21. ASSUME NEW t \in Thread, ProvCancel(t)
     PROVE  Freeing'
  BY <1>21 DEF ProvCancel, nni_aio_list_active, Goto
<1>22. ASSUME NEW t \in Thread, nni_sleep_cancel(t)
     PROVE  Freeing'
  <2>1. cur[t] \in Aio /\ ret[t] \in Places
    BY <1>22, InCall DEF nni_sleep_cancel
  <2>2. a_sleep[cur[t]]
    BY <1>22 DEF nni_sleep_cancel, Inv, Carried
  <2> QED
    BY <1>22, <2>1, <2>2 DEF nni_sleep_cancel, nni_aio_expire_rm, Goto
<1>23. ASSUME NEW t \in Thread, nni_aio_finish_impl(t)
     PROVE  Freeing'
  <2>1. cur[t] \in Aio /\ ret[t] \in Places
    BY <1>23, InCall DEF nni_aio_finish_impl
  <2> QED
    BY <1>23, <2>1 DEF nni_aio_finish_impl, nni_aio_expire_rm, Goto
<1>24. ASSUME NEW t \in Thread, nni_task_dispatch(t)
     PROVE  Freeing'
  <2>1. cur[t] \in Aio /\ ret[t] \in Places
    BY <1>24, InCall DEF nni_task_dispatch
  <2>2. /\ \/ ret[t] \in {"idle", "cb"} /\ Moved(t, ret[t], None, "idle")
           \/ ret[t] \in {"wait", "ffini", "expired"} /\ Moved(t, ret[t], cur[t], ret[t])
        /\ rv' \in [Thread -> Results]
    BY <1>24, <2>1, ReturnEffect DEF nni_task_dispatch, Inv, Locals
  <2>3. CASE ret[t] \in {"idle", "cb"}
    BY <1>24, <2>1, <2>2, <2>3 DEF nni_task_dispatch, Unprep, Moved
  <2>4. CASE ret[t] \in {"wait", "ffini", "expired"}
    BY <1>24, <2>1, <2>2, <2>4 DEF nni_task_dispatch, Unprep, Moved
  <2> QED
    BY <1>24, <2>1, <2>2, <2>3, <2>4 DEF nni_task_dispatch, Unprep, Moved
<1>25. ASSUME NEW t \in Thread, nni_task_exec(t)
     PROVE  Freeing'
  <2>1. cur[t] \in Aio /\ ret[t] \in Places
    BY <1>25, InCall DEF nni_task_exec
  <2>2. Moved(t, "cb", None, "idle") /\ rv' \in [Thread -> Results]
    BY <1>25, <2>1, ReturnEffect DEF nni_task_exec, Inv, Places
  <2> QED
    BY <1>25, <2>1, <2>2 DEF nni_task_exec, Unprep, Moved
<1>26. ASSUME NEW t \in Thread, CallbackReturns(t)
     PROVE  Freeing'
  <2>1. cb[t] \in Aio /\ cur[t] = None
    BY <1>26 DEF CallbackReturns, Inv, TypeOK, ThreadTypes, Locals, CallPlaces, CarryPlaces, StartPlaces, CancelPlaces, FiniPlaces
  <2> QED
    BY <1>26, <2>1 DEF CallbackReturns, Goto
<1>27. ASSUME NEW t \in Thread, nni_task_wait(t)
     PROVE  Freeing'
  <2>1. cur[t] \in Aio /\ ret[t] \in Places
    BY <1>27, InCall DEF nni_task_wait
  <2>2. Moved(t, "idle", None, "idle") /\ rv' \in [Thread -> Results]
    BY <1>27, <2>1, ReturnEffect DEF nni_task_wait, Inv, Places
  <2> QED
    BY <1>27, <2>1, <2>2 DEF nni_task_wait, Moved
<1>28. ASSUME NEW t \in Thread, nni_task_abort(t)
     PROVE  Freeing'
  <2>1. cur[t] \in Aio /\ ret[t] \in Places
    BY <1>28, InCall DEF nni_task_abort
  <2> QED
    BY <1>28, <2>1 DEF nni_task_abort, AbortBusy, Goto
<1>29. ASSUME NEW t \in Thread, nni_task_fini(t)
     PROVE  Freeing'
  <2>1. cur[t] \in Aio /\ ret[t] \in Places
    BY <1>29, InCall DEF nni_task_fini
  <2>2. Moved(t, "idle", None, "idle") /\ rv' \in [Thread -> Results]
    BY <1>29, <2>1, ReturnEffect DEF nni_task_fini, Inv, Places
  <2> QED
    BY <1>29, <2>1, <2>2 DEF nni_task_fini, Moved
<1>30. ASSUME ExpireEarly
     PROVE  Freeing'
  BY <1>30 DEF ExpireEarly, Goto
<1>31. ASSUME ExpireItemDone
     PROVE  Freeing'
  BY <1>31 DEF ExpireItemDone, Goto
<1>32. ASSUME ExpireBatchEnd
     PROVE  Freeing'
  BY <1>32 DEF ExpireBatchEnd, Goto
<1>33. ASSUME ExpireWake
     PROVE  Freeing'
  BY <1>33 DEF ExpireWake, Goto
<1>34. ASSUME ExpireExit
     PROVE  Freeing'
  BY <1>34 DEF ExpireExit, Goto
<1>35. ASSUME nni_aio_expire_q_free
     PROVE  Freeing'
  BY <1>35 DEF nni_aio_expire_q_free, WakeUntil
<1>36. ASSUME Tick
     PROVE  Freeing'
  BY <1>36 DEF Tick
<1> QED
  BY <1>1, <1>2, <1>3, <1>4, <1>5, <1>6, <1>7, <1>8, <1>9, <1>10, <1>11, <1>12,
     <1>13, <1>14, <1>15, <1>16, <1>17, <1>18, <1>19, <1>20, <1>21, <1>22, <1>23,
     <1>24, <1>25, <1>26, <1>27, <1>28, <1>29, <1>30, <1>31, <1>32, <1>33, <1>34,
     <1>35, <1>36, ZenonT(60)
     DEF Next, Proceed, Work, Environment, ExpireLoop

-----------------------------------------------------------------------------
(* The invariant, and what follows from it.                                *)

\* Every initial state satisfies Inv.
LEMMA InitInv == Init => Inv
<1> SUFFICES ASSUME Init PROVE Inv
  OBVIOUS
<1>4. BusyCount
  <2>1. \A a \in Aio : /\ Cardinality(Runners(a)) = 0
                       /\ task_busy[a] = 0 /\ ~task_prep[a] /\ a \notin tq_tasks
    <3>1. \A a \in Aio : Runners(a) = {}
      BY ThreadAssumption DEF Init, Runners
    <3> QED
      BY <3>1, FS_EmptySet DEF Init
  <2> QED
    BY <2>1 DEF BusyCount, One
<1> USE ThreadAssumption, TimeAssumption DEF Init
<1>1. TypeOK
  BY DEF TypeOK, HandleTypes, TaskTypes, QueueTypes, ThreadTypes, UserTypes, Places,
         Results, Thread
<1>2. Locals
  BY DEF Locals, CallPlaces, CarryPlaces, StartPlaces, CancelPlaces, FiniPlaces,
         LoopPlaces, Thread
<1>3. Carried /\ Owned
  BY DEF Carried, Owned, CarryPlaces, StartPlaces
<1>5. Unlisted /\ Stopping
  BY DEF Unlisted, Stopping, CarryPlaces, StartPlaces, FiniPlaces
<1>6. Freeing
  BY DEF Freeing, Thread
<1> QED
  BY <1>1, <1>2, <1>3, <1>4, <1>5, <1>6 DEF Inv

\* Steps that change nothing preserve it.
LEMMA StutterInv == Inv /\ UNCHANGED vars => Inv'
<1> SUFFICES ASSUME Inv, UNCHANGED vars PROVE Inv'
  OBVIOUS
<1> USE DEF Inv, vars, aio_vars, task_vars, eq_vars, prov_vars, thr_vars, user_vars
<1>1. TypeOK'
  BY DEF TypeOK, HandleTypes, TaskTypes, QueueTypes, ThreadTypes, UserTypes
<1>2. Locals' /\ Carried' /\ Owned'
  BY DEF Locals, Carried, Owned
<1>3. BusyCount' /\ Unlisted' /\ Stopping'
  BY DEF BusyCount, Runners, Unlisted, Stopping
<1>4. StopFirst => Freeing'
  BY DEF Freeing
<1> QED
  BY <1>1, <1>2, <1>3, <1>4

\* Inv is an inductive invariant.
THEOREM Invariance == Spec => []Inv
<1>1. Inv /\ Next => Inv'
  BY TypeStep, LocalsStep, PlacesStep, BusyStep, UnlistedStep, StoppingStep, FreeingStep
     DEF Inv
<1> QED
  BY <1>1, InitInv, StutterInv, PTL DEF Spec

\* Every variable keeps its type; the unsigned busy count never wraps.
THEOREM TypeCorrect == Spec => []TypeOK
<1>1. Inv => TypeOK
  BY DEF Inv
<1> QED
  BY <1>1, Invariance, PTL

\* nni_aio_wait, nni_aio_stop and nni_aio_fini wait on an exact count, for
\* any number of threads, handles and operations.
THEOREM BusyCounted == Spec => []BusyCount
<1>1. Inv => BusyCount
  BY DEF Inv
<1> QED
  BY <1>1, Invariance, PTL

\* The carriers of a handle, in numbers.
LEMMA CarrierCount ==
    ASSUME Inv, NEW a \in Aio
    PROVE  /\ Carriers(a) = {} => Cardinality(Carriers(a)) = 0
           /\ Carriers(a) # {} => Cardinality(Carriers(a)) = 1
<1>1. ASSUME NEW t \in Carriers(a)
      PROVE  Cardinality(Carriers(a)) = 1
  <2>1. \A u \in Carriers(a) : u = t
    BY DEF Inv, Carried, Carriers, CarryPlaces, StartPlaces
  <2>2. Carriers(a) = {t}
    BY <2>1
  <2> QED
    BY <2>2, FS_Singleton
<1> QED
  BY <1>1, FS_EmptySet

\* Whoever races to complete an operation, it is completed once: it is at one
\* place at a time until its callback starts, and a handle without an
\* operation is nowhere.
THEOREM OnePlaceHolds == Spec => []OnePlace
<1>1. Inv => OnePlace
  <2> SUFFICES ASSUME Inv, NEW a \in Aio
               PROVE  Cardinality(Carriers(a)) + One(a \in prov_list) + One(Asleep(a))
                        + One(a \in tq_tasks) = One(inuse[a])
    BY DEF OnePlace
  <2>1. \A t \in Thread : t \in Carriers(a) <=> pc[t] \in CarryPlaces /\ cur[t] = a
    BY DEF Carriers, CarryPlaces, StartPlaces
  <2>2. Carriers(a) # {} => inuse[a] /\ a \notin prov_list /\ a \notin tq_tasks
    BY <2>1 DEF Inv, Carried, Carriers
  <2>3. /\ a \in prov_list => inuse[a] /\ a \notin tq_tasks /\ ~a_sleep[a]
        /\ a \in tq_tasks => inuse[a] /\ ~a_sleep[a]
        /\ a_sleep[a] => inuse[a]
    BY DEF Inv, Owned
  <2>4. inuse[a] => \/ a \in prov_list \/ a \in tq_tasks \/ a_sleep[a]
                    \/ Carriers(a) # {}
    BY <2>1 DEF Inv, Owned
  <2>5. CASE Carriers(a) # {}
    BY <2>2, <2>5, CarrierCount DEF One, Asleep
  <2>6. CASE Carriers(a) = {}
    BY <2>3, <2>4, <2>6, CarrierCount DEF One, Asleep
  <2> QED
    BY <2>5, <2>6
<1> QED
  BY <1>1, Invariance, PTL

\* After nni_aio_stop has returned nothing happens on the handle any more.
THEOREM StopQuietHolds == Spec => []StopQuiet
<1>1. Inv => StopQuiet
  <2> SUFFICES ASSUME Inv, NEW a \in Aio, stopped[a]
               PROVE  task_busy[a] = 0 /\ ~inuse[a] /\ Runners(a) = {} /\ a \notin tq_tasks
    BY DEF StopQuiet
  <2>1. ~inuse[a] /\ Runners(a) = {}
    BY DEF Inv, Stopping, Runners
  <2>2. ~task_prep[a] /\ a \notin tq_tasks
    BY <2>1 DEF Inv, Owned
  <2>3. Cardinality(Runners(a)) = 0
    BY <2>1, FS_EmptySet
  <2>4. task_busy[a] = 0
    BY <2>2, <2>3 DEF Inv, BusyCount, One
  <2> QED
    BY <2>1, <2>2, <2>4
<1> QED
  BY <1>1, Invariance, PTL

\* The expiration thread never sleeps past the deadline of a listed operation.
THEOREM NoOversleepHolds == Spec => []NoOversleep
<1>1. Inv => NoOversleep
  BY DEF Inv, Unlisted, NoOversleep, TypeOK, QueueTypes, HandleTypes
<1> QED
  BY <1>1, Invariance, PTL

\* The expiration thread finds no entry of an operation that is over.
THEOREM NoStaleDeadlineHolds == Spec => []NoStaleDeadline
<1>1. Inv => NoStaleDeadline
  BY DEF Inv, Unlisted, NoStaleDeadline
<1> QED
  BY <1>1, Invariance, PTL

\* If the application stops every handle before it frees it, nothing refers
\* to a freed one.
THEOREM FreedUnusedHolds == ASSUME StopFirst PROVE Spec => []FreedUnused
<1>1. Inv => FreedUnused
  <2> SUFFICES ASSUME Inv, NEW a \in Aio, freed[a]
               PROVE  /\ a \notin eq_list \union expires \union prov_list \union tq_tasks
                      /\ ~a_expiring[a]
                      /\ Runners(a) = {}
                      /\ \A t \in Thread : cur[t] # a
    BY DEF FreedUnused
  <2>1. /\ dying[a] /\ stopped[a] /\ ~a_expiring[a] /\ a \notin expires
        /\ \A t \in App : cur[t] # a
        /\ cur[Expire] # a
    BY DEF Inv, Freeing
  <2>2. ~inuse[a] /\ Runners(a) = {}
    BY <2>1 DEF Inv, Stopping, Runners
  <2>3. a \notin eq_list \union prov_list \union tq_tasks
    BY <2>2 DEF Inv, Unlisted, Owned
  <2>4. ASSUME NEW t \in Worker \union Io, cur[t] = a
        PROVE  FALSE
    <3>1. pc[t] \in CarryPlaces
      BY <2>4 DEF Inv, Locals, Thread, CallPlaces, CarryPlaces, StartPlaces, CancelPlaces,
                  FiniPlaces
    <3> QED
      BY <2>2, <2>4, <3>1 DEF Inv, Carried, Thread
  <2> QED
    BY <2>1, <2>2, <2>3, <2>4 DEF Thread
<1> QED
  BY <1>1, Invariance, PTL
=============================================================================
