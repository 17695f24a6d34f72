-------------------------------- MODULE Msgq --------------------------------
(***************************************************************************)
(* The message queue between a socket and its protocol (core/msgqueue.c):  *)
(* a ring of cap + 2 cells, and the handles (aios) of the writers and      *)
(* readers that wait.  mq_lock makes each call one step.                   *)
(*                                                                         *)
(* The handle itself is core/aio.c: here it is what msgqueue.c sees of it. *)
(* nni_aio_schedule may refuse (timeout zero, aborted, stopped), and a     *)
(* scheduled handle may be cancelled: its routine is taken at one moment   *)
(* and nni_msgq_cancel runs at another, when the operation may be over and *)
(* the handle in use again.                                                *)
(*                                                                         *)
(* A queue is filled either by nni_msgq_aio_put (the upper queues of raw   *)
(* sockets) or by nni_msgq_tryput (the send queues of pipes, the upper     *)
(* read queue of xsub0).  Operators named Mut_ are faulty forms of the     *)
(* definition after them, to show that the properties can fail.            *)
(***************************************************************************)
EXTENDS Integers, Sequences, FiniteSets, SequencesExt, FiniteSetsExt

CONSTANTS Writer, Reader,  \* handles
          InitCaps,        \* arguments of nni_msgq_init
          Caps,            \* arguments of nni_msgq_resize
          MaxMsgs,         \* bound on the messages sent
          Fills            \* the ways to fill a queue that are looked at

ASSUME MsgqAssumption ==
    /\ Writer \intersect Reader = {}
    /\ InitCaps \subseteq Nat /\ Caps \subseteq Nat /\ MaxMsgs \in Nat
    /\ Fills \subseteq {"aio", "try"}

Msg == 1..MaxMsgs
NoMsg == 0          \* a cell never written (nni_zalloc)
Wild == -1          \* what a read past the ring returns
Handle == Writer \union Reader

VARIABLES
    mq_cap, mq_alloc, mq_len, mq_get, mq_put, mq_closed, mq_msgs,
    mq_aio_putq, mq_aio_getq,
    mq_sendable, mq_recvable,
    polled,       \* the user has asked for a descriptor
    live,         \* between nni_msgq_init and nni_msgq_fini
    fill,         \* filled by nni_msgq_aio_put or by nni_msgq_tryput
    a_msg,        \* the message of a waiting writer
    a_cancel_fn,  \* nni_msgq_cancel is installed
    cancelling,   \* it has been taken and is about to be called
    sent,         \* messages offered so far
    got,          \* messages received, in order
    refused,      \* handed back to their sender with an error
    freed         \* freed by the queue

ring == <<mq_cap, mq_alloc, mq_len, mq_get, mq_put, mq_msgs>>
waiters == <<mq_aio_putq, mq_aio_getq, a_msg, a_cancel_fn>>
polls == <<mq_sendable, mq_recvable, polled>>
vars == <<ring, mq_closed, waiters, polls, live, fill, cancelling, sent, got, refused,
          freed>>

\* nni_msgq_init: cap + 2 cells.
Init ==
    /\ mq_cap \in InitCaps /\ mq_alloc = mq_cap + 2
    /\ mq_len = 0 /\ mq_get = 0 /\ mq_put = 0
    /\ mq_closed = FALSE /\ live = TRUE /\ fill \in Fills
    /\ mq_msgs = [i \in 0..(mq_alloc - 1) |-> NoMsg]
    /\ mq_aio_putq = << >> /\ mq_aio_getq = << >>
    /\ mq_sendable = FALSE /\ mq_recvable = FALSE /\ polled = FALSE
    /\ a_msg = [w \in Writer |-> NoMsg]
    /\ a_cancel_fn = [h \in Handle |-> FALSE]
    /\ cancelling = {}
    /\ sent = 0 /\ got = << >> /\ refused = {} /\ freed = {}

-----------------------------------------------------------------------------
(* The ring.                                                               *)

\* An index after k increments, each followed by the test of the wrap.
Mut_Forward(i, k) == i + k
Forward(i, k) == IF i < mq_alloc THEN (i + k) % mq_alloc ELSE i + k

Cell(i) == IF i < mq_alloc THEN mq_msgs[i] ELSE Wild

\* The messages in the ring, oldest first.
Buffer == [k \in 1..mq_len |-> Cell(Forward(mq_get, k - 1))]

\* The messages of s are stored from mq_put on.
Mut_Store(s) ==
    /\ mq_msgs' = [i \in 0..(mq_alloc - 1) |->
                     LET k == (i - mq_put) % mq_alloc IN
                     IF k < Len(s) THEN s[k + 1] ELSE mq_msgs[i]]
    /\ mq_len' = mq_len + Len(s)
    /\ UNCHANGED <<mq_cap, mq_alloc, mq_get, mq_put>>
Store(s) ==
    /\ mq_msgs' = [i \in 0..(mq_alloc - 1) |->
                     LET k == (i - mq_put) % mq_alloc IN
                     IF k < Len(s) THEN s[k + 1] ELSE mq_msgs[i]]
    /\ mq_put' = Forward(mq_put, Len(s))
    /\ mq_len' = mq_len + Len(s)
    /\ UNCHANGED <<mq_cap, mq_alloc, mq_get>>

\* The n oldest messages are taken out.
Fetch(n) ==
    /\ mq_get' = Forward(mq_get, n)
    /\ mq_len' = mq_len - n
    /\ UNCHANGED <<mq_cap, mq_alloc, mq_put, mq_msgs>>

\* nni_msgq_close and nni_msgq_fini free the messages of the ring.  They test
\* the wrap with >=: an index that a resize has left outside comes back.
Back(i, k) == IF i < mq_alloc \/ k = 0 THEN Forward(i, k) ELSE (k - 1) % mq_alloc
Discard ==
    /\ freed' = freed \union Range([k \in 1..mq_len |-> Cell(Back(mq_get, k - 1))])
    /\ mq_get' = Back(mq_get, mq_len)
    /\ mq_len' = 0
    /\ UNCHANGED <<mq_cap, mq_alloc, mq_put, mq_msgs>>

\* nni_msgq_run_notify, on the state after the step.
Mut_nni_msgq_run_notify ==
    /\ mq_sendable' = (mq_len' < mq_cap' \/ mq_aio_getq' # << >>)
    /\ mq_recvable' = (mq_len' # 0)
    /\ UNCHANGED polled
nni_msgq_run_notify ==
    /\ mq_sendable' = (mq_len' < mq_cap' \/ mq_aio_getq' # << >>)
    /\ mq_recvable' = (mq_len' # 0 \/ mq_aio_putq' # << >>)
    /\ UNCHANGED polled

-----------------------------------------------------------------------------
(* Moving messages.                                                        *)

Mut_nni_aio_list_append(s, h) == <<h>> \o s
nni_aio_list_append(s, h) == Append(s, h)

From(s, n) == SubSeq(s, n + 1, Len(s))
Msgs(s, msg) == [k \in 1..Len(s) |-> msg[s[k]]]

\* The handles of s are finished: no routine any more.
Finished(fn, s) == [h \in Handle |-> fn[h] /\ h \notin Range(s)]

\* nni_msgq_run_putq with the writers puts waiting: waiting readers are
\* served first, then the buffer is filled.
nni_msgq_run_putq(puts, msg, fn) ==
    LET served == Min({Len(puts), Len(mq_aio_getq)})
        stored == Min({Len(puts) - served, Max({0, mq_cap - mq_len})})
        gone   == SubSeq(puts, 1, served + stored)
    IN /\ got' = got \o Msgs(SubSeq(puts, 1, served), msg)
       /\ Store(Msgs(From(gone, served), msg))
       /\ mq_aio_putq' = From(puts, served + stored)
       /\ mq_aio_getq' = From(mq_aio_getq, served)
       /\ a_cancel_fn' = Finished(Finished(fn, gone), SubSeq(mq_aio_getq, 1, served))
       /\ a_msg' = [w \in Writer |-> IF w \in Range(gone) THEN NoMsg ELSE msg[w]]

\* How many of n readers waiting writers can serve.
Mut_Passed(n) == 0
Passed(n) == Min({n, Len(mq_aio_putq)})

\* nni_msgq_run_getq with the readers gets waiting: they empty the buffer,
\* then take from waiting writers.  It does not refill the buffer.
nni_msgq_run_getq(gets, fn) ==
    LET fetched == Min({Len(gets), mq_len})
        passed  == Passed(Len(gets) - fetched)
        gone    == SubSeq(mq_aio_putq, 1, passed)
    IN /\ got' = got \o SubSeq(Buffer, 1, fetched) \o Msgs(gone, a_msg)
       /\ Fetch(fetched)
       /\ mq_aio_getq' = From(gets, fetched + passed)
       /\ mq_aio_putq' = From(mq_aio_putq, passed)
       /\ a_cancel_fn' = Finished(Finished(fn, gone), SubSeq(gets, 1, fetched + passed))
       /\ a_msg' = [w \in Writer |-> IF w \in Range(gone) THEN NoMsg ELSE a_msg[w]]

\* nni_msgq_aio_put.  A refused schedule is an error only if the message
\* cannot be taken at once; the handle has no cancellation routine then.
PutRefused == mq_len >= mq_cap /\ mq_aio_getq = << >>

nni_msgq_aio_put(w, scheduled) ==
    /\ live /\ fill = "aio"
    /\ w \notin Range(mq_aio_putq)
    /\ sent < MaxMsgs
    /\ sent' = sent + 1
    /\ \/ /\ ~scheduled /\ PutRefused
          /\ refused' = refused \union {sent + 1}
          /\ UNCHANGED <<ring, waiters, polls, got>>
       \/ /\ scheduled \/ ~PutRefused
          /\ nni_msgq_run_putq(nni_aio_list_append(mq_aio_putq, w),
                               [a_msg EXCEPT ![w] = sent + 1],
                               [a_cancel_fn EXCEPT ![w] = scheduled])
          /\ nni_msgq_run_notify
          /\ UNCHANGED refused
    /\ UNCHANGED <<mq_closed, live, fill, cancelling, freed>>

\* nni_msgq_aio_get; a refusal changes nothing.
Mut_GetRefused == FALSE
GetRefused == mq_len = 0 /\ mq_aio_putq = << >>

nni_msgq_aio_get(r, scheduled) ==
    /\ live
    /\ r \notin Range(mq_aio_getq)
    /\ scheduled \/ ~GetRefused
    /\ nni_msgq_run_getq(nni_aio_list_append(mq_aio_getq, r),
                         [a_cancel_fn EXCEPT ![r] = scheduled])
    /\ nni_msgq_run_notify
    /\ UNCHANGED <<mq_closed, live, fill, cancelling, sent, refused, freed>>

\* nni_msgq_tryput; NNG_ECLOSED and NNG_EAGAIN leave the message with the
\* caller.
nni_msgq_tryput ==
    /\ live /\ fill = "try"
    /\ sent < MaxMsgs
    /\ sent' = sent + 1
    /\ \/ /\ mq_closed \/ PutRefused
          /\ refused' = refused \union {sent + 1}
          /\ UNCHANGED <<ring, waiters, polls, got>>
       \/ /\ ~mq_closed /\ mq_aio_getq # << >>
          /\ got' = Append(got, sent + 1)
          /\ mq_aio_getq' = Tail(mq_aio_getq)
          /\ a_cancel_fn' = [a_cancel_fn EXCEPT ![Head(mq_aio_getq)] = FALSE]
          /\ UNCHANGED <<ring, mq_aio_putq, a_msg, refused>>
          /\ nni_msgq_run_notify
       \/ /\ ~mq_closed /\ mq_aio_getq = << >> /\ mq_len < mq_cap
          /\ Store(<<sent + 1>>)
          /\ UNCHANGED <<waiters, refused, got>>
          /\ nni_msgq_run_notify
    /\ UNCHANGED <<mq_closed, live, fill, cancelling, freed>>

-----------------------------------------------------------------------------
(* Cancellation, closing and resizing.                                     *)

\* nni_aio_abort, nni_aio_stop or the expiration takes the routine of a
\* handle (core/aio.c) ...
TakeCancel(h) ==
    /\ a_cancel_fn[h]
    /\ a_cancel_fn' = [a_cancel_fn EXCEPT ![h] = FALSE]
    /\ cancelling' = cancelling \union {h}
    /\ UNCHANGED <<ring, mq_closed, mq_aio_putq, mq_aio_getq, a_msg, polls, live, fill,
                   sent, got, refused, freed>>

\* ... and calls it.
Mut_nni_aio_list_active(h) == TRUE
nni_aio_list_active(h) == h \in Range(mq_aio_putq) \union Range(mq_aio_getq)

\* A handle is on a list once at most.
nni_aio_list_remove(s, h) ==
    IF h \in Range(s) THEN RemoveAt(s, CHOOSE i \in DOMAIN s : s[i] = h) ELSE s

nni_msgq_cancel(h) ==
    /\ live
    /\ h \in cancelling
    /\ cancelling' = cancelling \ {h}
    /\ mq_aio_putq' = nni_aio_list_remove(mq_aio_putq, h)
    /\ mq_aio_getq' = nni_aio_list_remove(mq_aio_getq, h)
    /\ a_cancel_fn' = [a_cancel_fn EXCEPT ![h] = @ /\ ~nni_aio_list_active(h)]
    /\ IF h \in Writer /\ nni_aio_list_active(h)
       THEN /\ refused' = refused \union {a_msg[h]}
            /\ a_msg' = [a_msg EXCEPT ![h] = NoMsg]
       ELSE UNCHANGED <<refused, a_msg>>
    /\ UNCHANGED ring
    /\ nni_msgq_run_notify
    /\ UNCHANGED <<mq_closed, live, fill, sent, got, freed>>

\* The messages of the ring are freed and its waiters finished, with
\* NNG_ECLOSED.  The pollables are left as they are.
nni_msgq_close ==
    /\ live
    /\ mq_closed' = TRUE
    /\ Discard
    /\ refused' = refused \union {a_msg[w] : w \in Range(mq_aio_putq)}
    /\ mq_aio_putq' = << >> /\ mq_aio_getq' = << >>
    /\ a_msg' = [w \in Writer |-> NoMsg]
    /\ a_cancel_fn' = [h \in Handle |-> FALSE]
    /\ UNCHANGED <<polls, live, fill, cancelling, sent, got>>

\* The loop of nni_msgq_resize that drops the n oldest messages wraps its
\* index one cell too late.
Overrun(i) == i % (mq_alloc + 1)

\* nni_msgq_resize (nni_sock_setopt calls it on a socket that is not
\* closing).  The ring is only ever replaced by a larger one; the waiters and
\* the pollables are not looked at.  (If there is no memory for a larger one,
\* nothing changes: a stuttering step.)
nni_msgq_resize(cap) ==
    LET n    == Max({0, mq_len - (cap + 1)})
        get  == Overrun(mq_get + n)
        keep == [k \in 1..(mq_len - n) |-> Cell(Forward(get, k - 1))]
    IN /\ live /\ ~mq_closed
       /\ mq_cap' = cap
       /\ freed' = freed \union {Cell(Overrun(mq_get + k)) : k \in 0..(n - 1)}
       /\ mq_len' = mq_len - n
       /\ IF cap + 2 > mq_alloc
          THEN /\ mq_alloc' = cap + 2
               /\ mq_msgs' = [i \in 0..(cap + 1) |-> IF i < Len(keep) THEN keep[i + 1]
                                                                      ELSE NoMsg]
               /\ mq_get' = 0
               /\ mq_put' = Len(keep) % (cap + 2)
          ELSE mq_get' = get /\ UNCHANGED <<mq_alloc, mq_msgs, mq_put>>
       /\ UNCHANGED <<mq_closed, waiters, polls, live, fill, cancelling, sent, got,
                      refused>>

\* nni_msgq_get_sendable and nni_msgq_get_recvable bring both up to date.
nni_msgq_get_pollable ==
    /\ live
    /\ polled' = TRUE
    /\ mq_sendable' = (mq_len < mq_cap \/ mq_aio_getq # << >>)
    /\ mq_recvable' = (mq_len # 0 \/ mq_aio_putq # << >>)
    /\ UNCHANGED <<ring, mq_closed, waiters, live, fill, cancelling, sent, got, refused,
                   freed>>

\* nni_msgq_fini, when the users of the queue are gone: their handles are
\* stopped, so nothing waits and nothing is being cancelled.
nni_msgq_fini ==
    /\ live /\ mq_closed
    /\ mq_aio_putq = << >> /\ mq_aio_getq = << >> /\ cancelling = {}
    /\ live' = FALSE
    /\ Discard
    /\ UNCHANGED <<mq_closed, waiters, polls, fill, cancelling, sent, got, refused>>

Next == \/ \E w \in Writer, s \in BOOLEAN : nni_msgq_aio_put(w, s)
        \/ \E r \in Reader, s \in BOOLEAN : nni_msgq_aio_get(r, s)
        \/ nni_msgq_tryput
        \/ \E h \in Handle : TakeCancel(h) \/ nni_msgq_cancel(h)
        \/ nni_msgq_close \/ nni_msgq_fini \/ nni_msgq_get_pollable
        \/ \E cap \in Caps : nni_msgq_resize(cap)

Spec == Init /\ [][Next]_vars

-----------------------------------------------------------------------------

\* The indices stay in the ring and the lists hold each handle once.
TypeOK ==
    /\ mq_cap \in Nat /\ mq_alloc \in Nat /\ mq_len \in 0..mq_alloc
    /\ mq_get \in 0..(mq_alloc - 1) /\ mq_put \in 0..(mq_alloc - 1)
    /\ mq_msgs \in [0..(mq_alloc - 1) -> Msg \union {NoMsg}]
    /\ IsInjective(mq_aio_putq) /\ Range(mq_aio_putq) \subseteq Writer
    /\ IsInjective(mq_aio_getq) /\ Range(mq_aio_getq) \subseteq Reader
    /\ mq_closed \in BOOLEAN /\ live \in BOOLEAN /\ fill \in Fills
    /\ mq_sendable \in BOOLEAN /\ mq_recvable \in BOOLEAN /\ polled \in BOOLEAN
    /\ a_msg \in [Writer -> Msg \union {NoMsg}]
    /\ a_cancel_fn \in [Handle -> BOOLEAN] /\ cancelling \subseteq Handle
    /\ sent \in 0..MaxMsgs /\ got \in Seq(Msg)
    /\ refused \subseteq Msg /\ freed \subseteq Msg

Way == Buffer \o Msgs(mq_aio_putq, a_msg)

\* Every message is at exactly one place: in the ring or with a waiting
\* writer, received, handed back, or freed; whatever readers, writers,
\* cancellations and the close do in whichever order, none is lost, freed
\* twice or received twice.
Conserved ==
    LET all == Way \o got IN
    /\ IsInjective(all)
    /\ Range(all) \intersect (refused \union freed) = {} /\ refused \intersect freed = {}
    /\ Range(all) \union refused \union freed = 1..sent

\* A reader waits only while there is nothing to read.
ReadersWaitForMessages == mq_aio_getq # << >> => mq_len = 0 /\ mq_aio_putq = << >>

\* A waiting reader can be cancelled, or is being cancelled: it never waits
\* on a handle whose schedule was refused.
ReadersCancelable == \A r \in Range(mq_aio_getq) : a_cancel_fn[r] \/ r \in cancelling

\* Messages come out in the order they went in, those of waiting writers
\* after the buffered ones.
C == INSTANCE Channel WITH chan <- Way
ChannelSpec == C!Spec

Sendable == mq_len < mq_cap \/ mq_aio_getq # << >>
Recvable == mq_len # 0 \/ mq_aio_putq # << >>

\* On a queue that is never made smaller, the descriptors the user has got do
\* not lie: the receive descriptor is readable exactly when a get would not
\* wait, and a readable send descriptor means that a put would not wait.  The
\* converse does not hold for the send descriptor, because nni_msgq_resize does
\* not set it when there is room now: see SendPollsTrue.  A resize to a smaller
\* size leaves it set on a full queue.
PollsTrue == (live /\ ~mq_closed /\ polled) =>
    (mq_sendable => Sendable) /\ mq_recvable = Recvable

-----------------------------------------------------------------------------
(* What comments say, and the code does not do.                            *)

\* nni_msgq_aio_put: an instantaneous operation without room reports
\* NNG_ETIMEDOUT; it does not wait, beyond the reach of any cancellation.
WritersCancelable == \A w \in Range(mq_aio_putq) : a_cancel_fn[w] \/ w \in cancelling

\* msgqueue.h on resizing: "Oldest messages are preserved."
OldestPreserved == [][mq_cap' # mq_cap => IsPrefix(Buffer', Buffer)]_vars

\* nng_options(5): the send descriptor is readable "when the socket is able to
\* accept a message for sending without blocking".  It is not, once a full queue
\* was enlarged: nni_msgq_resize ends without nni_msgq_run_notify.
SendPollsTrue == (live /\ ~mq_closed /\ polled) => mq_sendable = Sendable

\* msgqueue.h: after closing, all operations return NNG_ECLOSED.
ClosedAcceptsNothing == mq_closed => Way = << >>
=============================================================================
