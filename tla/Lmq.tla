-------------------------------- MODULE Lmq --------------------------------
(***************************************************************************)
(* The light-weight message queue (core/lmq.c): a ring of message pointers *)
(* whose size is a power of two, so that an index wraps with a mask.  A    *)
(* queue of capacity two or less lives in the inline array lmq_buf[2] and  *)
(* has lmq_alloc = 0; a larger one, and every resized one, lives on the    *)
(* heap.  The broker has its own copies of resize and fini                 *)
(* (nano_nni_lmq_resize, nano_nni_lmq_fini in nmq_mqtt.c), which release   *)
(* lmq_msgs without looking at lmq_alloc.                                  *)
(*                                                                         *)
(* Locking is the caller's, so one call is one step.  The failing calls    *)
(* (put on a full queue, get on an empty one, resize without memory)       *)
(* return NNG_EAGAIN or NNG_ENOMEM and change nothing: they are stuttering *)
(* steps and have no action.                                               *)
(***************************************************************************)
EXTENDS Integers, Sequences

CONSTANTS Msg,         \* message identities
          NoMsg,       \* an unset pointer
          AllocSizes,  \* the values the doubling loop of resize goes through
          InitCaps,    \* capacities the users pass to nni_lmq_init
          ResizeCaps   \* capacities an option handler passes to nni_lmq_resize

ASSUME MsgAssumption == NoMsg \notin Msg

\* alloc = 2; while (alloc < cap) alloc *= 2;
ASSUME AllocAssumption ==
    /\ AllocSizes \subseteq Nat
    /\ 2 \in AllocSizes
    /\ \A a \in AllocSizes : a >= 2
    /\ \A a \in AllocSizes : a = 2 \/ \E b \in AllocSizes : a = 2 * b

ASSUME CapAssumption == InitCaps \subseteq Nat /\ ResizeCaps \subseteq Nat

VARIABLES lmq_msgs,    \* the ring, indexed from 0
          lmq_cap,
          lmq_alloc,   \* 0 for the inline array
          lmq_len,
          lmq_get,
          lmq_put,
          live,        \* between nni_lmq_init and nni_lmq_fini
          owner,       \* who frees each message: "app", "queue", or it is "freed"
          mp,          \* what the last nni_lmq_get stored through its argument
          bad_free     \* nni_free was given the inline array

vars == <<lmq_msgs, lmq_cap, lmq_alloc, lmq_len, lmq_get, lmq_put,
          live, owner, mp, bad_free>>

\* The number of cells of the ring: alloc of them, or those of lmq_buf.
SizeOf(alloc) == IF alloc = 0 THEN 2 ELSE alloc
Size == SizeOf(lmq_alloc)

\* x & lmq_mask, for the values an index reaches before it is masked.
Mask(x) == IF x < Size THEN x ELSE x - Size

\* The i-th message of the queue, the oldest being number 1.
At(i) == lmq_msgs[Mask(lmq_get + i - 1)]
Contents == {At(i) : i \in 1..lmq_len}

\* The value of alloc after the doubling loop for cap.
RoundUp(cap, alloc) == /\ alloc \in AllocSizes
                       /\ cap <= alloc
                       /\ alloc = 2 \/ alloc < 2 * cap

Least(a, b) == IF a < b THEN a ELSE b

\* lmq_get after one message is taken.  (Operators named Mut_ are faulty forms
\* of the definition after them: no specification uses them, they show that
\* the properties can fail.)
Mut_NextGet == lmq_get + 1
NextGet == Mask(lmq_get + 1)

\* lmq_get after the loop of nni_lmq_flush and nni_lmq_fini.
Mut_FlushGet == lmq_get
FlushGet == Mask(lmq_get + lmq_len)

\* The array a resize fills: the len oldest messages from index 0 on.
Mut_NewRing_Linear(len, alloc) ==
    [i \in 0..(alloc - 1) |-> IF i < len THEN lmq_msgs[i] ELSE NoMsg]
Mut_NewRing_Reversed(len, alloc) ==
    [i \in 0..(alloc - 1) |-> IF i < len THEN At(len - i) ELSE NoMsg]
NewRing(len, alloc) ==
    [i \in 0..(alloc - 1) |-> IF i < len THEN At(i + 1) ELSE NoMsg]

Blank(alloc) == [i \in 0..(SizeOf(alloc) - 1) |-> NoMsg]

Freed(S) == [m \in Msg |-> IF m \in S THEN "freed" ELSE owner[m]]

-----------------------------------------------------------------------------

\* nni_lmq_init: inline up to two, on the heap above; when the allocation
\* fails the queue stays inline with capacity two.
Init == /\ \E c \in InitCaps :
             \/ /\ c <= 2
                /\ lmq_cap = c
                /\ lmq_alloc = 0
             \/ /\ c > 2
                /\ \E a \in AllocSizes : /\ RoundUp(c, a)
                                         /\ lmq_alloc = a
                /\ lmq_cap = c
             \/ /\ c > 2
                /\ lmq_cap = 2
                /\ lmq_alloc = 0
        /\ lmq_msgs = Blank(lmq_alloc)
        /\ lmq_len = 0
        /\ lmq_get = 0
        /\ lmq_put = 0
        /\ live = TRUE
        /\ owner = [m \in Msg |-> "app"]
        /\ mp = NoMsg
        /\ bad_free = FALSE

\* The store at lmq_msgs[lmq_put] misses the ring when lmq_put is not an
\* index of it; the mask is applied only afterwards.
nni_lmq_put(m) ==
    /\ live
    /\ owner[m] = "app"
    /\ lmq_len < lmq_cap
    /\ lmq_msgs' = IF lmq_put < Size THEN [lmq_msgs EXCEPT ![lmq_put] = m]
                                     ELSE lmq_msgs
    /\ lmq_put' = Mask(lmq_put + 1)
    /\ lmq_len' = lmq_len + 1
    /\ owner' = [owner EXCEPT ![m] = "queue"]
    /\ UNCHANGED <<lmq_cap, lmq_alloc, lmq_get, live, mp, bad_free>>

nni_lmq_get ==
    /\ live
    /\ lmq_len > 0
    /\ mp' = lmq_msgs[lmq_get]
    /\ owner' = [m \in Msg |-> IF m = lmq_msgs[lmq_get] THEN "app" ELSE owner[m]]
    /\ lmq_get' = NextGet
    /\ lmq_len' = lmq_len - 1
    /\ UNCHANGED <<lmq_msgs, lmq_cap, lmq_alloc, lmq_put, live, bad_free>>

\* The loop reads len messages from lmq_get on and frees them.
nni_lmq_flush ==
    /\ live
    /\ owner' = Freed(Contents)
    /\ lmq_get' = FlushGet
    /\ lmq_len' = 0
    /\ UNCHANGED <<lmq_msgs, lmq_cap, lmq_alloc, lmq_put, live, mp, bad_free>>

\* What both resizes do to the ring: the cap oldest messages are moved to a
\* new array, the rest is freed, and lmq_put is set to their number, unmasked.
Rebuild(cap) ==
    /\ live
    /\ \E alloc \in AllocSizes :
         LET len == Least(lmq_len, cap) IN
           /\ RoundUp(cap, alloc)
           /\ lmq_msgs' = NewRing(len, alloc)
           /\ lmq_cap' = cap
           /\ lmq_alloc' = alloc
           /\ lmq_len' = len
           /\ lmq_put' = len
           /\ lmq_get' = 0
           /\ owner' = Freed({At(i) : i \in (len + 1)..lmq_len})
    /\ UNCHANGED <<live, mp>>

\* The old array is released only when it is on the heap.
nni_lmq_resize(cap) == Rebuild(cap) /\ UNCHANGED bad_free

\* The broker's copy releases it in any case.
nano_nni_lmq_resize(cap) == /\ Rebuild(cap)
                            /\ bad_free' = (bad_free \/ lmq_alloc = 0)

Drain == /\ live
         /\ live' = FALSE
         /\ owner' = Freed(Contents)
         /\ lmq_get' = FlushGet
         /\ lmq_len' = 0
         /\ UNCHANGED <<lmq_msgs, lmq_cap, lmq_alloc, lmq_put, mp>>

nni_lmq_fini == Drain /\ UNCHANGED bad_free

nano_nni_lmq_fini == Drain /\ bad_free' = (bad_free \/ lmq_alloc = 0)

nni_lmq_full == lmq_len >= lmq_cap

-----------------------------------------------------------------------------
(* The three ways the code uses a queue.                                   *)

Common == nni_lmq_get \/ nni_lmq_flush \/ \E m \in Msg : nni_lmq_put(m)

\* A cache that is doubled when it is full: the broker's waitlmq and the
\* queues of the websocket and QUIC transports.
Grow == nni_lmq_full /\ 2 * lmq_cap \in ResizeCaps /\ nni_lmq_resize(2 * lmq_cap)
GrowNext == Common \/ Grow \/ nni_lmq_fini
GrowSpec == Init /\ [][GrowNext]_vars

\* The broker's rlmq: the same policy with the broker's own resize and fini.
\* ResizeCaps stands for the doublings up to NANO_MAX_QOS_PACKET, beyond which
\* the broker drops the message and leaves the queue alone.
NanoGrow == /\ nni_lmq_full
            /\ 2 * lmq_cap \in ResizeCaps
            /\ nano_nni_lmq_resize(2 * lmq_cap)
NanoNext == Common \/ NanoGrow \/ nano_nni_lmq_fini
NanoSpec == Init /\ [][NanoNext]_vars

\* A socket buffer whose depth is an option (NNG_OPT_SENDBUF, NNG_OPT_RECVBUF
\* of push, pair, pub, sub and bus): any capacity at any time.
SetBufLen == \E cap \in ResizeCaps : nni_lmq_resize(cap)
OptNext == Common \/ SetBufLen \/ nni_lmq_fini
OptSpec == Init /\ [][OptNext]_vars

-----------------------------------------------------------------------------

\* Every variable has its type: the ring is exactly as large as lmq_alloc
\* says, and the indices stay in it (lmq_put may lie one past it after a
\* resize that kept a full ring).
TypeOK == /\ lmq_alloc \in AllocSizes \union {0}
          /\ lmq_msgs \in [0..(Size - 1) -> Msg \union {NoMsg}]
          /\ lmq_cap \in Nat
          /\ lmq_len \in 0..Size
          /\ lmq_get \in 0..(Size - 1)
          /\ lmq_put \in 0..Size
          /\ live \in BOOLEAN
          /\ owner \in [Msg -> {"app", "queue", "freed"}]
          /\ mp \in Msg \union {NoMsg}
          /\ bad_free \in BOOLEAN

\* The messages put and not yet taken, freed or handed back are exactly the
\* ones a reader will find between lmq_get and lmq_put, each once: no
\* accepted message is lost, and none is delivered or freed twice.
Buffered == /\ Contents = {m \in Msg : owner[m] = "queue"}
            /\ \A i, j \in 1..lmq_len : At(i) = At(j) => i = j

\* What a put accepts below lmq_cap lands in the ring and overwrites no message:
\* the capacity never exceeds the ring, and lmq_put, which put, get, flush and
\* resize maintain apart from lmq_get, is always where the messages end.
PutInRing == live => /\ lmq_len <= lmq_cap
                     /\ lmq_cap <= Size
                     /\ lmq_put = Mask(lmq_get + lmq_len)

\* nni_free never gets the inline array lmq_buf.
FreesHeapOnly == ~bad_free

\* The queue is a bounded FIFO whatever the ring looks like.
Q == [i \in 1..lmq_len |-> At(i)]
Fifo == INSTANCE BoundedFifo WITH q <- Q, cap <- lmq_cap
FifoSpec == Fifo!Spec
=============================================================================
