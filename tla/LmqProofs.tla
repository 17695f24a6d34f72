----------------------------- MODULE LmqProofs -----------------------------
(***************************************************************************)
(* Proofs about the queue of core/lmq.c under the policy of its caches     *)
(* (GrowSpec): for every set of messages, every initial capacity and every *)
(* doubling, the ring holds exactly the accepted messages, and the queue   *)
(* implements the abstract FIFO.                                           *)
(***************************************************************************)
EXTENDS Lmq, SequenceTheorems, TLAPS

\* The inductive invariant: Buffered alone is not inductive, because a put
\* keeps it only if its store lands in the ring, on a cell no message uses.
LmqInv == TypeOK /\ PutInRing /\ Buffered

\* Masking brings an index back into the ring.
LEMMA MaskInRing ==
    ASSUME TypeOK, NEW x \in 0..(2 * Size - 1)
    PROVE  /\ Size \in Nat /\ Size >= 2
           /\ Mask(x) \in 0..(Size - 1)
BY AllocAssumption DEF TypeOK, Size, SizeOf, Mask

\* Two positions of the queue less than a ring apart use different cells.
LEMMA MaskInjective ==
    ASSUME TypeOK, NEW i \in 0..(Size - 1), NEW j \in 0..(Size - 1),
           Mask(lmq_get + i) = Mask(lmq_get + j)
    PROVE  i = j
BY AllocAssumption DEF TypeOK, Size, SizeOf, Mask

\* A message of the queue is a message.
LEMMA AtType ==
    ASSUME TypeOK, NEW i \in 1..Size
    PROVE  At(i) \in Msg \union {NoMsg}
<1>1. lmq_get + i - 1 \in 0..(2 * Size - 1)
  BY AllocAssumption DEF TypeOK, Size, SizeOf
<1> QED
  BY <1>1, MaskInRing DEF At, TypeOK

\* nni_lmq_init establishes the invariant.
LEMMA InitInv == Init => LmqInv
<1> SUFFICES ASSUME Init PROVE LmqInv
  OBVIOUS
<1>1. /\ lmq_alloc \in AllocSizes \union {0}
      /\ lmq_cap \in Nat
      /\ lmq_cap <= Size
  BY AllocAssumption, CapAssumption DEF Init, Size, SizeOf, RoundUp
<1>2. Size \in Nat /\ Size >= 2
  BY <1>1, AllocAssumption DEF Size, SizeOf
<1>3. lmq_msgs \in [0..(Size - 1) -> Msg \union {NoMsg}]
  BY DEF Init, Blank, Size
<1>4. TypeOK
  <2>1. /\ lmq_len \in 0..Size
        /\ lmq_get \in 0..(Size - 1)
        /\ lmq_put \in 0..Size
    BY <1>2 DEF Init
  <2>2. /\ live \in BOOLEAN /\ bad_free \in BOOLEAN
        /\ mp \in Msg \union {NoMsg}
        /\ owner \in [Msg -> {"app", "queue", "freed"}]
    BY DEF Init
  <2> QED
    BY <1>1, <1>3, <2>1, <2>2 DEF TypeOK
<1>5. PutInRing
  BY <1>1, <1>2 DEF Init, PutInRing, Mask
<1>6. Buffered
  BY DEF Init, Buffered, Contents
<1> QED
  BY <1>4, <1>5, <1>6 DEF LmqInv

\* A put stores at the first cell past the queue and disturbs no other.
LEMMA PutCells ==
    ASSUME LmqInv, NEW m \in Msg, nni_lmq_put(m)
    PROVE  /\ Size' = Size
           /\ lmq_len + 1 <= Size
           /\ lmq_put < Size
           /\ \A i \in 1..lmq_len : At(i)' = At(i)
           /\ \A i : i = lmq_len + 1 => At(i)' = m
<1>1. Size' = Size /\ Size \in Nat /\ Size >= 2
  BY AllocAssumption DEF LmqInv, TypeOK, nni_lmq_put, Size, SizeOf
<1>2. lmq_len + 1 <= Size
  BY <1>1 DEF LmqInv, TypeOK, PutInRing, nni_lmq_put
<1>3. lmq_put < Size /\ lmq_put = Mask(lmq_get + lmq_len)
  BY <1>1, <1>2 DEF LmqInv, TypeOK, PutInRing, nni_lmq_put, Mask
<1>5. lmq_msgs' = [lmq_msgs EXCEPT ![lmq_put] = m] /\ lmq_get' = lmq_get
  BY <1>3 DEF nni_lmq_put
<1>6. ASSUME NEW i \in 1..lmq_len
      PROVE  At(i)' = At(i)
  <2>1. i - 1 \in 0..(Size - 1) /\ lmq_len \in 0..(Size - 1) /\ i - 1 # lmq_len
    BY <1>1, <1>2 DEF LmqInv, TypeOK
  <2>2. Mask(lmq_get + (i - 1)) # lmq_put
    BY <2>1, <1>3, MaskInjective DEF LmqInv
  <2>3. lmq_get + i - 1 = lmq_get + (i - 1)
    BY <1>1 DEF LmqInv, TypeOK
  <2>4. Mask(lmq_get + i - 1) \in 0..(Size - 1)
    BY <1>1, <2>1, <2>3, MaskInRing DEF LmqInv, TypeOK
  <2> QED
    BY <1>1, <1>5, <2>2, <2>3, <2>4 DEF At, LmqInv, TypeOK, Mask
<1>7. ASSUME NEW i, i = lmq_len + 1
      PROVE  At(i)' = m
  BY <1>1, <1>3, <1>5, <1>7 DEF At, LmqInv, TypeOK, Mask
<1> QED
  BY <1>1, <1>2, <1>3, <1>6, <1>7

\* A get advances the queue by one cell.
LEMMA GetCells ==
    ASSUME LmqInv, nni_lmq_get
    PROVE  /\ Size' = Size
           /\ lmq_len \in 1..Size
           /\ lmq_get' \in 0..(Size - 1)
           /\ lmq_msgs[lmq_get] = At(1)
           /\ \A i \in 1..(lmq_len - 1) : At(i)' = At(i + 1)
           /\ PutInRing'
<1>1. Size' = Size /\ Size \in Nat /\ Size >= 2 /\ lmq_len \in 1..Size
  BY AllocAssumption DEF LmqInv, TypeOK, nni_lmq_get, Size, SizeOf
<1>2. lmq_get' = (IF lmq_get + 1 < Size THEN lmq_get + 1 ELSE lmq_get + 1 - Size)
      /\ lmq_len' = lmq_len - 1 /\ lmq_msgs' = lmq_msgs /\ lmq_put' = lmq_put
      /\ lmq_cap' = lmq_cap
  BY <1>1 DEF nni_lmq_get, NextGet, Mask, LmqInv, TypeOK
<1>3. lmq_get' \in 0..(Size - 1)
  BY <1>1, <1>2 DEF LmqInv, TypeOK
<1>4. lmq_msgs[lmq_get] = At(1)
  BY <1>1 DEF At, Mask, LmqInv, TypeOK
<1>5. \A i \in 1..(lmq_len - 1) : At(i)' = At(i + 1)
  BY <1>1, <1>2 DEF At, Mask, LmqInv, TypeOK
<1>6. PutInRing'
  <2>1. live /\ lmq_len <= lmq_cap /\ lmq_cap <= Size
        /\ lmq_put = Mask(lmq_get + lmq_len)
    BY DEF LmqInv, PutInRing, nni_lmq_get
  <2>2. lmq_len' <= lmq_cap' /\ lmq_cap' <= Size'
    BY <1>1, <1>2, <2>1 DEF LmqInv, TypeOK
  <2>3. lmq_put' = Mask(lmq_get + lmq_len)'
    BY <1>1, <1>2, <2>1 DEF LmqInv, TypeOK, Mask
  <2> QED
    BY <2>2, <2>3 DEF PutInRing
<1> QED
  BY <1>1, <1>3, <1>4, <1>5, <1>6

\* Doubling a full queue moves every message to the front of the new ring
\* and leaves room after it, so that lmq_put = len is an index of the ring.
LEMMA GrowCells ==
    ASSUME LmqInv, Grow
    PROVE  /\ lmq_alloc' \in AllocSizes
           /\ Size' \in Nat /\ Size' >= 2
           /\ lmq_len' = lmq_len /\ lmq_len <= Size'
           /\ lmq_cap' = 2 * lmq_cap /\ lmq_get' = 0
           /\ lmq_put' \in 0..Size'
           /\ PutInRing'
           /\ \A i \in 1..lmq_len : At(i)' = At(i)
           /\ lmq_msgs' \in [0..(Size' - 1) -> Msg \union {NoMsg}]
           /\ owner' = [m \in Msg |-> owner[m]]
           /\ UNCHANGED <<live, mp, bad_free>>
<1>1. PICK alloc \in AllocSizes :
        LET len == Least(lmq_len, 2 * lmq_cap) IN
           /\ RoundUp(2 * lmq_cap, alloc)
           /\ lmq_msgs' = [i \in 0..(alloc - 1) |->
                             IF i < len THEN At(i + 1) ELSE NoMsg]
           /\ lmq_cap' = 2 * lmq_cap
           /\ lmq_alloc' = alloc
           /\ lmq_len' = len
           /\ lmq_put' = len
           /\ lmq_get' = 0
           /\ owner' = Freed({At(i) : i \in (len + 1)..lmq_len})
  BY DEF Grow, nni_lmq_resize, Rebuild, NewRing
<1>2. lmq_len <= lmq_cap /\ lmq_cap <= lmq_len
      /\ lmq_cap \in Nat /\ lmq_len \in Nat /\ live
  BY AllocAssumption DEF Grow, nni_lmq_full, nni_lmq_resize, Rebuild, LmqInv, TypeOK,
     PutInRing, Size, SizeOf
<1>3. Least(lmq_len, 2 * lmq_cap) = lmq_len
  BY <1>2 DEF Least
<1>4. Size' = alloc /\ alloc \in Nat /\ alloc >= 2 /\ 2 * lmq_cap <= alloc
  BY <1>1, AllocAssumption DEF Size, SizeOf, RoundUp
<1>5. lmq_len < alloc
  BY <1>2, <1>4
<1>6. PutInRing'
  BY <1>1, <1>2, <1>3, <1>4, <1>5 DEF PutInRing, Mask
<1>7. \A i \in 1..lmq_len : At(i)' = At(i)
  <2> TAKE i \in 1..lmq_len
  <2>1. At(i)' = lmq_msgs'[i - 1]
    BY <1>1, <1>2, <1>4, <1>5 DEF At, Mask
  <2> QED
    BY <2>1, <1>1, <1>2, <1>3, <1>4, <1>5
<1>8. lmq_msgs' \in [0..(Size' - 1) -> Msg \union {NoMsg}]
  <2>1. lmq_len <= Size
    BY DEF LmqInv, TypeOK
  <2>2. \A i \in 0..(alloc - 1) : i < lmq_len => At(i + 1) \in Msg \union {NoMsg}
    <3>1. Size \in Nat
      BY AllocAssumption DEF LmqInv, TypeOK, Size, SizeOf
    <3>2. \A i \in 0..(alloc - 1) : i < lmq_len => i + 1 \in 1..Size
      BY <3>1, <2>1, <1>2, <1>4
    <3> QED
      BY <3>2, AtType DEF LmqInv
  <2> QED
    BY <2>2, <1>1, <1>3, <1>4
<1>9. owner' = [m \in Msg |-> owner[m]]
  BY <1>1, <1>2, <1>3 DEF Freed
<1> QED
  BY <1>1, <1>2, <1>3, <1>4, <1>5, <1>6, <1>7, <1>8, <1>9 DEF Grow, nni_lmq_resize, Rebuild

\* Draining the queue leaves it empty with lmq_get where lmq_put is.
LEMMA DrainCells ==
    ASSUME LmqInv, lmq_get' = Mask(lmq_get + lmq_len), lmq_len' = 0,
           UNCHANGED <<lmq_cap, lmq_alloc, lmq_put>>
    PROVE  /\ Size' = Size
           /\ lmq_len' \in 0..Size
           /\ lmq_get' \in 0..(Size - 1)
           /\ live' /\ live => PutInRing'
<1>1. Size' = Size /\ Size \in Nat /\ Size >= 2
  BY AllocAssumption DEF LmqInv, TypeOK, Size, SizeOf
<1>2. lmq_get + lmq_len \in 0..(2 * Size - 1)
  BY <1>1 DEF LmqInv, TypeOK
<1>3. lmq_get' \in 0..(Size - 1)
  BY <1>2, MaskInRing DEF LmqInv
<1>4. ASSUME live PROVE PutInRing'
  <2>1. lmq_cap <= Size /\ lmq_put = lmq_get' /\ lmq_cap \in Nat
    BY <1>4 DEF LmqInv, PutInRing, TypeOK
  <2>2. lmq_put' = Mask(lmq_get + lmq_len)'
    BY <2>1, <1>1, <1>3 DEF Mask
  <2> QED
    BY <2>1, <2>2, <1>1 DEF PutInRing
<1> QED
  BY <1>1, <1>3, <1>4

\* Every step of a doubled cache keeps the invariant.
LEMMA StepInv == LmqInv /\ [GrowNext]_vars => LmqInv'
<1> SUFFICES ASSUME LmqInv, [GrowNext]_vars PROVE LmqInv'
  OBVIOUS
<1> USE DEF LmqInv
<1>0. Size \in Nat /\ Size >= 2
  BY AllocAssumption DEF TypeOK, Size, SizeOf
<1>1. ASSUME NEW m \in Msg, nni_lmq_put(m) PROVE LmqInv'
  <2>1. /\ Size' = Size /\ lmq_len + 1 <= Size /\ lmq_put < Size
        /\ \A i \in 1..lmq_len : At(i)' = At(i)
        /\ \A i : i = lmq_len + 1 => At(i)' = m
    BY <1>1, PutCells
  <2>2. lmq_put' = Mask(lmq_put + 1) /\ lmq_put' \in 0..(Size - 1)
    BY <1>0, <1>1, <2>1, MaskInRing DEF nni_lmq_put, TypeOK
  <2>3. TypeOK'
    BY <1>0, <1>1, <2>1, <2>2 DEF TypeOK, nni_lmq_put
  <2>4. PutInRing'
    <3>1. live /\ lmq_len < lmq_cap /\ lmq_cap <= Size
          /\ lmq_put = Mask(lmq_get + lmq_len)
      BY <1>1 DEF PutInRing, nni_lmq_put
    <3>2. /\ lmq_get' = lmq_get /\ lmq_len' = lmq_len + 1 /\ lmq_cap' = lmq_cap
      BY <1>1 DEF nni_lmq_put
    <3>3. lmq_put' = Mask(lmq_get + lmq_len)'
      BY <1>0, <2>1, <2>2, <3>1, <3>2 DEF Mask, TypeOK
    <3> QED
      BY <1>0, <2>1, <3>1, <3>2, <3>3 DEF PutInRing, TypeOK
  <2>5. Buffered'
    <3>1. lmq_len' = lmq_len + 1 /\ lmq_len \in Nat
      BY <1>0, <1>1 DEF nni_lmq_put, TypeOK
    <3>2. m \notin Contents
      BY <1>1 DEF Buffered, nni_lmq_put
    <3>3. Contents' = Contents \union {m}
      BY <2>1, <3>1 DEF Contents
    <3>4. {x \in Msg : owner[x] = "queue"}' = {x \in Msg : owner[x] = "queue"} \union {m}
      BY <1>1 DEF nni_lmq_put, TypeOK
    <3>5. \A i, j \in 1..lmq_len' : At(i)' = At(j)' => i = j
      BY <2>1, <3>1, <3>2 DEF Buffered, Contents
    <3> QED
      BY <3>3, <3>4, <3>5 DEF Buffered
  <2> QED
    BY <2>3, <2>4, <2>5
<1>2. ASSUME nni_lmq_get PROVE LmqInv'
  <2>1. /\ Size' = Size /\ lmq_len \in 1..Size
        /\ lmq_get' \in 0..(Size - 1)
        /\ lmq_msgs[lmq_get] = At(1)
        /\ \A i \in 1..(lmq_len - 1) : At(i)' = At(i + 1)
        /\ PutInRing'
    BY <1>2, GetCells
  <2>2. TypeOK'
    BY <1>0, <1>2, <2>1 DEF TypeOK, nni_lmq_get
  <2>3. Buffered'
    <3>1. lmq_len' = lmq_len - 1 /\ lmq_len \in Nat
      BY <1>0, <1>2, <2>1 DEF nni_lmq_get
    <3>2. \A i \in 2..lmq_len : At(i) # At(1)
      BY <2>1 DEF Buffered
    <3>3. Contents' = Contents \ {At(1)}
      <4>1. \A i \in 1..lmq_len' : i + 1 \in 2..lmq_len /\ At(i)' = At(i + 1)
        BY <2>1, <3>1
      <4>2. \A i \in 2..lmq_len : i - 1 \in 1..lmq_len' /\ At(i - 1 + 1) = At(i)
        BY <3>1
      <4>3. Contents' = {At(i) : i \in 2..lmq_len}
        BY <4>1, <4>2, <3>1 DEF Contents
      <4>4. 1 \in 1..lmq_len /\ \A i \in 1..lmq_len : i = 1 \/ i \in 2..lmq_len
        BY <2>1, <3>1
      <4>5. \A i \in 2..lmq_len : i \in 1..lmq_len
        BY <3>1
      <4>6. Contents = {At(i) : i \in 2..lmq_len} \union {At(1)}
        BY <4>4, <4>5 DEF Contents
      <4> QED
        BY <4>3, <4>6, <3>2
    <3>4. {x \in Msg : owner[x] = "queue"}' = {x \in Msg : owner[x] = "queue"} \ {At(1)}
      BY <1>2, <2>1 DEF nni_lmq_get, TypeOK
    <3>5. \A i, j \in 1..lmq_len' : At(i)' = At(j)' => i = j
      BY <2>1, <3>1 DEF Buffered
    <3> QED
      BY <3>3, <3>4, <3>5 DEF Buffered
  <2> QED
    BY <2>1, <2>2, <2>3
<1>3. ASSUME nni_lmq_flush \/ nni_lmq_fini PROVE LmqInv'
  <2>1. /\ lmq_get' = Mask(lmq_get + lmq_len) /\ lmq_len' = 0
        /\ UNCHANGED <<lmq_cap, lmq_alloc, lmq_put, lmq_msgs, mp, bad_free>>
        /\ live /\ live' \in BOOLEAN
        /\ owner' = Freed(Contents)
    BY <1>3 DEF nni_lmq_flush, nni_lmq_fini, Drain, FlushGet, TypeOK
  <2>2. /\ Size' = Size /\ lmq_len' \in 0..Size
        /\ lmq_get' \in 0..(Size - 1)
        /\ live' => PutInRing'
    BY <2>1, DrainCells
  <2>3. PutInRing'
    BY <2>2 DEF PutInRing
  <2>4. TypeOK'
    BY <1>0, <2>1, <2>2 DEF TypeOK, Freed
  <2>5. Buffered'
    BY <2>1 DEF Buffered, Contents, Freed
  <2> QED
    BY <2>3, <2>4, <2>5
<1>4. ASSUME Grow PROVE LmqInv'
  <2>1. /\ lmq_alloc' \in AllocSizes
        /\ Size' \in Nat /\ Size' >= 2
        /\ lmq_len' = lmq_len /\ lmq_len <= Size'
        /\ lmq_cap' = 2 * lmq_cap /\ lmq_get' = 0
        /\ PutInRing'
        /\ \A i \in 1..lmq_len : At(i)' = At(i)
        /\ lmq_msgs' \in [0..(Size' - 1) -> Msg \union {NoMsg}]
        /\ owner' = [m \in Msg |-> owner[m]]
        /\ UNCHANGED <<live, mp, bad_free>>
    BY <1>4, GrowCells
  <2>2. lmq_put' \in 0..Size'
    BY <1>4, GrowCells
  <2>3. /\ lmq_cap' \in Nat
        /\ lmq_len' \in 0..Size' /\ lmq_get' \in 0..(Size' - 1)
        /\ live' \in BOOLEAN /\ bad_free' \in BOOLEAN
        /\ mp' \in Msg \union {NoMsg}
        /\ owner' \in [Msg -> {"app", "queue", "freed"}]
    <3>1. lmq_cap' \in Nat /\ lmq_len' \in 0..Size' /\ lmq_get' \in 0..(Size' - 1)
      <4>1. lmq_cap \in Nat /\ lmq_len \in Nat
        BY <1>0 DEF TypeOK
      <4>2. /\ Size' \in Nat /\ Size' >= 2 /\ lmq_len' = lmq_len /\ lmq_len <= Size'
            /\ lmq_cap' = 2 * lmq_cap /\ lmq_get' = 0
        BY <2>1
      <4>3. lmq_cap' \in Nat
        BY <4>1, <4>2
      <4>4. lmq_len' \in 0..Size'
        BY <4>1, <4>2
      <4>5. lmq_get' \in 0..(Size' - 1)
        <5>1. \A n \in Nat : n >= 2 => 0 \in 0..(n - 1)
          OBVIOUS
        <5> QED
          BY <4>2, <5>1
      <4> QED
        BY <4>3, <4>4, <4>5
    <3>2. live' \in BOOLEAN /\ bad_free' \in BOOLEAN /\ mp' \in Msg \union {NoMsg}
      BY <2>1, Zenon DEF TypeOK
    <3>3. owner' \in [Msg -> {"app", "queue", "freed"}]
      BY <2>1 DEF TypeOK
    <3> QED
      BY <3>1, <3>2, <3>3
  <2>4. TypeOK'
    <3>1. lmq_alloc' \in AllocSizes \union {0}
          /\ lmq_msgs' \in [0..(Size' - 1) -> Msg \union {NoMsg}]
      BY <2>1
    <3> QED
      BY <2>2, <2>3, <3>1 DEF TypeOK
  <2>5. Buffered'
    BY <2>1 DEF Buffered, Contents, TypeOK
  <2> QED
    BY <2>1, <2>4, <2>5
<1>5. ASSUME UNCHANGED vars PROVE LmqInv'
  BY <1>5 DEF vars, TypeOK, PutInRing, Buffered, Contents, At, Mask, Size
<1> QED
  BY <1>1, <1>2, <1>3, <1>4, <1>5 DEF GrowNext, Common

\* The ring of a doubled cache keeps its types: the indices stay below the
\* allocated size, whatever nni_lmq_resize makes of it.
THEOREM LmqTypeCorrect == GrowSpec => []TypeOK
<1>1. LmqInv => TypeOK
  BY DEF LmqInv
<1> QED
  BY <1>1, InitInv, StepInv, PTL DEF GrowSpec

\* nni_lmq_put never stores outside the ring of a doubled cache, nor on a cell
\* that holds a message, although put is an index of its own.
THEOREM LmqPutsInRing == GrowSpec => []PutInRing
<1>1. LmqInv => PutInRing
  BY DEF LmqInv
<1> QED
  BY <1>1, InitInv, StepInv, PTL DEF GrowSpec

\* A cache that is doubled when full never loses an accepted message and never
\* hands one over twice, whatever its initial capacity (waitlmq of nmq_mqtt.c,
\* the queues of nmq_websocket.c).
THEOREM LmqBuffered == GrowSpec => []Buffered
<1>1. LmqInv => Buffered
  BY DEF LmqInv
<1> QED
  BY <1>1, InitInv, StepInv, PTL DEF GrowSpec

\* The abstract queue, seen through the ring.
LEMMA QSeq ==
    ASSUME LmqInv
    PROVE  /\ Q \in Seq(Msg \union {NoMsg})
           /\ Len(Q) = lmq_len
           /\ lmq_len \in Nat
           /\ \A i \in 1..lmq_len : Q[i] = At(i)
<1>1. Size \in Nat /\ lmq_len \in 0..Size
  BY AllocAssumption DEF LmqInv, TypeOK, Size, SizeOf
<1>2. \A i \in 1..lmq_len : At(i) \in Msg \union {NoMsg}
  BY <1>1, AtType DEF LmqInv
<1>3. Q \in [1..lmq_len -> Msg \union {NoMsg}]
  BY <1>2 DEF Q
<1>4. Q \in Seq(Msg \union {NoMsg})
  BY <1>1, <1>3
<1>5. Len(Q) = lmq_len
  BY <1>1, <1>3, <1>4
<1> QED
  BY <1>1, <1>4, <1>5 DEF Q

\* Each operation on the ring is the same operation on the sequence.
LEMMA PutRefines ==
    ASSUME LmqInv, LmqInv', NEW m \in Msg, nni_lmq_put(m)
    PROVE  Fifo!Put(m)
<1>1. Q' = Append(Q, m)
  <2>1. lmq_len' = lmq_len + 1
    BY DEF nni_lmq_put
  <2>2. \A i \in 1..lmq_len : At(i)' = At(i)
    BY PutCells
  <2>3. \A i : i = lmq_len + 1 => At(i)' = m
    BY PutCells
  <2>4. Q' = [i \in 1..(lmq_len + 1) |-> IF i <= lmq_len THEN Q[i] ELSE m]
    BY <2>1, <2>2, <2>3, QSeq DEF Q
  <2>5. /\ Q' \in Seq(Msg \union {NoMsg}) /\ Len(Q') = lmq_len + 1
        /\ \A i \in 1..lmq_len : Q'[i] = Q[i]
        /\ Q'[lmq_len + 1] = m
    BY <2>4, QSeq
  <2>6. /\ Append(Q, m) \in Seq(Msg \union {NoMsg})
        /\ Len(Append(Q, m)) = lmq_len + 1
        /\ \A i \in 1..lmq_len : Append(Q, m)[i] = Q[i]
        /\ Append(Q, m)[lmq_len + 1] = m
    BY AppendProperties, QSeq
  <2>7. \A i \in 1..(lmq_len + 1) : Q'[i] = Append(Q, m)[i]
    BY <2>5, <2>6, QSeq
  <2> QED
    BY <2>5, <2>6, <2>7, SeqEqual
<1> QED
  BY <1>1, QSeq DEF Fifo!Put, nni_lmq_put

LEMMA GetRefines ==
    ASSUME LmqInv, LmqInv', nni_lmq_get
    PROVE  Fifo!Get
<1>1. /\ lmq_len \in Nat /\ lmq_len > 0 /\ lmq_len' = lmq_len - 1
      /\ lmq_msgs[lmq_get] = At(1)
      /\ \A i \in 1..(lmq_len - 1) : At(i)' = At(i + 1)
  BY GetCells, QSeq DEF nni_lmq_get
<1>2. Q' = Tail(Q)
  <2>1. Q' = [i \in 1..(lmq_len - 1) |-> Q[i + 1]]
    BY <1>1, QSeq DEF Q
  <2>2. /\ Q' \in Seq(Msg \union {NoMsg}) /\ Len(Q') = lmq_len - 1
        /\ \A i \in 1..(lmq_len - 1) : Q'[i] = Q[i + 1]
    BY <2>1, <1>1, QSeq
  <2>3. Q # << >>
    BY <1>1, QSeq
  <2>4. /\ Tail(Q) \in Seq(Msg \union {NoMsg})
        /\ Len(Tail(Q)) = lmq_len - 1
        /\ \A i \in 1..(lmq_len - 1) : Tail(Q)[i] = Q[i + 1]
    BY <2>3, HeadTailProperties, QSeq
  <2> QED
    BY <2>2, <2>4, SeqEqual
<1>3. Q[1] = At(1)
  BY <1>1, QSeq
<1>4. owner' = [owner EXCEPT ![Q[1]] = "app"]
  BY <1>1, <1>3 DEF nni_lmq_get, LmqInv, TypeOK
<1> QED
  BY <1>1, <1>2, <1>3, <1>4, QSeq DEF Fifo!Get, nni_lmq_get

LEMMA DrainRefines ==
    ASSUME LmqInv, LmqInv', nni_lmq_flush \/ nni_lmq_fini
    PROVE  Fifo!Flush
<1>1. lmq_len' = 0 /\ owner' = Freed(Contents) /\ UNCHANGED <<lmq_cap, mp>>
  BY DEF nni_lmq_flush, nni_lmq_fini, Drain
<1>2. Q' = << >>
  BY <1>1 DEF Q
<1>3. Fifo!Contents = Contents
  BY QSeq DEF Fifo!Contents, Contents
<1> QED
  BY <1>1, <1>2, <1>3 DEF Fifo!Flush, Freed

LEMMA GrowRefines ==
    ASSUME LmqInv, LmqInv', Grow
    PROVE  Fifo!Resize
<1>1. /\ lmq_len' = lmq_len
      /\ lmq_cap' = 2 * lmq_cap
      /\ \A i \in 1..lmq_len : At(i)' = At(i)
      /\ owner' = [m \in Msg |-> owner[m]]
      /\ mp' = mp
  BY GrowCells
<1>2. lmq_cap \in Nat /\ lmq_len <= lmq_cap
  BY DEF LmqInv, TypeOK, PutInRing, Grow, nni_lmq_resize, Rebuild
<1>3. Q' = Q
  BY <1>1 DEF Q
<1>4. Q = SubSeq(Q, 1, Len(Q))
  BY QSeq
<1>5. lmq_cap' \in Nat /\ Len(Q) <= lmq_cap' /\ Len(Q) \in 0..Len(Q)
  BY <1>1, <1>2, QSeq
<1>6. ~ \E i \in (Len(Q) + 1)..Len(Q) : TRUE
  BY QSeq
<1>7. owner' = [m \in Msg |-> IF \E i \in (Len(Q)+1)..Len(Q) : Q[i] = m
                              THEN "freed" ELSE owner[m]]
  BY <1>1, <1>6
<1> QED
  BY <1>1, <1>3, <1>4, <1>5, <1>7 DEF Fifo!Resize

\* A doubled cache implements the bounded FIFO: every call on the ring is the
\* same call on a sequence of messages, and resizing is invisible except in
\* the capacity.
THEOREM LmqIsFifo == GrowSpec => FifoSpec
<1>1. Init => Fifo!Init
  <2> SUFFICES ASSUME Init PROVE Fifo!Init
    OBVIOUS
  <2>1. Q = << >>
    BY DEF Init, Q
  <2>2. lmq_cap \in Nat
    BY InitInv DEF LmqInv, TypeOK
  <2> QED
    BY <2>1, <2>2 DEF Init, Fifo!Init
<1>2. LmqInv /\ LmqInv' /\ [GrowNext]_vars => [Fifo!Next]_(Fifo!vars)
  <2> SUFFICES ASSUME LmqInv, LmqInv', [GrowNext]_vars
               PROVE  [Fifo!Next]_(Fifo!vars)
    OBVIOUS
  <2>1. CASE \E m \in Msg : nni_lmq_put(m)
    BY <2>1, PutRefines DEF Fifo!Next
  <2>2. CASE nni_lmq_get
    BY <2>2, GetRefines DEF Fifo!Next
  <2>3. CASE nni_lmq_flush \/ nni_lmq_fini
    BY <2>3, DrainRefines DEF Fifo!Next
  <2>4. CASE Grow
    BY <2>4, GrowRefines DEF Fifo!Next
  <2>5. CASE UNCHANGED vars
    BY <2>5 DEF vars, Fifo!vars, Q, At, Mask, Size
  <2> QED
    BY <2>1, <2>2, <2>3, <2>4, <2>5 DEF GrowNext, Common
<1> QED
  BY <1>1, <1>2, InitInv, StepInv, PTL DEF GrowSpec, FifoSpec, Fifo!Spec
=============================================================================
