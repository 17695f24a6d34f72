--------------------------- MODULE MsgqRingProofs ---------------------------
(***************************************************************************)
(* Proofs about the messages of a message queue, for any readers, writers, *)
(* sizes and number of messages: what is in the ring, that each message is *)
(* at one place, and that the queue is a channel.  nni_msgq_resize breaks  *)
(* all of it when it has messages to drop (its loop wraps one cell too     *)
(* late), so the theorems are about the behaviours in which it has none:   *)
(* Fits, which a queue that only grows satisfies.                          *)
(***************************************************************************)
EXTENDS MsgqProofs

-----------------------------------------------------------------------------
(* The ring.                                                               *)

\* An index that went past the end of a ring of a cells, or before its
\* beginning, by less than a turn.
LEMMA Wrap ==
    ASSUME NEW a \in Nat \ {0}, NEW x \in Int, -a < x, x < 2 * a
    PROVE  x % a = IF x < 0 THEN x + a ELSE IF x < a THEN x ELSE x - a
<1>1. CASE x < 0
  BY <1>1
<1>2. CASE x >= 0 /\ x < a
  BY <1>2
<1>3. CASE x >= a
  BY <1>3
<1> QED
  BY <1>1, <1>2, <1>3

\* The cell k places after cell i of a ring of a cells.
After(a, i, k) == IF i + k < a THEN i + k ELSE i + k - a

\* What the ring holds to: there is a free cell at least, and the end of the
\* messages is as far from their beginning as there are messages.
Ring ==
    /\ mq_cap \in Nat /\ mq_alloc \in Nat /\ mq_len \in Nat
    /\ mq_len <= mq_cap + 1 /\ mq_cap + 2 <= mq_alloc
    /\ mq_get \in 0..(mq_alloc - 1)
    /\ mq_put = After(mq_alloc, mq_get, mq_len)
    /\ mq_msgs \in [0..(mq_alloc - 1) -> Msg \union {NoMsg}]

\* The messages of a ring of a cells c, n of them from cell g on.
Held(n, a, g, c) == [k \in 1..n |-> c[After(a, g, k - 1)]]

LEMMA AfterFacts ==
    ASSUME NEW a \in Nat \ {0}, NEW i \in 0..(a - 1), NEW k \in 0..a
    PROVE  After(a, i, k) \in 0..(a - 1) /\ (i + k) % a = After(a, i, k)
<1>1. PICK x \in Int : x = i + k
  OBVIOUS
<1>2. -a < x /\ x < 2 * a /\ ~(x < 0)
  BY <1>1
<1>3. x % a = IF x < a THEN x ELSE x - a
  BY <1>2, Wrap
<1> QED
  BY <1>1, <1>2, <1>3 DEF After

LEMMA ForwardIs ==
    Ring => \A i \in 0..(mq_alloc - 1), k \in 0..mq_alloc : Forward(i, k) = After(mq_alloc, i, k)
<1> SUFFICES ASSUME Ring, NEW i \in 0..(mq_alloc - 1), NEW k \in 0..mq_alloc
             PROVE  Forward(i, k) = After(mq_alloc, i, k)
  OBVIOUS
<1>1. mq_alloc \in Nat \ {0} /\ i < mq_alloc
  BY DEF Ring
<1> QED
  BY <1>1, AfterFacts DEF Forward

BufferHeld == Buffer = Held(mq_len, mq_alloc, mq_get, mq_msgs)

LEMMA BufferIs == Ring => BufferHeld
<1> SUFFICES ASSUME Ring PROVE Buffer = Held(mq_len, mq_alloc, mq_get, mq_msgs)
  BY DEF BufferHeld
<1>1. ASSUME NEW k \in 1..mq_len
      PROVE  Cell(Forward(mq_get, k - 1)) = mq_msgs[After(mq_alloc, mq_get, k - 1)]
  <2>1. mq_alloc \in Nat \ {0} /\ k - 1 \in 0..mq_alloc /\ mq_get \in 0..(mq_alloc - 1)
    BY DEF Ring
  <2>2. Forward(mq_get, k - 1) = After(mq_alloc, mq_get, k - 1)
    BY <2>1, ForwardIs
  <2>3. After(mq_alloc, mq_get, k - 1) \in 0..(mq_alloc - 1)
    BY <2>1, AfterFacts
  <2>4. After(mq_alloc, mq_get, k - 1) < mq_alloc
    BY <2>1, <2>3
  <2> QED
    BY <2>2, <2>4 DEF Cell
<1> QED
  BY <1>1 DEF Buffer, Held

Cells == Msg \union {NoMsg}

LEMMA HeldFacts ==
    ASSUME NEW n \in Nat, NEW a \in Nat \ {0}, n <= a, NEW g \in 0..(a - 1),
           NEW c \in [0..(a - 1) -> Cells]
    PROVE  /\ Held(n, a, g, c) \in Seq(Cells) /\ Len(Held(n, a, g, c)) = n
           /\ \A k \in 1..n : Held(n, a, g, c)[k] = c[After(a, g, k - 1)]
<1>1. ASSUME NEW k \in 1..n PROVE c[After(a, g, k - 1)] \in Cells
  <2>1. k - 1 \in 0..a
    OBVIOUS
  <2> QED
    BY <2>1, AfterFacts
<1>2. Held(n, a, g, c) \in [1..n -> Cells]
  BY <1>1 DEF Held
<1>3. Held(n, a, g, c) \in Seq(Cells)
  BY <1>2
<1>4. Len(Held(n, a, g, c)) = n
  BY <1>2, <1>3
<1> QED
  BY <1>3, <1>4 DEF Held

LEMMA HeldLen ==
    ASSUME NEW n \in Nat, NEW a \in Nat \ {0}, n <= a, NEW g \in 0..(a - 1),
           NEW c \in [0..(a - 1) -> Cells]
    PROVE  Len(Held(n, a, g, c)) = n
<1>1. PICK s : s = Held(n, a, g, c)
  OBVIOUS
<1>2. s \in Seq(Cells) /\ Len(s) = n
  BY <1>1, HeldFacts
<1> QED
  BY <1>1, <1>2

\* The same of a later state.
LEMMA BufferNext == Ring' => BufferHeld'
BY BufferIs, PTL

\* Going on from a cell, and the way from one cell to another.
LEMMA AfterAdd ==
    ASSUME NEW a \in Nat \ {0}, NEW i \in 0..(a - 1), NEW j \in Nat, NEW k \in Nat, j + k <= a
    PROVE  After(a, After(a, i, j), k) = After(a, i, j + k)
<1>1. CASE i + j < a
  <2>1. After(a, i, j) = i + j
    BY <1>1 DEF After
  <2>2. (i + j) + k = i + (j + k)
    OBVIOUS
  <2> QED
    BY <2>1, <2>2 DEF After
<1>2. CASE ~(i + j < a)
  <2>1. After(a, i, j) = i + j - a
    BY <1>2 DEF After
  <2>2. (i + j - a) + k < a /\ ~(i + (j + k) < a) /\ (i + j - a) + k = i + (j + k) - a
    BY <1>2
  <2> QED
    BY <2>1, <2>2 DEF After
<1> QED
  BY <1>1, <1>2

LEMMA Distance ==
    ASSUME NEW a \in Nat \ {0}, NEW i \in 0..(a - 1), NEW j \in 0..(a - 1), NEW k \in 0..(a - 1)
    PROVE  (After(a, i, j) - After(a, i, k)) % a = IF j >= k THEN j - k ELSE j - k + a
<1>1. PICK x \in Int, y \in Int : x = After(a, i, j) /\ y = After(a, i, k)
  BY AfterFacts
<1>2. x \in 0..(a - 1) /\ y \in 0..(a - 1)
  BY <1>1, AfterFacts
<1>3. x = IF i + j < a THEN i + j ELSE i + j - a
  BY <1>1 DEF After
<1>4. y = IF i + k < a THEN i + k ELSE i + k - a
  BY <1>1 DEF After
<1>5. PICK z \in Int : z = x - y
  OBVIOUS
<1>6. -a < z /\ z < 2 * a /\ z < a
  BY <1>2, <1>5
<1>7. z % a = IF z < 0 THEN z + a ELSE z
  BY <1>6, Wrap
<1>8. (z = j - k \/ z = j - k + a \/ z = j - k - a)
  BY <1>3, <1>4, <1>5
<1>9. z % a = IF j >= k THEN j - k ELSE j - k + a
  BY <1>6, <1>7, <1>8
<1> QED
  BY <1>1, <1>5, <1>9

\* The cells after s is stored from cell p on.
Filled(c, a, p, s) ==
    [i \in 0..(a - 1) |-> LET k == (i - p) % a IN IF k < Len(s) THEN s[k + 1] ELSE c[i]]

\* u is s and then t.
Joined(s, t, u) == u = s \o t

LEMMA StoreCells ==
    ASSUME NEW n \in Nat, NEW a \in Nat \ {0}, NEW g \in 0..(a - 1),
           NEW c \in [0..(a - 1) -> Cells], NEW s \in Seq(Cells), n + Len(s) < a
    PROVE  /\ Joined(Held(n, a, g, c), s, Held(n + Len(s), a, g, Filled(c, a, After(a, g, n), s)))
           /\ Filled(c, a, After(a, g, n), s) \in [0..(a - 1) -> Cells]
           /\ After(a, After(a, g, n), Len(s)) = After(a, g, n + Len(s))
<1>a. PICK p : p = After(a, g, n)
  OBVIOUS
<1>b. PICK d : d = Filled(c, a, p, s)
  OBVIOUS
<1>0. Len(s) \in Nat /\ n \in 0..(a - 1) /\ n <= a /\ n + Len(s) \in Nat /\ n + Len(s) <= a
  OBVIOUS
<1>1. p \in 0..(a - 1)
  BY <1>a, <1>0, AfterFacts
<1>2. ASSUME NEW i \in 0..(a - 1)
      PROVE  /\ (i - p) % a \in Nat
             /\ d[i] = IF (i - p) % a < Len(s) THEN s[((i - p) % a) + 1] ELSE c[i]
  <2>1. d[i] = LET k == (i - p) % a IN IF k < Len(s) THEN s[k + 1] ELSE c[i]
    BY <1>b DEF Filled
  <2>2. (i - p) % a \in Nat
    <3>0. \A x \in 0..(a - 1), y \in 0..(a - 1) :
            x - y \in Int /\ -a < x - y /\ x - y < 2 * a /\ x - y < a
      OBVIOUS
    <3>1. PICK z \in Int : z = i - p
      BY <1>1, <3>0
    <3>2. -a < z /\ z < 2 * a /\ z < a
      BY <1>1, <3>0, <3>1
    <3>3. z % a = IF z < 0 THEN z + a ELSE z
      BY <3>2, Wrap
    <3> QED
      BY <3>1, <3>2, <3>3
  <2> QED
    BY <2>1, <2>2
<1>3. d \in [0..(a - 1) -> Cells]
  <2>1. ASSUME NEW i \in 0..(a - 1) PROVE d[i] \in Cells
    <3>1. PICK k \in Nat : k = (i - p) % a
      BY <1>2
    <3>2. d[i] = IF k < Len(s) THEN s[k + 1] ELSE c[i]
      BY <1>2, <3>1
    <3> QED
      BY <1>0, <3>2
  <2> QED
    BY <1>b, <2>1 DEF Filled
<1> DEFINE old == Held(n, a, g, c)
           new == Held(n + Len(s), a, g, d)
<1>4. /\ old \in Seq(Cells) /\ Len(old) = n
      /\ \A k \in 1..n : old[k] = c[After(a, g, k - 1)]
  BY <1>0, HeldFacts
<1>5. /\ new \in Seq(Cells) /\ Len(new) = n + Len(s)
      /\ \A k \in 1..(n + Len(s)) : new[k] = d[After(a, g, k - 1)]
  <2>1. PICK l \in Nat : l = n + Len(s) /\ l <= a
    BY <1>0
  <2>2. /\ Held(l, a, g, d) \in Seq(Cells) /\ Len(Held(l, a, g, d)) = l
        /\ \A k \in 1..l : Held(l, a, g, d)[k] = d[After(a, g, k - 1)]
    BY <1>3, <2>1, HeldFacts
  <2> QED
    BY <2>1, <2>2
<1> HIDE DEF old, new
<1>6. /\ old \o s \in Seq(Cells) /\ Len(old \o s) = n + Len(s)
      /\ \A k \in 1..(n + Len(s)) : (old \o s)[k] = IF k <= n THEN old[k] ELSE s[k - n]
  BY <1>4, ConcatProperties
<1>7. ASSUME NEW k \in 1..(n + Len(s)) PROVE new[k] = (old \o s)[k]
  <2>0. k - 1 \in 0..(a - 1) /\ k - 1 \in 0..a
    BY <1>0
  <2>1. PICK i \in 0..(a - 1) : i = After(a, g, k - 1)
    BY <2>0, AfterFacts
  <2>2. PICK x : x = (i - p) % a
    OBVIOUS
  <2>3. x = IF k - 1 >= n THEN k - 1 - n ELSE k - 1 - n + a
    BY <1>a, <1>0, <2>0, <2>1, <2>2, Distance
  <2>4. new[k] = IF x < Len(s) THEN s[x + 1] ELSE c[i]
    BY <1>2, <1>5, <2>1, <2>2
  <2>5. CASE k <= n
    <3>1. ~(x < Len(s))
      BY <1>0, <2>3, <2>5
    <3>2. new[k] = c[i] /\ old[k] = c[i] /\ (old \o s)[k] = old[k]
      BY <1>4, <1>6, <2>1, <2>4, <2>5, <3>1
    <3> QED
      BY <3>2
  <2>6. CASE ~(k <= n)
    <3>1. x < Len(s) /\ x + 1 = k - n
      BY <1>0, <2>3, <2>6
    <3> QED
      BY <1>6, <2>4, <2>6, <3>1
  <2> QED
    BY <2>5, <2>6
<1>8. new = old \o s
  BY <1>5, <1>6, <1>7, SeqEqual
<1>9. After(a, p, Len(s)) = After(a, g, n + Len(s))
  BY <1>a, <1>0, AfterAdd
<1> QED
  BY <1>a, <1>b, <1>3, <1>8, <1>9 DEF old, new, Joined

LEMMA FetchCells ==
    ASSUME NEW n \in Nat, NEW a \in Nat \ {0}, n < a, NEW g \in 0..(a - 1),
           NEW c \in [0..(a - 1) -> Cells], NEW m \in Nat, m <= n,
           NEW h \in 0..(a - 1), h = After(a, g, m), NEW l \in Nat, l = n - m
    PROVE  Held(l, a, h, c) = From(Held(n, a, g, c), m)
<1>0. m \in 0..a /\ n - m \in Nat /\ n - m <= a /\ n <= a /\ m + (n - m) = n
  OBVIOUS
<1> DEFINE f(k, i) == Held(k, a, i, c)
<1>b. \A k \in Nat, i \in 0..(a - 1) :
        k <= a => /\ f(k, i) \in Seq(Cells) /\ Len(f(k, i)) = k
                  /\ \A j \in 1..k : f(k, i)[j] = c[After(a, i, j - 1)]
  <2> SUFFICES ASSUME NEW k \in Nat, NEW i \in 0..(a - 1), k <= a
               PROVE  /\ f(k, i) \in Seq(Cells) /\ Len(f(k, i)) = k
                      /\ \A j \in 1..k : f(k, i)[j] = c[After(a, i, j - 1)]
    OBVIOUS
  <2>1. f(k, i) \in Seq(Cells)
    BY HeldFacts
  <2>2. Len(f(k, i)) = k
    BY HeldLen
  <2>3. \A j \in 1..k : f(k, i)[j] = c[After(a, i, j - 1)]
    BY DEF Held
  <2> QED
    BY <2>1, <2>2, <2>3
<1> HIDE DEF f
<1> DEFINE old == f(n, g)
           new == f(n - m, h)
<1>2. /\ old \in Seq(Cells) /\ Len(old) = n
      /\ \A k \in 1..n : old[k] = c[After(a, g, k - 1)]
  BY <1>0, <1>b
<1>3. /\ new \in Seq(Cells) /\ Len(new) = n - m
      /\ \A k \in 1..(n - m) : new[k] = c[After(a, h, k - 1)]
  BY <1>0, <1>b
<1> HIDE DEF old, new, f
<1>4. /\ From(old, m) \in Seq(Cells) /\ Len(From(old, m)) = n - m
      /\ \A k \in 1..(n - m) : From(old, m)[k] = old[m + k]
  BY <1>2 DEF From
<1>5. ASSUME NEW k \in 1..(n - m) PROVE new[k] = From(old, m)[k]
  <2>1. k - 1 \in Nat /\ m + (k - 1) <= a /\ m + (k - 1) = (m + k) - 1 /\ m + k \in 1..n
    BY <1>0
  <2>2. After(a, h, k - 1) = After(a, g, m + (k - 1))
    BY <1>0, <2>1, AfterAdd
  <2>3. new[k] = c[After(a, h, k - 1)] /\ From(old, m)[k] = old[m + k]
    BY <1>3, <1>4
  <2>4. old[m + k] = c[After(a, g, (m + k) - 1)]
    BY <1>2, <2>1
  <2>5. After(a, h, k - 1) = After(a, g, (m + k) - 1)
    BY <2>1, <2>2
  <2> QED
    BY <2>3, <2>4, <2>5
<1>6. new = From(old, m)
  BY <1>3, <1>4, <1>5, SeqEqual
<1> QED
  BY <1>6 DEF old, new, f

LEMMA RingFacts ==
    ASSUME Ring
    PROVE  /\ mq_alloc \in Nat \ {0} /\ mq_len \in Nat /\ mq_len < mq_alloc
           /\ mq_get \in 0..(mq_alloc - 1) /\ mq_put \in 0..(mq_alloc - 1)
           /\ mq_len \in 0..mq_alloc
           /\ Buffer \in Seq(Cells) /\ Len(Buffer) = mq_len
<1>1. /\ mq_alloc \in Nat \ {0} /\ mq_len \in Nat /\ mq_len < mq_alloc /\ mq_len <= mq_alloc
      /\ mq_get \in 0..(mq_alloc - 1) /\ mq_len \in 0..mq_alloc
      /\ mq_msgs \in [0..(mq_alloc - 1) -> Cells]
  BY DEF Ring, Cells
<1>2. mq_put \in 0..(mq_alloc - 1)
  BY <1>1, AfterFacts DEF Ring
<1>3. Buffer = Held(mq_len, mq_alloc, mq_get, mq_msgs)
  BY BufferIs DEF BufferHeld
<1>4. Held(mq_len, mq_alloc, mq_get, mq_msgs) \in Seq(Cells)
  BY <1>1, HeldFacts
<1>5. Len(Held(mq_len, mq_alloc, mq_get, mq_msgs)) = mq_len
  BY <1>1, HeldLen
<1> QED
  BY <1>1, <1>2, <1>3, <1>4, <1>5

\* Messages are added at the end of the buffer ...
LEMMA StoreRing ==
    ASSUME Ring, NEW s \in Seq(Cells), mq_len + Len(s) <= mq_cap + 1, Store(s)
    PROVE  Ring' /\ Buffer' = Buffer \o s
<1>1. PICK n, a, g, c, p : n = mq_len /\ a = mq_alloc /\ g = mq_get /\ c = mq_msgs /\ p = mq_put
  OBVIOUS
<1>2. /\ mq_cap \in Nat /\ Len(s) \in Nat /\ n \in Nat /\ a \in Nat \ {0} /\ g \in 0..(a - 1)
      /\ c \in [0..(a - 1) -> Cells] /\ p = After(a, g, n) /\ p \in 0..(a - 1)
      /\ n + Len(s) < a /\ mq_cap + 2 <= a /\ Len(s) \in 0..a
  BY <1>1, RingFacts DEF Ring, Cells
<1>3. PICK d : d = Filled(c, a, p, s)
  OBVIOUS
<1>4. d \in [0..(a - 1) -> Cells]
  <2>1. Filled(c, a, After(a, g, n), s) \in [0..(a - 1) -> Cells]
    BY <1>2, StoreCells
  <2> QED
    BY <1>2, <1>3, <2>1
<1>5. Held(n + Len(s), a, g, d) = Held(n, a, g, c) \o s
  <2>1. Joined(Held(n, a, g, c), s, Held(n + Len(s), a, g, Filled(c, a, After(a, g, n), s)))
    BY <1>2, StoreCells
  <2> QED
    BY <1>2, <1>3, <2>1 DEF Joined
<1>6. After(a, p, Len(s)) = After(a, g, n + Len(s))
  <2>1. After(a, After(a, g, n), Len(s)) = After(a, g, n + Len(s))
    BY <1>2, StoreCells
  <2> QED
    BY <1>2, <2>1
<1>7. Forward(p, Len(s)) = After(a, p, Len(s))
  BY <1>1, <1>2, ForwardIs
<1>8. /\ mq_msgs' = d /\ mq_put' = Forward(p, Len(s)) /\ mq_len' = n + Len(s)
      /\ mq_cap' = mq_cap /\ mq_alloc' = a /\ mq_get' = g
  BY <1>1, <1>3 DEF Store, Filled
<1>9. Ring'
  <2>1. mq_put' = After(mq_alloc', mq_get', mq_len')
    BY <1>6, <1>7, <1>8
  <2>2. mq_len' \in Nat /\ mq_len' <= mq_cap' + 1
    BY <1>1, <1>2, <1>8
  <2> QED
    BY <1>2, <1>4, <1>8, <2>1, <2>2 DEF Ring, Cells
<1>10. Buffer' = Held(n + Len(s), a, g, d) /\ Buffer = Held(n, a, g, c)
  BY <1>1, <1>8, <1>9, BufferIs, BufferNext DEF BufferHeld
<1> QED
  BY <1>5, <1>9, <1>10

\* ... and taken from its beginning.
LEMMA FetchRing ==
    ASSUME Ring, NEW m \in Nat, m <= mq_len, Fetch(m)
    PROVE  Ring' /\ Buffer' = From(Buffer, m)
<1>1. PICK n, a, g, c, h : n = mq_len /\ a = mq_alloc /\ g = mq_get /\ c = mq_msgs
                           /\ h = After(a, g, m)
  OBVIOUS
<1>2. /\ mq_cap \in Nat /\ n \in Nat /\ a \in Nat \ {0} /\ g \in 0..(a - 1)
      /\ c \in [0..(a - 1) -> Cells] /\ mq_put = After(a, g, n)
      /\ n < a /\ mq_cap + 2 <= a /\ m <= n /\ m \in 0..a /\ n <= mq_cap + 1
  BY <1>1, RingFacts DEF Ring, Cells
<1>3. h \in 0..(a - 1)
  BY <1>1, <1>2, AfterFacts
<1>4. After(a, h, n - m) = After(a, g, n)
  <2>1. After(a, After(a, g, m), n - m) = After(a, g, n)
    <3>1. n - m \in Nat /\ m + (n - m) = n /\ m + (n - m) <= a
      BY <1>2
    <3> QED
      BY <1>2, <3>1, AfterAdd
  <2> QED
    BY <1>1, <2>1
<1>5. Held(n - m, a, h, c) = From(Held(n, a, g, c), m)
  <2>1. h = After(a, g, m)
    BY <1>1
  <2>2. PICK l \in Nat : l = n - m
    BY <1>2
  <2>3. Held(l, a, h, c) = From(Held(n, a, g, c), m)
    BY <1>2, <1>3, <2>1, <2>2, FetchCells
  <2> QED
    BY <2>2, <2>3
<1>6. Forward(g, m) = h
  BY <1>1, <1>2, ForwardIs
<1>7. /\ mq_get' = h /\ mq_len' = n - m /\ mq_cap' = mq_cap /\ mq_alloc' = a
      /\ mq_put' = mq_put /\ mq_msgs' = c
  BY <1>1, <1>6 DEF Fetch
<1>8. Ring'
  <2>1. mq_len' \in Nat /\ mq_len' <= mq_cap' + 1
    BY <1>2, <1>7
  <2> QED
    BY <1>2, <1>3, <1>4, <1>7, <2>1 DEF Ring, Cells
<1>9. Buffer' = Held(n - m, a, h, c) /\ Buffer = Held(n, a, g, c)
  BY <1>1, <1>7, <1>8, BufferIs, BufferNext DEF BufferHeld
<1> QED
  BY <1>5, <1>8, <1>9

\* A resize that has room for all messages moves them and drops none.
LEMMA ResizeRing ==
    ASSUME Ring, NEW cap \in Nat, mq_len <= cap + 1, nni_msgq_resize(cap)
    PROVE  Ring' /\ Buffer' = Buffer /\ freed' = freed /\ mq_len' = mq_len
<1>0. /\ mq_alloc \in Nat \ {0} /\ mq_len \in Nat /\ mq_len < mq_alloc
      /\ mq_get \in 0..(mq_alloc - 1) /\ Buffer \in Seq(Cells) /\ Len(Buffer) = mq_len
      /\ NoMsg \in Cells
  BY RingFacts DEF Cells
<1>1. Max({0, mq_len - (cap + 1)}) = 0
  BY <1>0, Dropped
<1>2. Overrun(mq_get + 0) = mq_get
  <2>1. PICK g \in Int, a \in Nat \ {0} : g = mq_get + 0 /\ a = mq_alloc + 1 /\ g = mq_get
    BY <1>0
  <2>2. -a < g /\ g < 2 * a /\ ~(g < 0) /\ g < a
    BY <1>0, <2>1
  <2>3. g % a = g
    BY <2>2, Wrap
  <2> QED
    BY <2>1, <2>3 DEF Overrun
<1>3. [k \in 1..(mq_len - 0) |-> Cell(Forward(mq_get, k - 1))] = Buffer
  BY <1>0 DEF Buffer
<1>4. /\ mq_cap' = cap /\ mq_len' = mq_len - 0
      /\ freed' = freed \union {Cell(Overrun(mq_get + k)) : k \in 0..(0 - 1)}
      /\ IF cap + 2 > mq_alloc
         THEN /\ mq_alloc' = cap + 2
              /\ mq_msgs' = [i \in 0..(cap + 1) |-> IF i < Len(Buffer) THEN Buffer[i + 1]
                                                                       ELSE NoMsg]
              /\ mq_get' = 0
              /\ mq_put' = Len(Buffer) % (cap + 2)
         ELSE mq_get' = mq_get /\ UNCHANGED <<mq_alloc, mq_msgs, mq_put>>
  BY <1>1, <1>2, <1>3 DEF nni_msgq_resize
<1>5. freed' = freed /\ mq_len' = mq_len /\ mq_cap' = cap
  BY <1>0, <1>4
<1>6. CASE ~(cap + 2 > mq_alloc)
  <2>1. UNCHANGED <<mq_alloc, mq_msgs, mq_put, mq_get>>
    BY <1>4, <1>6
  <2>2. Ring'
    BY <1>0, <1>5, <1>6, <2>1 DEF Ring
  <2> QED
    BY <1>5, <2>1, <2>2, BufferIs, BufferNext DEF BufferHeld
<1>7. CASE cap + 2 > mq_alloc
  <2>1. PICK n, a, b, d : n = mq_len /\ a = cap + 2 /\ b = Buffer
                          /\ d = [i \in 0..(a - 1) |-> IF i < n THEN b[i + 1] ELSE NoMsg]
    OBVIOUS
  <2>2. /\ n \in Nat /\ a \in Nat \ {0} /\ n < a /\ n <= a /\ b \in Seq(Cells) /\ Len(b) = n
        /\ 0 \in 0..(a - 1) /\ a - 1 = cap + 1 /\ n \in 0..a
    BY <1>0, <2>1
  <2>3. /\ mq_alloc' = a /\ mq_msgs' = d /\ mq_get' = 0 /\ mq_put' = n % a
    BY <1>0, <1>4, <1>7, <2>1, <2>2
  <2>4. d \in [0..(a - 1) -> Cells]
    BY <1>0, <2>1, <2>2
  <2>5. n % a = After(a, 0, n)
    <3>1. (0 + n) % a = After(a, 0, n)
      BY <2>2, AfterFacts
    <3>2. 0 + n = n
      BY <2>2
    <3> QED
      BY <3>1, <3>2
  <2>6. Ring'
    BY <1>0, <1>5, <2>1, <2>2, <2>3, <2>4, <2>5 DEF Ring, Cells
  <2>7. Buffer' = Held(n, a, 0, d)
    BY <1>5, <2>1, <2>3, <2>6, BufferNext DEF BufferHeld
  <2>8. Held(n, a, 0, d) = b
    <3>1. Held(n, a, 0, d) \in Seq(Cells)
      BY <2>2, <2>4, HeldFacts
    <3>2. Len(Held(n, a, 0, d)) = n
      BY <2>2, <2>4, HeldFacts
    <3>3. ASSUME NEW k \in 1..n PROVE Held(n, a, 0, d)[k] = b[k]
      <4>1. Held(n, a, 0, d)[k] = d[After(a, 0, k - 1)]
        BY DEF Held
      <4>2. After(a, 0, k - 1) = k - 1 /\ k - 1 \in 0..(a - 1) /\ k - 1 < n /\ (k - 1) + 1 = k
        BY <2>2 DEF After
      <4> QED
        BY <2>1, <4>1, <4>2
    <3> QED
      BY <2>2, <3>1, <3>2, <3>3, SeqEqual
  <2> QED
    BY <1>5, <2>1, <2>6, <2>7, <2>8
<1> QED
  BY <1>6, <1>7

-----------------------------------------------------------------------------
(* The account of the messages.                                            *)

\* Where the messages 1..n are: on their way w, received g, handed back r or
\* freed f, each at one place and once.
Account(w, g, r, f, n) ==
    /\ IsInjective(w) /\ IsInjective(g) /\ Range(w) \intersect Range(g) = {}
    /\ (Range(w) \union Range(g)) \intersect (r \union f) = {} /\ r \intersect f = {}
    /\ Range(w) \union Range(g) \union r \union f = 1..n

\* A message is added to an account ...
LEMMA AccountNew ==
    ASSUME NEW n \in Nat, NEW S, NEW w \in Seq(S), NEW g \in Seq(S), NEW r, NEW f,
           n + 1 \in S, Account(w, g, r, f, n)
    PROVE  /\ Account(Append(w, n + 1), g, r, f, n + 1)
           /\ Account(w, Append(g, n + 1), r, f, n + 1)
           /\ Account(w, g, r \union {n + 1}, f, n + 1)
<1>1. /\ n + 1 \notin Range(w) /\ n + 1 \notin Range(g) /\ n + 1 \notin r /\ n + 1 \notin f
  <2>1. n + 1 \notin 1..n
    OBVIOUS
  <2> QED
    BY <2>1 DEF Account
<1>2. 1..(n + 1) = (1..n) \union {n + 1}
  OBVIOUS
<1>3. /\ IsInjective(Append(w, n + 1)) /\ Range(Append(w, n + 1)) = Range(w) \union {n + 1}
  BY <1>1, AppendFacts DEF Account
<1>4. /\ IsInjective(Append(g, n + 1)) /\ Range(Append(g, n + 1)) = Range(g) \union {n + 1}
  BY <1>1, AppendFacts DEF Account
<1> QED
  BY <1>1, <1>2, <1>3, <1>4 DEF Account

\* ... moves from one place to the next ...
LEMMA AccountGet ==
    ASSUME NEW n \in Nat, NEW S, NEW w \in Seq(S), NEW g \in Seq(S), NEW r, NEW f,
           w # <<>>, Account(w, g, r, f, n)
    PROVE  Account(Tail(w), Append(g, Head(w)), r, f, n)
<1>1. /\ Head(w) \in S /\ Tail(w) \in Seq(S) /\ Len(w) \in Nat /\ Len(w) >= 1
      /\ Head(w) = w[1] /\ DOMAIN w = 1..Len(w) /\ DOMAIN Tail(w) = 1..(Len(w) - 1)
      /\ \A k \in 1..(Len(w) - 1) : Tail(w)[k] = w[k + 1]
  OBVIOUS
<1>2. IsInjective(Tail(w))
  <2> SUFFICES ASSUME NEW i \in 1..(Len(w) - 1), NEW j \in 1..(Len(w) - 1),
                      Tail(w)[i] = Tail(w)[j]
               PROVE  i = j
    BY <1>1 DEF IsInjective
  <2>1. i + 1 \in 1..Len(w) /\ j + 1 \in 1..Len(w) /\ w[i + 1] = w[j + 1]
    BY <1>1
  <2>2. i + 1 = j + 1
    BY <1>1, <2>1 DEF Account, IsInjective
  <2> QED
    BY <2>2
<1>3. Range(w) = Range(Tail(w)) \union {Head(w)}
  <2>1. Range(Tail(w)) \subseteq Range(w) /\ Head(w) \in Range(w)
    BY <1>1 DEF Range
  <2>2. ASSUME NEW k \in 1..Len(w) PROVE w[k] \in Range(Tail(w)) \union {Head(w)}
    <3>1. CASE k = 1
      BY <1>1, <3>1
    <3>2. CASE k # 1
      <4>1. k - 1 \in 1..(Len(w) - 1) /\ (k - 1) + 1 = k
        BY <1>1, <3>2
      <4> QED
        BY <1>1, <4>1, ZenonT(60) DEF Range
    <3> QED
      BY <3>1, <3>2
  <2> QED
    BY <1>1, <2>1, <2>2 DEF Range
<1>4. Head(w) \notin Range(Tail(w))
  <2> SUFFICES ASSUME NEW k \in 1..(Len(w) - 1), Tail(w)[k] = Head(w) PROVE FALSE
    BY <1>1 DEF Range
  <2>1. k + 1 \in 1..Len(w) /\ 1 \in 1..Len(w) /\ k + 1 # 1 /\ w[k + 1] = w[1]
    BY <1>1
  <2> QED
    BY <1>1, <2>1 DEF Account, IsInjective
<1>5. Head(w) \notin Range(g)
  BY <1>3 DEF Account
<1>6. IsInjective(Append(g, Head(w))) /\ Range(Append(g, Head(w))) = Range(g) \union {Head(w)}
  BY <1>1, <1>5, AppendFacts DEF Account
<1> QED
  BY <1>2, <1>3, <1>4, <1>6 DEF Account

\* ... and leaves.
LEMMA AccountDrop ==
    ASSUME NEW n, NEW w, NEW v, NEW g, NEW r, NEW f, NEW a, NEW b, Account(w, g, r, f, n),
           IsInjective(v), Range(v) \subseteq Range(w), a \intersect b = {},
           Range(w) \ Range(v) = a \union b
    PROVE  Account(v, g, r \union a, f \union b, n)
BY DEF Account

\* An account of sequences is one of their concatenation.
LEMMA AccountAll ==
    ASSUME NEW S, NEW w \in Seq(S), NEW g \in Seq(S), NEW r, NEW f, NEW n, Account(w, g, r, f, n)
    PROVE  IsInjective(w \o g) /\ Range(w \o g) = Range(w) \union Range(g)
<1>1. /\ w \o g \in Seq(S) /\ Len(w \o g) = Len(w) + Len(g) /\ Len(w) \in Nat /\ Len(g) \in Nat
      /\ DOMAIN (w \o g) = 1..(Len(w) + Len(g)) /\ DOMAIN w = 1..Len(w) /\ DOMAIN g = 1..Len(g)
      /\ \A k \in 1..(Len(w) + Len(g)) : (w \o g)[k] = IF k <= Len(w) THEN w[k] ELSE g[k - Len(w)]
  BY ConcatProperties
<1>2. PICK t : t = w \o g
  OBVIOUS
<1>3. ASSUME NEW k \in 1..(Len(w) + Len(g))
      PROVE  \/ k \in 1..Len(w) /\ t[k] = w[k]
             \/ k > Len(w) /\ k - Len(w) \in 1..Len(g) /\ t[k] = g[k - Len(w)]
  BY <1>1, <1>2
<1>4. DOMAIN t = 1..(Len(w) + Len(g))
  BY <1>1, <1>2
<1>5. IsInjective(t)
  <2> SUFFICES ASSUME NEW i \in 1..(Len(w) + Len(g)), NEW j \in 1..(Len(w) + Len(g)), t[i] = t[j]
               PROVE  i = j
    BY <1>4 DEF IsInjective
  <2>1. CASE i <= Len(w) /\ j <= Len(w)
    <3>1. i \in 1..Len(w) /\ j \in 1..Len(w) /\ w[i] = w[j]
      BY <1>1, <1>3, <2>1
    <3> QED
      BY <1>1, <3>1 DEF Account, IsInjective
  <2>2. CASE i > Len(w) /\ j > Len(w)
    <3>1. i - Len(w) \in 1..Len(g) /\ j - Len(w) \in 1..Len(g) /\ g[i - Len(w)] = g[j - Len(w)]
      BY <1>1, <1>3, <2>2
    <3>2. i - Len(w) = j - Len(w)
      BY <1>1, <3>1 DEF Account, IsInjective
    <3> QED
      BY <1>1, <3>2
  <2>3. ASSUME NEW k \in 1..(Len(w) + Len(g)), k <= Len(w) PROVE t[k] \in Range(w)
    <3>1. k \in 1..Len(w) /\ t[k] = w[k]
      BY <1>1, <1>3, <2>3
    <3> QED
      BY <1>1, <3>1 DEF Range
  <2>4. ASSUME NEW k \in 1..(Len(w) + Len(g)), k > Len(w) PROVE t[k] \in Range(g)
    <3>1. k - Len(w) \in 1..Len(g) /\ t[k] = g[k - Len(w)]
      BY <1>1, <1>3, <2>4
    <3>2. PICK l \in 1..Len(g) : t[k] = g[l]
      BY <3>1
    <3> QED
      BY <1>1, <3>2 DEF Range
  <2>5. CASE i <= Len(w) /\ j > Len(w)
    BY <2>3, <2>4, <2>5 DEF Account
  <2>6. CASE i > Len(w) /\ j <= Len(w)
    BY <2>3, <2>4, <2>6 DEF Account
  <2> QED
    BY <1>1, <2>1, <2>2, <2>5, <2>6
<1>6. Range(t) \subseteq Range(w) \union Range(g)
  <2> SUFFICES ASSUME NEW k \in 1..(Len(w) + Len(g)) PROVE t[k] \in Range(w) \union Range(g)
    BY <1>4 DEF Range
  <2> QED
    BY <1>1, <1>3 DEF Range
<1>7. ASSUME NEW k \in 1..Len(w) PROVE w[k] \in Range(t)
  <2>1. k \in 1..(Len(w) + Len(g)) /\ k <= Len(w)
    BY <1>1
  <2>2. t[k] = w[k]
    BY <1>1, <1>2, <2>1
  <2> QED
    BY <1>4, <2>1, <2>2 DEF Range
<1>8. ASSUME NEW k \in 1..Len(g) PROVE g[k] \in Range(t)
  <2>1. /\ Len(w) + k \in 1..(Len(w) + Len(g)) /\ ~(Len(w) + k <= Len(w))
        /\ (Len(w) + k) - Len(w) = k
    BY <1>1
  <2>2. t[Len(w) + k] = g[k]
    BY <1>1, <1>2, <2>1
  <2> QED
    BY <1>4, <2>1, <2>2 DEF Range
<1>9. Range(w) \subseteq Range(t) /\ Range(g) \subseteq Range(t)
  BY <1>1, <1>7, <1>8 DEF Range
<1> QED
  BY <1>2, <1>5, <1>6, <1>9

-----------------------------------------------------------------------------
(* The messages on their way.                                              *)

Owners == a_msg \in [Writer -> Cells] /\ sent \in 0..MaxMsgs /\ got \in Seq(Cells)

\* A queue that is filled by nni_msgq_tryput has no waiting writers.
OneFill == fill = "try" => mq_aio_putq = <<>>

\* The messages on their way one by one.
WayHeld ==
    /\ Way \in Seq(Cells) /\ Len(Way) = mq_len + Len(mq_aio_putq)
    /\ \A k \in 1..mq_len : Way[k] = Buffer[k]
    /\ \A k \in 1..Len(mq_aio_putq) : Way[mq_len + k] = a_msg[mq_aio_putq[k]]

LEMMA MsgsFacts ==
    ASSUME NEW s \in Seq(Writer), NEW msg \in [Writer -> Cells]
    PROVE  /\ Msgs(s, msg) \in Seq(Cells) /\ Len(Msgs(s, msg)) = Len(s)
           /\ \A k \in 1..Len(s) : Msgs(s, msg)[k] = msg[s[k]]
<1>1. Msgs(s, msg) \in [1..Len(s) -> Cells] /\ Len(s) \in Nat
  BY DEF Msgs
<1>2. Msgs(s, msg) \in Seq(Cells)
  BY <1>1
<1>3. Len(Msgs(s, msg)) = Len(s)
  BY <1>1, <1>2
<1> QED
  BY <1>2, <1>3 DEF Msgs

LEMMA WayIs == (Ring /\ Lists /\ Owners) => WayHeld
<1> SUFFICES ASSUME Ring, Lists, Owners PROVE WayHeld
  OBVIOUS
<1>1. PICK b, q, m : b = Buffer /\ q = mq_aio_putq /\ m = Msgs(q, a_msg)
  OBVIOUS
<1>2. b \in Seq(Cells) /\ Len(b) = mq_len /\ mq_len \in Nat
  BY <1>1, RingFacts
<1>3. q \in Seq(Writer) /\ Len(q) \in Nat
  BY <1>1 DEF Lists
<1>4. m \in Seq(Cells) /\ Len(m) = Len(q) /\ \A k \in 1..Len(q) : m[k] = a_msg[q[k]]
  BY <1>1, <1>3, MsgsFacts DEF Owners
<1>5. Way = b \o m
  BY <1>1 DEF Way
<1>6. /\ b \o m \in Seq(Cells) /\ Len(b \o m) = mq_len + Len(q)
      /\ \A k \in 1..(mq_len + Len(q)) : (b \o m)[k] = IF k <= mq_len THEN b[k] ELSE m[k - mq_len]
  <2>1. /\ b \o m \in Seq(Cells) /\ Len(b \o m) = Len(b) + Len(m)
        /\ \A k \in 1..(Len(b) + Len(m)) :
              (b \o m)[k] = IF k <= Len(b) THEN b[k] ELSE m[k - Len(b)]
    BY <1>2, <1>4, ConcatProperties
  <2> QED
    BY <1>2, <1>4, <2>1
<1>7. \A k \in 1..mq_len : (b \o m)[k] = b[k]
  BY <1>2, <1>3, <1>6
<1>8. ASSUME NEW k \in 1..Len(q) PROVE (b \o m)[mq_len + k] = m[k]
  <2>1. mq_len + k \in 1..(mq_len + Len(q)) /\ ~(mq_len + k <= mq_len) /\ (mq_len + k) - mq_len = k
    BY <1>2, <1>3
  <2> QED
    BY <1>6, <2>1
<1> QED
  BY <1>1, <1>4, <1>5, <1>6, <1>7, <1>8, ZenonT(60) DEF WayHeld

LEMMA WayNext == (Ring' /\ Lists' /\ Owners') => WayHeld'
BY WayIs, PTL

\* What a step can do to the messages.
Offered == Way' = Append(Way, sent + 1) /\ got' = got /\ refused' = refused
Handed  == Way = <<>> /\ Way' = <<>> /\ got' = Append(got, sent + 1) /\ refused' = refused
Refused == Way' = Way /\ got' = got /\ refused' = refused \union {sent + 1}
Received == /\ Way # <<>> /\ Way' = Tail(Way) /\ got' = Append(got, Head(Way))
            /\ refused' = refused
Withdrawn == /\ \E i \in DOMAIN Way : Way' = RemoveAt(Way, i) /\ refused' = refused \union {Way[i]}
             /\ got' = got
Emptied == \E a, b : /\ Way' = <<>> /\ Range(Way) = a \union b /\ a \intersect b = {}
                     /\ refused' = refused \union a /\ freed' = freed \union b /\ got' = got
Kept == Way' = Way /\ got' = got /\ refused' = refused

Moves ==
    \/ (Offered \/ Handed \/ Refused) /\ sent < MaxMsgs /\ sent' = sent + 1 /\ freed' = freed
    \/ (Received \/ Withdrawn \/ Kept) /\ sent' = sent /\ freed' = freed
    \/ Emptied /\ sent' = sent

\* A step that leaves the ring and the writers alone.
LEMMA WaySame ==
    ASSUME UNCHANGED <<ring, mq_aio_putq, a_msg>>
    PROVE  Way' = Way /\ Buffer' = Buffer /\ (Ring => Ring')
<1>1. UNCHANGED <<mq_cap, mq_alloc, mq_len, mq_get, mq_put, mq_msgs, mq_aio_putq, a_msg>>
  BY DEF ring
<1> QED
  BY <1>1 DEF Way, Buffer, Cell, Forward, Msgs, Ring

\* Sequences with no element, and with one.
LEMMA Short ==
    ASSUME NEW S, NEW s \in Seq(S)
    PROVE  /\ Len(s) = 0 <=> s = <<>>
           /\ \A t \in Seq(S) : Len(s) = 0 => t \o s = t
           /\ \A t \in Seq(S) : Len(s) = 1 => t \o s = Append(t, s[1])
<1>1. Len(s) = 0 <=> s = <<>>
  OBVIOUS
<1>2. ASSUME NEW t \in Seq(S), Len(s) = 0 PROVE t \o s = t
  BY <1>1, <1>2
<1>3. ASSUME NEW t \in Seq(S), Len(s) = 1 PROVE t \o s = Append(t, s[1])
  <2>0. s[1] \in S /\ Len(t) \in Nat
    BY <1>3
  <2>1. /\ t \o s \in Seq(S) /\ Len(t \o s) = Len(t) + 1
        /\ \A k \in 1..(Len(t) + 1) : (t \o s)[k] = IF k <= Len(t) THEN t[k] ELSE s[k - Len(t)]
    BY <1>3, ConcatProperties, SMTT(60)
  <2>2. /\ Append(t, s[1]) \in Seq(S) /\ Len(Append(t, s[1])) = Len(t) + 1
        /\ \A k \in 1..Len(t) : Append(t, s[1])[k] = t[k]
        /\ Append(t, s[1])[Len(t) + 1] = s[1]
    BY <2>0, AppendProperties
  <2>3. ASSUME NEW k \in 1..(Len(t) + 1) PROVE (t \o s)[k] = Append(t, s[1])[k]
    <3>1. CASE k <= Len(t)
      BY <2>0, <2>1, <2>2, <3>1
    <3>2. CASE ~(k <= Len(t))
      <4>1. k = Len(t) + 1 /\ k - Len(t) = 1
        BY <2>0, <3>2
      <4> QED
        BY <2>1, <2>2, <3>2, <4>1
    <3> QED
      BY <3>1, <3>2
  <2> QED
    BY <2>1, <2>2, <2>3, SeqEqual
<1> QED
  BY <1>1, <1>2, <1>3

\* nni_msgq_run_putq when a reader waits: the message goes to it.
LEMMA PutqHands ==
    ASSUME Readers, Readers', Ring, Owners, mq_aio_getq # <<>>,
           NEW w \in Writer, NEW m \in Cells, NEW fn, NEW msg, msg = [a_msg EXCEPT ![w] = m],
           nni_msgq_run_putq(Append(mq_aio_putq, w), msg, fn), sent' \in 0..MaxMsgs
    PROVE  /\ Ring' /\ a_msg' \in [Writer -> Cells] /\ got' \in Seq(Cells)
           /\ Way = <<>> /\ Way' = <<>> /\ got' = Append(got, m)
<1> DEFINE puts == Append(mq_aio_putq, w)
           served == Min({Len(puts), Len(mq_aio_getq)})
           stored == Min({Len(puts) - served, Max({0, mq_cap - mq_len})})
           gone == SubSeq(puts, 1, served + stored)
<1>1. /\ mq_aio_getq \in Seq(Reader) /\ Len(mq_aio_getq) \in Nat /\ Len(mq_aio_getq) # 0
      /\ mq_len = 0 /\ mq_cap \in Nat /\ mq_aio_putq = <<>>
  BY DEF Readers, Lists, ReadersWaitForMessages
<1>2. /\ msg \in [Writer -> Cells] /\ msg[w] = m /\ got \in Seq(Cells)
      /\ a_msg \in [Writer -> Cells]
  BY DEF Owners
<1>3. puts \in Seq(Writer) /\ Len(puts) = 1 /\ puts[1] = w
  BY <1>1
<1>4. /\ got' = got \o Msgs(SubSeq(puts, 1, served), msg)
      /\ Store(Msgs(From(gone, served), msg))
      /\ mq_aio_putq' = From(puts, served + stored)
      /\ a_msg' = [x \in Writer |-> IF x \in Range(gone) THEN NoMsg ELSE msg[x]]
  BY DEF nni_msgq_run_putq
<1> HIDE DEF puts
<1>5. served = 1
  BY <1>1, <1>3, MinOf
<1> HIDE DEF served
<1>6. stored = 0
  <2>1. Max({0, mq_cap - mq_len}) = mq_cap
    BY <1>1, MaxOf
  <2>2. Len(puts) - served = 0
    BY <1>3, <1>5
  <2>3. stored = Min({0, mq_cap})
    BY <2>1, <2>2
  <2> HIDE DEF stored
  <2> QED
    BY <1>1, <2>3, MinOf
<1> HIDE DEF stored
<1>7. served + stored = 1
  BY <1>5, <1>6
<1>8. /\ gone \in Seq(Writer) /\ Len(gone) = 1
      /\ SubSeq(puts, 1, 1) \in Seq(Writer) /\ Len(SubSeq(puts, 1, 1)) = 1
      /\ SubSeq(puts, 1, 1)[1] = w
  BY <1>3, <1>7
<1> HIDE DEF gone
<1>9. From(gone, 1) \in Seq(Writer) /\ Len(From(gone, 1)) = 0
      /\ From(puts, 1) \in Seq(Writer) /\ Len(From(puts, 1)) = 0
  BY <1>3, <1>8 DEF From
<1>10. PICK x : x = Msgs(From(gone, 1), msg)
  OBVIOUS
<1>11. x \in Seq(Cells) /\ Len(x) = 0
  BY <1>2, <1>9, <1>10, MsgsFacts
<1>12. Store(x)
  BY <1>4, <1>5, <1>10
<1>13. Ring' /\ mq_len' = 0
  <2>1. mq_len + Len(x) <= mq_cap + 1
    BY <1>1, <1>11
  <2>2. Ring'
    BY <1>11, <1>12, <2>1, StoreRing
  <2>3. mq_len' = 0
    BY <1>1, <1>11, <1>12 DEF Store
  <2> QED
    BY <2>2, <2>3
<1>14. a_msg' \in [Writer -> Cells]
  BY <1>2, <1>4 DEF Cells
<1>15. got' = Append(got, m) /\ got' \in Seq(Cells)
  <2>1. PICK y : y = Msgs(SubSeq(puts, 1, 1), msg)
    OBVIOUS
  <2>2. y \in Seq(Cells) /\ Len(y) = 1 /\ y[1] = m
    <3>1. PICK z : z = SubSeq(puts, 1, 1)
      OBVIOUS
    <3>2. z \in Seq(Writer) /\ Len(z) = 1 /\ z[1] = w /\ 1 \in 1..1
      BY <1>8, <3>1
    <3>3. y \in Seq(Cells) /\ Len(y) = Len(z)
      BY <1>2, <2>1, <3>1, <3>2, MsgsFacts
    <3>4. \A k \in 1..Len(z) : y[k] = msg[z[k]]
      BY <2>1, <3>1 DEF Msgs
    <3> QED
      BY <1>2, <3>2, <3>3, <3>4
  <2>3. got' = got \o y
    BY <1>4, <1>5, <2>1
  <2> QED
    BY <1>2, <2>2, <2>3, Short
<1>16. Way = <<>>
  <2>1. Way \in Seq(Cells) /\ Len(Way) = 0
    BY <1>1, WayIs DEF WayHeld, Readers
  <2> QED
    BY <2>1, Short
<1>17. Way' = <<>>
  <2>1. Way' \in Seq(Cells) /\ Len(Way') = mq_len' + Len(mq_aio_putq')
    BY <1>13, <1>14, <1>15, WayNext DEF WayHeld, Readers, Owners, Cells, Msg
  <2>2. Len(Way') = 0
    BY <1>4, <1>7, <1>9, <1>13, <2>1
  <2> QED
    BY <2>1, <2>2, Short
<1> QED
  BY <1>13, <1>14, <1>15, <1>16, <1>17

\* nni_msgq_run_putq when no reader waits: the message goes to the end.
LEMMA PutqOffers ==
    ASSUME Readers, Readers', Ring, Owners, mq_aio_getq = <<>>,
           NEW w \in Writer, w \notin Range(mq_aio_putq), NEW m \in Cells, NEW fn,
           NEW msg, msg = [a_msg EXCEPT ![w] = m],
           nni_msgq_run_putq(Append(mq_aio_putq, w), msg, fn), sent' \in 0..MaxMsgs
    PROVE  /\ Ring' /\ a_msg' \in [Writer -> Cells] /\ got' = got
           /\ Way' = Append(Way, m)
<1> DEFINE puts == Append(mq_aio_putq, w)
           served == Min({Len(puts), Len(mq_aio_getq)})
           stored == Min({Len(puts) - served, Max({0, mq_cap - mq_len})})
           gone == SubSeq(puts, 1, served + stored)
<1>1. PICK L \in Nat : L = Len(mq_aio_putq)
  BY DEF Readers, Lists
<1>2. /\ mq_aio_putq \in Seq(Writer) /\ IsInjective(mq_aio_putq) /\ Len(mq_aio_getq) = 0
      /\ mq_len \in Nat /\ mq_cap \in Nat /\ mq_len <= mq_cap + 1
  BY DEF Readers, Lists, Ring
<1>3. /\ msg \in [Writer -> Cells] /\ msg[w] = m /\ got \in Seq(Cells)
      /\ a_msg \in [Writer -> Cells] /\ \A x \in Writer : x # w => msg[x] = a_msg[x]
  BY DEF Owners
<1>4. puts \in Seq(Writer) /\ Len(puts) = L + 1 /\ IsInjective(puts)
  BY <1>1, <1>2, AppendFacts
<1>5. /\ \A k \in 1..L : puts[k] = mq_aio_putq[k] /\ puts[k] \in Writer /\ puts[k] # w
      /\ puts[L + 1] = w
  <2>1. \A k \in 1..L : puts[k] = mq_aio_putq[k] /\ puts[k] \in Writer
    BY <1>1, <1>2
  <2>2. puts[L + 1] = w
    BY <1>1, <1>2
  <2>3. \A k \in 1..L : mq_aio_putq[k] # w
    BY <1>1, <1>2 DEF Range
  <2> QED
    BY <2>1, <2>2, <2>3
<1>6. /\ got' = got \o Msgs(SubSeq(puts, 1, served), msg)
      /\ Store(Msgs(From(gone, served), msg))
      /\ mq_aio_putq' = From(puts, served + stored)
      /\ a_msg' = [x \in Writer |-> IF x \in Range(gone) THEN NoMsg ELSE msg[x]]
  BY DEF nni_msgq_run_putq
<1> HIDE DEF puts
<1>7. served = 0
  BY <1>2, <1>4, MinOf
<1> HIDE DEF served
<1>8. stored \in 0..(L + 1) /\ mq_len + stored <= mq_cap + 1
  <2>1. PICK room : room = Max({0, mq_cap - mq_len})
    OBVIOUS
  <2>2. room = IF 0 >= mq_cap - mq_len THEN 0 ELSE mq_cap - mq_len
    BY <1>2, <2>1, MaxOf
  <2>3. Len(puts) - served = L + 1
    BY <1>4, <1>7
  <2>4. stored = Min({L + 1, room})
    BY <2>1, <2>3
  <2> HIDE DEF stored
  <2>5. stored = IF L + 1 <= room THEN L + 1 ELSE room
    BY <1>2, <2>2, <2>4, MinOf
  <2> QED
    BY <1>2, <2>2, <2>5
<1> HIDE DEF stored
<1>9. served + stored = stored
  BY <1>7, <1>8
<1>10. PICK n \in 0..(L + 1) : n = stored
  BY <1>8
<1>11. gone = SubSeq(puts, 1, n)
  BY <1>9, <1>10
<1> HIDE DEF gone
<1>12. /\ gone \in Seq(Writer) /\ Len(gone) = n /\ \A k \in 1..n : gone[k] = puts[k]
  BY <1>4, <1>11
<1>13. /\ From(gone, 0) \in Seq(Writer) /\ Len(From(gone, 0)) = n
       /\ \A k \in 1..n : From(gone, 0)[k] = puts[k]
  BY <1>12 DEF From
<1>14. PICK x : x = Msgs(From(gone, 0), msg)
  OBVIOUS
<1>15. /\ x \in Seq(Cells) /\ Len(x) = n /\ \A k \in 1..n : x[k] = msg[puts[k]]
  <2>1. PICK z : z = From(gone, 0)
    OBVIOUS
  <2>2. /\ z \in Seq(Writer) /\ Len(z) = n /\ \A k \in 1..n : z[k] = puts[k]
    BY <1>13, <2>1
  <2>3. x \in Seq(Cells) /\ Len(x) = Len(z)
    BY <1>3, <1>14, <2>1, <2>2, MsgsFacts
  <2>4. \A k \in 1..Len(z) : x[k] = msg[z[k]]
    BY <1>14, <2>1 DEF Msgs
  <2> QED
    BY <2>2, <2>3, <2>4
<1>16. Store(x)
  BY <1>6, <1>7, <1>14
<1>17. Ring' /\ Buffer' = Buffer \o x /\ mq_len' = mq_len + n
  <2>1. mq_len + Len(x) <= mq_cap + 1
    BY <1>8, <1>10, <1>15
  <2>2. Ring' /\ Buffer' = Buffer \o x
    BY <1>15, <1>16, <2>1, StoreRing
  <2>3. mq_len' = mq_len + n
    BY <1>15, <1>16 DEF Store
  <2> QED
    BY <2>2, <2>3
<1>18. a_msg' \in [Writer -> Cells]
  BY <1>3, <1>6 DEF Cells
<1>19. got' = got
  <2>1. SubSeq(puts, 1, 0) \in Seq(Writer) /\ Len(SubSeq(puts, 1, 0)) = 0
    BY <1>4
  <2>2. PICK y : y = Msgs(SubSeq(puts, 1, 0), msg)
    OBVIOUS
  <2>3. y \in Seq(Cells) /\ Len(y) = 0
    BY <1>3, <2>1, <2>2, MsgsFacts
  <2> QED
    BY <1>3, <1>6, <1>7, <2>2, <2>3, Short
<1>20. /\ Len(mq_aio_putq') = L + 1 - n
       /\ \A k \in 1..(L + 1 - n) : a_msg'[mq_aio_putq'[k]] = msg[puts[n + k]]
  <2>1. mq_aio_putq' = From(puts, n)
    BY <1>6, <1>9, <1>10
  <2>2. /\ Len(From(puts, n)) = L + 1 - n
        /\ \A k \in 1..(L + 1 - n) : From(puts, n)[k] = puts[n + k]
    BY <1>4 DEF From
  <2>3. ASSUME NEW k \in 1..(L + 1 - n)
        PROVE  puts[n + k] \in Writer /\ puts[n + k] \notin Range(gone)
    <3>1. n + k \in 1..(L + 1) /\ DOMAIN puts = 1..(L + 1) /\ DOMAIN gone = 1..n
      BY <1>4, <1>12
    <3>2. puts[n + k] \in Writer
      BY <1>4, <3>1
    <3>3. \A j \in 1..n : j \in 1..(L + 1) /\ n + k # j
      OBVIOUS
    <3>4. \A j \in 1..n : puts[n + k] # gone[j]
      BY <1>4, <1>12, <3>1, <3>3 DEF IsInjective
    <3> QED
      BY <3>1, <3>2, <3>4 DEF Range
  <2> QED
    BY <1>6, <2>1, <2>2, <2>3
<1>21. /\ Way \in Seq(Cells) /\ Len(Way) = mq_len + L
       /\ \A k \in 1..mq_len : Way[k] = Buffer[k]
       /\ \A k \in 1..L : Way[mq_len + k] = a_msg[mq_aio_putq[k]]
  BY <1>1, WayIs DEF WayHeld, Readers
<1>22. /\ Way' \in Seq(Cells) /\ Len(Way') = mq_len' + Len(mq_aio_putq')
       /\ \A k \in 1..mq_len' : Way'[k] = Buffer'[k]
       /\ \A k \in 1..Len(mq_aio_putq') : Way'[mq_len' + k] = a_msg'[mq_aio_putq'[k]]
  <2>1. Owners'
    BY <1>18, <1>19, <1>3 DEF Owners, Cells, Msg
  <2>2. WayHeld'
    BY <1>17, <2>1, WayNext DEF Readers
  <2> QED
    BY <2>2 DEF WayHeld, Cells, Msg
<1>23. Buffer \in Seq(Cells) /\ Len(Buffer) = mq_len
  BY RingFacts
<1>a. PICK l \in Nat : l = mq_len
  BY <1>2
<1>24. PICK b, b2, v, v2 : l = mq_len /\ b = Buffer /\ b2 = Buffer' /\ v = Way /\ v2 = Way'
  BY <1>a
<1>25. /\ v \in Seq(Cells) /\ Len(v) = l + L
       /\ \A k \in 1..l : v[k] = b[k]
       /\ \A k \in 1..L : v[l + k] = a_msg[mq_aio_putq[k]]
  BY <1>21, <1>24
<1>26. /\ v2 \in Seq(Cells) /\ Len(v2) = (l + n) + (L + 1 - n)
       /\ \A k \in 1..(l + n) : v2[k] = b2[k]
       /\ \A k \in 1..(L + 1 - n) : v2[(l + n) + k] = msg[puts[n + k]]
  <2>1. mq_len' = l + n /\ Len(mq_aio_putq') = L + 1 - n
    BY <1>17, <1>20, <1>24
  <2> QED
    BY <1>20, <1>22, <1>24, <2>1
<1>27. \A k \in 1..(l + n) : b2[k] = IF k <= l THEN b[k] ELSE msg[puts[k - l]]
  <2>1. b \in Seq(Cells) /\ Len(b) = l /\ b2 = b \o x
    BY <1>17, <1>23, <1>24
  <2>2. \A k \in 1..(Len(b) + Len(x)) : b2[k] = IF k <= Len(b) THEN b[k] ELSE x[k - Len(b)]
    BY <1>15, <2>1, ConcatProperties
  <2>3. \A k \in 1..(l + n) : b2[k] = IF k <= l THEN b[k] ELSE x[k - l]
    BY <1>15, <2>1, <2>2
  <2>4. \A k \in 1..(l + n) : ~(k <= l) => k - l \in 1..n
    OBVIOUS
  <2> QED
    BY <1>15, <2>3, <2>4
<1>28. \A k \in 1..(L + 1) : msg[puts[k]] = IF k <= L THEN a_msg[mq_aio_putq[k]] ELSE m
  BY <1>3, <1>5
<1>29. PICK u : u = Append(v, m)
  OBVIOUS
<1>30. /\ u \in Seq(Cells) /\ Len(u) = l + L + 1 /\ \A k \in 1..(l + L) : u[k] = v[k]
       /\ u[l + L + 1] = m
  BY <1>25, <1>29, AppendProperties
<1>31. ASSUME NEW k \in 1..(l + L + 1) PROVE v2[k] = u[k]
  <2>1. CASE k <= l
    BY <1>25, <1>26, <1>27, <1>30, <2>1
  <2>2. CASE ~(k <= l)
    <3>1. PICK j \in 1..(L + 1) : k = l + j
      <4>1. k - l \in 1..(L + 1) /\ k = l + (k - l)
        BY <2>2
      <4> QED
        BY <4>1
    <3>2. v2[k] = msg[puts[j]]
      <4>1. CASE j <= n
        <5>1. k \in 1..(l + n) /\ k - l = j
          BY <3>1, <4>1
        <5> QED
          BY <1>26, <1>27, <2>2, <5>1
      <4>2. CASE ~(j <= n)
        <5>1. PICK i \in 1..(L + 1 - n) : j = n + i
          <6>1. j - n \in 1..(L + 1 - n) /\ j = n + (j - n)
            BY <4>2
          <6> QED
            BY <6>1
        <5>2. k = (l + n) + i
          BY <3>1, <5>1
        <5> QED
          BY <1>26, <5>1, <5>2
      <4> QED
        BY <4>1, <4>2
    <3>3. CASE j <= L
      <4>1. j \in 1..L /\ k \in 1..(l + L)
        BY <3>1, <3>3
      <4> QED
        BY <1>25, <1>28, <1>30, <3>1, <3>2, <4>1
    <3>4. CASE ~(j <= L)
      <4>1. j = L + 1 /\ k = l + L + 1
        BY <3>1, <3>4
      <4> QED
        BY <1>28, <1>30, <3>2, <3>4, <4>1
    <3> QED
      BY <3>3, <3>4
  <2> QED
    BY <2>1, <2>2
<1>32. v2 = u
  <2>1. Len(v2) = l + L + 1
    BY <1>26
  <2> QED
    BY <1>26, <1>30, <1>31, <2>1, SeqEqual
<1> QED
  BY <1>17, <1>18, <1>19, <1>24, <1>29, <1>32

\* nni_msgq_run_getq for one more reader: it takes the first message, if there
\* is one.
LEMMA GetqMoves ==
    ASSUME Readers, Readers', Ring, Owners, NEW r \in Reader, NEW fn,
           nni_msgq_run_getq(Append(mq_aio_getq, r), fn), sent' = sent
    PROVE  /\ Ring' /\ Owners' /\ (mq_aio_putq = <<>> => mq_aio_putq' = <<>>)
           /\ \/ Way' = Way /\ got' = got
              \/ Way # <<>> /\ Way' = Tail(Way) /\ got' = Append(got, Head(Way))
<1> DEFINE gets == Append(mq_aio_getq, r)
           fetched == Min({Len(gets), mq_len})
           passed == Passed(Len(gets) - fetched)
           gone == SubSeq(mq_aio_putq, 1, passed)
<1>1. PICK L \in Nat, l \in Nat, R \in Nat :
             L = Len(mq_aio_putq) /\ l = mq_len /\ R = Len(mq_aio_getq)
  <2>1. Len(mq_aio_putq) \in Nat /\ mq_len \in Nat /\ Len(mq_aio_getq) \in Nat
    BY DEF Readers, Lists
  <2> QED
    BY <2>1
<1>2. /\ mq_aio_putq \in Seq(Writer) /\ IsInjective(mq_aio_putq) /\ mq_aio_getq \in Seq(Reader)
      /\ (R # 0 => l = 0 /\ L = 0)
  BY <1>1 DEF Readers, Lists, ReadersWaitForMessages
<1>3. got \in Seq(Cells) /\ a_msg \in [Writer -> Cells]
  BY DEF Owners
<1>4. Len(gets) = R + 1
  BY <1>1, <1>2
<1>5. /\ got' = got \o SubSeq(Buffer, 1, fetched) \o Msgs(gone, a_msg)
      /\ Fetch(fetched)
      /\ mq_aio_putq' = From(mq_aio_putq, passed)
      /\ a_msg' = [x \in Writer |-> IF x \in Range(gone) THEN NoMsg ELSE a_msg[x]]
  BY DEF nni_msgq_run_getq
<1> HIDE DEF gets
<1>6. fetched = IF R + 1 <= l THEN R + 1 ELSE l
  BY <1>1, <1>4, MinOf
<1> HIDE DEF fetched
<1>7. fetched \in Nat /\ fetched <= l /\ fetched <= R + 1
  BY <1>6
<1>8. passed = IF (R + 1) - fetched <= L THEN (R + 1) - fetched ELSE L
  <2>1. passed = Min({(R + 1) - fetched, L})
    BY <1>1, <1>4 DEF Passed
  <2> HIDE DEF passed
  <2> QED
    BY <1>7, <2>1, MinOf
<1> HIDE DEF passed
<1>9. passed \in Nat /\ passed <= L /\ fetched + passed <= 1 /\ (passed # 0 => fetched = l)
  BY <1>2, <1>6, <1>7, <1>8
<1>10. PICK f \in Nat, p \in Nat : f = fetched /\ p = passed
  BY <1>7, <1>9
<1>11. f <= l /\ p <= L /\ f + p <= 1 /\ (p # 0 => f = l)
  BY <1>7, <1>9, <1>10
<1>12. Ring' /\ Buffer' = From(Buffer, f) /\ mq_len' = l - f
  <2>1. Fetch(f)
    BY <1>5, <1>10
  <2>2. Ring' /\ Buffer' = From(Buffer, f)
    BY <1>1, <1>11, <2>1, FetchRing
  <2> QED
    BY <1>1, <2>1, <2>2 DEF Fetch
<1>13. /\ gone \in Seq(Writer) /\ Len(gone) = p /\ \A k \in 1..p : gone[k] = mq_aio_putq[k]
  <2>1. gone = SubSeq(mq_aio_putq, 1, p) /\ p \in 0..Len(mq_aio_putq)
    BY <1>1, <1>10, <1>11
  <2> HIDE DEF gone
  <2> QED
    BY <1>2, <2>1
<1> HIDE DEF gone
<1>14. a_msg' \in [Writer -> Cells]
  BY <1>3, <1>5 DEF Cells
<1>15. PICK b, b2 : b = Buffer /\ b2 = Buffer'
  OBVIOUS
<1>16. b \in Seq(Cells) /\ Len(b) = l
  BY <1>1, <1>15, RingFacts
<1>17. PICK x : x = SubSeq(b, 1, f)
  OBVIOUS
<1>18. x \in Seq(Cells) /\ Len(x) = f /\ \A k \in 1..f : x[k] = b[k]
  <2>1. f \in 0..Len(b)
    BY <1>11, <1>16
  <2> QED
    BY <1>16, <1>17, <2>1
<1>19. PICK y : y = Msgs(gone, a_msg)
  OBVIOUS
<1>20. y \in Seq(Cells) /\ Len(y) = p /\ \A k \in 1..p : y[k] = a_msg[mq_aio_putq[k]]
  <2>1. y \in Seq(Cells) /\ Len(y) = Len(gone)
    BY <1>3, <1>13, <1>19, MsgsFacts
  <2>2. \A k \in 1..Len(gone) : y[k] = a_msg[gone[k]]
    BY <1>19 DEF Msgs
  <2> QED
    BY <1>13, <2>1, <2>2
<1>21. got' = (got \o x) \o y
  BY <1>5, <1>10, <1>15, <1>17, <1>19
<1>22. got' \in Seq(Cells)
  <2>1. got \o x \in Seq(Cells)
    BY <1>3, <1>18, ConcatProperties
  <2> QED
    BY <1>20, <1>21, <2>1, ConcatProperties
<1>23. Owners'
  BY <1>14, <1>22 DEF Owners, Cells, Msg
<1>24. /\ Len(mq_aio_putq') = L - p
       /\ \A k \in 1..(L - p) : a_msg'[mq_aio_putq'[k]] = a_msg[mq_aio_putq[p + k]]
  <2>1. mq_aio_putq' = From(mq_aio_putq, p)
    BY <1>5, <1>10
  <2>2. /\ Len(From(mq_aio_putq, p)) = L - p
        /\ \A k \in 1..(L - p) : From(mq_aio_putq, p)[k] = mq_aio_putq[p + k]
    BY <1>1, <1>2, <1>11 DEF From
  <2>3. ASSUME NEW k \in 1..(L - p)
        PROVE  mq_aio_putq[p + k] \in Writer /\ mq_aio_putq[p + k] \notin Range(gone)
    <3>1. p + k \in 1..L /\ DOMAIN mq_aio_putq = 1..L /\ DOMAIN gone = 1..p
      BY <1>1, <1>2, <1>11, <1>13
    <3>2. mq_aio_putq[p + k] \in Writer
      BY <1>1, <1>2, <3>1
    <3>3. \A j \in 1..p : j \in 1..L /\ p + k # j
      BY <1>11
    <3>4. \A j \in 1..p : mq_aio_putq[p + k] # gone[j]
      BY <1>2, <1>13, <3>1, <3>3 DEF IsInjective
    <3> QED
      BY <3>1, <3>2, <3>4 DEF Range
  <2> QED
    BY <1>5, <2>1, <2>2, <2>3
<1>a. mq_aio_putq = <<>> => mq_aio_putq' = <<>>
  <2>1. mq_aio_putq' \in Seq(Writer)
    BY DEF Readers, Lists
  <2>2. mq_aio_putq = <<>> => L = 0
    BY <1>1
  <2> QED
    BY <1>11, <1>24, <2>1, <2>2
<1>25. PICK v, v2 : v = Way /\ v2 = Way'
  OBVIOUS
<1>26. /\ v \in Seq(Cells) /\ Len(v) = l + L
       /\ \A k \in 1..l : v[k] = b[k]
       /\ \A k \in 1..L : v[l + k] = a_msg[mq_aio_putq[k]]
  BY <1>1, <1>15, <1>25, WayIs DEF WayHeld, Readers
<1>27. /\ v2 \in Seq(Cells) /\ Len(v2) = (l - f) + (L - p)
       /\ \A k \in 1..(l - f) : v2[k] = b2[k]
       /\ \A k \in 1..(L - p) : v2[(l - f) + k] = a_msg[mq_aio_putq[p + k]]
  <2>1. WayHeld'
    BY <1>12, <1>23, WayNext DEF Readers
  <2>2. /\ Way' \in Seq(Cells) /\ Len(Way') = mq_len' + Len(mq_aio_putq')
        /\ \A k \in 1..mq_len' : Way'[k] = Buffer'[k]
        /\ \A k \in 1..Len(mq_aio_putq') : Way'[mq_len' + k] = a_msg'[mq_aio_putq'[k]]
    BY <2>1 DEF WayHeld, Cells, Msg
  <2> QED
    BY <1>12, <1>15, <1>24, <1>25, <2>2
<1>28. ASSUME NEW k \in 1..((l - f) + (L - p)) PROVE v2[k] = v[(f + p) + k]
  <2>1. CASE k <= l - f
    <3>1. k \in 1..(l - f) /\ p = 0 /\ f + k \in 1..l /\ (f + p) + k = f + k
      BY <1>11, <2>1
    <3>2. b2[k] = b[f + k]
      BY <1>11, <1>12, <1>15, <1>16, <3>1 DEF From
    <3> QED
      BY <1>26, <1>27, <3>1, <3>2
  <2>2. CASE ~(k <= l - f)
    <3>1. PICK j \in 1..(L - p) : k = (l - f) + j
      <4>1. k - (l - f) \in 1..(L - p) /\ k = (l - f) + (k - (l - f))
        BY <1>11, <2>2
      <4> QED
        BY <4>1
    <3>2. p + j \in 1..L /\ (f + p) + k = l + (p + j)
      BY <1>11, <3>1
    <3> QED
      BY <1>26, <1>27, <3>1, <3>2
  <2> QED
    BY <2>1, <2>2
<1>29. CASE f = 0 /\ p = 0
  <2>1. \A k \in 1..(l + L) : v2[k] = v[k]
    BY <1>28, <1>29
  <2>2. Len(v2) = l + L
    BY <1>27, <1>29
  <2>3. v2 = v
    BY <1>26, <1>27, <2>1, <2>2, SeqEqual
  <2>4. got' = got
    BY <1>3, <1>18, <1>20, <1>21, <1>29, Short
  <2> QED
    BY <1>12, <1>23, <1>a, <1>25, <2>3, <2>4
<1>30. CASE f + p = 1
  <2>1. (f = 1 /\ p = 0) \/ (f = 0 /\ p = 1 /\ l = 0)
    BY <1>11, <1>30
  <2>2. l + L >= 1 /\ Len(v2) = l + L - 1
    BY <1>11, <1>27, <2>1
  <2>3. v # <<>>
    BY <1>26, <2>2
  <2>4. PICK t : t = Tail(v)
    OBVIOUS
  <2>5. /\ t \in Seq(Cells) /\ Len(t) = l + L - 1 /\ \A k \in 1..(l + L - 1) : t[k] = v[k + 1]
        /\ Head(v) = v[1]
    BY <1>26, <2>3, <2>4
  <2>6. ASSUME NEW k \in 1..(l + L - 1) PROVE v2[k] = t[k]
    <3>1. k \in 1..((l - f) + (L - p)) /\ (f + p) + k = k + 1
      BY <1>30, <2>1
    <3> QED
      BY <1>28, <2>5, <3>1
  <2>7. v2 = t
    BY <1>27, <2>2, <2>5, <2>6, SeqEqual
  <2>8. got' = Append(got, v[1])
    <3>1. CASE f = 1 /\ p = 0
      <4>1. got \o x = Append(got, x[1])
        BY <1>3, <1>18, <3>1, Short
      <4>2. x[1] = v[1]
        BY <1>11, <1>18, <1>26, <3>1
      <4>3. Append(got, x[1]) \in Seq(Cells)
        <5>1. x[1] \in Cells
          BY <1>18, <3>1, SMTT(60)
        <5> QED
          BY <1>3, <5>1, AppendProperties
      <4>4. (got \o x) \o y = got \o x
        BY <1>20, <3>1, <4>1, <4>3, Short
      <4> QED
        BY <1>21, <4>1, <4>2, <4>4
    <3>2. CASE f = 0 /\ p = 1 /\ l = 0
      <4>1. got \o x = got
        BY <1>3, <1>18, <3>2, Short
      <4>2. got \o y = Append(got, y[1])
        BY <1>3, <1>20, <3>2, Short
      <4>3. y[1] = v[1]
        <5>1. 1 \in 1..p /\ 1 \in 1..L /\ l + 1 = 1
          BY <1>11, <3>2
        <5> QED
          BY <1>20, <1>26, <5>1
      <4> QED
        BY <1>21, <4>1, <4>2, <4>3
    <3> QED
      BY <2>1, <3>1, <3>2
  <2> QED
    BY <1>12, <1>23, <1>a, <1>25, <2>3, <2>4, <2>5, <2>7, <2>8
<1> QED
  BY <1>11, <1>29, <1>30

-----------------------------------------------------------------------------
(* What each call does to the messages.                                    *)

Queue == Ring /\ Owners /\ OneFill

LEMMA PutMoves ==
    ASSUME Readers, Readers', Queue, NEW w \in Writer, NEW b \in BOOLEAN, nni_msgq_aio_put(w, b)
    PROVE  Queue' /\ Moves
<1>1. /\ sent \in Nat /\ sent < MaxMsgs /\ sent' = sent + 1 /\ sent' \in 0..MaxMsgs
      /\ sent + 1 \in Cells
  BY MsgqAssumption DEF nni_msgq_aio_put, Queue, Owners, Cells, Msg
<1>2. OneFill'
  BY DEF nni_msgq_aio_put, OneFill
<1>3. freed' = freed /\ w \notin Range(mq_aio_putq)
  BY DEF nni_msgq_aio_put
<1>4. CASE refused' = refused \union {sent + 1} /\ UNCHANGED <<ring, waiters, polls, got>>
  <2>1. UNCHANGED <<ring, mq_aio_putq, a_msg>> /\ got' = got
    BY <1>4 DEF waiters
  <2>2. Way' = Way /\ Ring'
    BY <2>1, WaySame DEF Queue
  <2>3. Owners'
    BY <1>1, <2>1 DEF Queue, Owners, Cells, Msg
  <2> QED
    BY <1>1, <1>2, <1>3, <1>4, <2>1, <2>2, <2>3 DEF Queue, Moves, Refused
<1>5. CASE /\ nni_msgq_run_putq(nni_aio_list_append(mq_aio_putq, w), [a_msg EXCEPT ![w] = sent + 1],
                                [a_cancel_fn EXCEPT ![w] = b])
           /\ UNCHANGED refused
  <2>1. PICK msg, fn, m : /\ msg = [a_msg EXCEPT ![w] = m] /\ fn = [a_cancel_fn EXCEPT ![w] = b]
                          /\ m = sent + 1
    OBVIOUS
  <2>2. nni_msgq_run_putq(Append(mq_aio_putq, w), msg, fn) /\ m \in Cells
    BY <1>1, <1>5, <2>1 DEF nni_aio_list_append
  <2>3. CASE mq_aio_getq = <<>>
    <3>1. Ring' /\ a_msg' \in [Writer -> Cells] /\ got' = got /\ Way' = Append(Way, m)
      BY <1>1, <1>3, <2>1, <2>2, <2>3, PutqOffers DEF Queue
    <3>2. Owners'
      BY <1>1, <3>1 DEF Queue, Owners, Cells, Msg
    <3> QED
      BY <1>1, <1>2, <1>3, <1>5, <2>1, <3>1, <3>2 DEF Queue, Moves, Offered
  <2>4. CASE mq_aio_getq # <<>>
    <3>1. /\ Ring' /\ a_msg' \in [Writer -> Cells] /\ got' \in Seq(Cells)
          /\ Way = <<>> /\ Way' = <<>> /\ got' = Append(got, m)
      BY <1>1, <2>1, <2>2, <2>4, PutqHands DEF Queue
    <3>2. Owners'
      BY <1>1, <3>1 DEF Owners, Cells, Msg
    <3> QED
      BY <1>1, <1>2, <1>3, <1>5, <2>1, <3>1, <3>2 DEF Queue, Moves, Handed
  <2> QED
    BY <2>3, <2>4
<1> QED
  BY <1>4, <1>5 DEF nni_msgq_aio_put

LEMMA GetMoves ==
    ASSUME Readers, Readers', Queue, NEW r \in Reader, NEW b \in BOOLEAN, nni_msgq_aio_get(r, b)
    PROVE  Queue' /\ Moves
<1>1. PICK fn : fn = [a_cancel_fn EXCEPT ![r] = b]
  OBVIOUS
<1>2. /\ nni_msgq_run_getq(Append(mq_aio_getq, r), fn)
      /\ sent' = sent /\ refused' = refused /\ freed' = freed /\ fill' = fill
  BY <1>1 DEF nni_msgq_aio_get, nni_aio_list_append
<1>3. /\ Ring' /\ Owners' /\ (mq_aio_putq = <<>> => mq_aio_putq' = <<>>)
      /\ \/ Way' = Way /\ got' = got
         \/ Way # <<>> /\ Way' = Tail(Way) /\ got' = Append(got, Head(Way))
  BY <1>2, GetqMoves DEF Queue
<1>4. OneFill'
  BY <1>2, <1>3 DEF Queue, OneFill
<1> QED
  BY <1>2, <1>3, <1>4 DEF Queue, Moves, Kept, Received

\* Without waiting writers the buffer is all there is.
LEMMA NoWriters ==
    ASSUME NEW b \in Seq(Cells), NEW msg
    PROVE  b \o Msgs(<<>>, msg) = b
<1>1. Msgs(<<>>, msg) = <<>>
  BY DEF Msgs
<1> QED
  BY <1>1

LEMMA TryputMoves ==
    ASSUME Readers, Readers', Queue, nni_msgq_tryput
    PROVE  Queue' /\ Moves
<1>1. /\ sent \in Nat /\ sent < MaxMsgs /\ sent' = sent + 1 /\ sent' \in 0..MaxMsgs
      /\ sent + 1 \in Cells /\ freed' = freed /\ fill' = fill /\ fill = "try"
  BY MsgqAssumption DEF nni_msgq_tryput, Queue, Owners, Cells, Msg
<1>2. mq_aio_putq = <<>> /\ got \in Seq(Cells) /\ a_msg \in [Writer -> Cells]
  BY <1>1 DEF Queue, OneFill, Owners
<1>3. CASE refused' = refused \union {sent + 1} /\ UNCHANGED <<ring, waiters, polls, got>>
  <2>1. UNCHANGED <<ring, mq_aio_putq, a_msg>> /\ got' = got
    BY <1>3 DEF waiters
  <2>2. Way' = Way /\ Ring'
    BY <2>1, WaySame DEF Queue
  <2>3. Owners' /\ OneFill'
    BY <1>1, <1>2, <2>1 DEF Owners, OneFill, Cells, Msg
  <2> QED
    BY <1>1, <1>3, <2>1, <2>2, <2>3 DEF Queue, Moves, Refused
<1>4. CASE /\ mq_aio_getq # <<>> /\ got' = Append(got, sent + 1)
           /\ UNCHANGED <<ring, mq_aio_putq, a_msg, refused>>
  <2>1. Way' = Way /\ Ring'
    BY <1>4, WaySame DEF Queue
  <2>2. Owners' /\ OneFill'
    <3>1. got' \in Seq(Cells)
      BY <1>1, <1>2, <1>4, AppendProperties
    <3> QED
      BY <1>1, <1>2, <1>4, <3>1 DEF Owners, OneFill, Cells, Msg
  <2>3. Way = <<>>
    <3>1. mq_len = 0
      BY <1>4 DEF Readers, ReadersWaitForMessages
    <3>2. Way \in Seq(Cells) /\ Len(Way) = 0
      BY <1>2, <3>1, WayIs DEF WayHeld, Queue, Readers
    <3> QED
      BY <3>2, Short
  <2> QED
    BY <1>1, <1>4, <2>1, <2>2, <2>3 DEF Queue, Moves, Handed
<1>5. CASE mq_len < mq_cap /\ Store(<<sent + 1>>) /\ UNCHANGED <<waiters, refused, got>>
  <2>1. PICK m, s : m = sent + 1 /\ s = <<m>>
    OBVIOUS
  <2>2. s \in Seq(Cells) /\ Len(s) = 1 /\ s[1] = m
    BY <1>1, <2>1
  <2>3. mq_aio_putq' = <<>> /\ a_msg' = a_msg
    BY <1>2, <1>5 DEF waiters
  <2>4. mq_len + Len(s) <= mq_cap + 1
    BY <1>5, <2>2 DEF Queue, Ring
  <2>5. Store(s)
    BY <1>5, <2>1
  <2>6. Ring' /\ Buffer' = Buffer \o s
    BY <2>2, <2>4, <2>5, StoreRing DEF Queue
  <2>7. Buffer \in Seq(Cells)
    BY RingFacts DEF Queue
  <2>8. Buffer' = Append(Buffer, m) /\ Buffer' \in Seq(Cells)
    <3>1. Buffer \o s = Append(Buffer, m)
      BY <2>2, <2>7, Short
    <3> QED
      BY <1>1, <2>1, <2>6, <2>7, <3>1, AppendProperties
  <2>9. Way = Buffer
    BY <1>2, <2>7, NoWriters DEF Way
  <2>10. Way' = Buffer'
    BY <2>3, <2>8, NoWriters DEF Way
  <2>11. Owners' /\ OneFill'
    BY <1>1, <1>2, <1>5, <2>3 DEF Owners, OneFill, Cells, Msg
  <2> QED
    BY <1>1, <1>5, <2>1, <2>6, <2>8, <2>9, <2>10, <2>11 DEF Queue, Moves, Offered
<1> QED
  BY <1>3, <1>4, <1>5 DEF nni_msgq_tryput

\* A cancelled writer takes its message off the way.
LEMMA CancelMoves ==
    ASSUME Readers, Readers', Queue, NEW h \in Handle, nni_msgq_cancel(h)
    PROVE  Queue' /\ Moves
<1>1. /\ mq_aio_putq' = nni_aio_list_remove(mq_aio_putq, h)
      /\ UNCHANGED <<ring, sent, got, freed, fill>>
  BY DEF nni_msgq_cancel
<1>2. /\ mq_aio_putq \in Seq(Writer) /\ mq_aio_getq \in Seq(Reader) /\ IsInjective(mq_aio_putq)
      /\ a_msg \in [Writer -> Cells] /\ got \in Seq(Cells) /\ sent \in 0..MaxMsgs
  BY DEF Readers, Lists, Queue, Owners
<1>3. OneFill'
  BY <1>1, <1>2, RemoveFacts DEF Queue, OneFill
<1>4. CASE h \notin Range(mq_aio_putq)
  <2>1. mq_aio_putq' = mq_aio_putq
    BY <1>1, <1>4 DEF nni_aio_list_remove
  <2>2. ~(h \in Writer /\ nni_aio_list_active(h))
    BY <1>2, <1>4, ListsDisjoint, MsgqAssumption DEF nni_aio_list_active
  <2>3. refused' = refused /\ a_msg' = a_msg
    BY <2>2 DEF nni_msgq_cancel
  <2>4. Way' = Way /\ Ring'
    BY <1>1, <2>1, <2>3, WaySame DEF Queue
  <2>5. Owners'
    BY <1>1, <1>2, <2>3 DEF Owners, Cells, Msg
  <2> QED
    BY <1>1, <1>3, <2>3, <2>4, <2>5 DEF Queue, Moves, Kept
<1>5. CASE h \in Range(mq_aio_putq)
  <2>1. h \in Writer /\ nni_aio_list_active(h)
    BY <1>2, <1>5, ListsDisjoint DEF nni_aio_list_active
  <2>2. refused' = refused \union {a_msg[h]} /\ a_msg' = [a_msg EXCEPT ![h] = NoMsg]
    BY <2>1 DEF nni_msgq_cancel
  <2>3. PICK L \in Nat, l \in Nat : L = Len(mq_aio_putq) /\ l = mq_len
    <3>1. Len(mq_aio_putq) \in Nat /\ mq_len \in Nat
      BY DEF Readers, Lists
    <3> QED
      BY <3>1
  <2>4. DOMAIN mq_aio_putq = 1..L
    BY <1>2, <2>3
  <2>5. PICK i \in 1..L : i = CHOOSE j \in DOMAIN mq_aio_putq : mq_aio_putq[j] = h
    BY <1>5, <2>4 DEF Range
  <2>6. mq_aio_putq[i] = h
    BY <1>5, <2>4, <2>5 DEF Range
  <2>7. mq_aio_putq' = RemoveAt(mq_aio_putq, i)
    BY <1>1, <1>5, <2>5 DEF nni_aio_list_remove
  <2>8. Ring' /\ Owners' /\ Buffer' = Buffer /\ mq_len' = l
    <3>1. a_msg' \in [Writer -> Cells]
      BY <1>2, <2>2 DEF Cells
    <3>2. Owners'
      BY <1>1, <1>2, <3>1 DEF Owners, Cells, Msg
    <3>3. UNCHANGED <<mq_cap, mq_alloc, mq_len, mq_get, mq_put, mq_msgs>>
      BY <1>1 DEF ring
    <3>4. Ring' /\ Buffer' = Buffer
      BY <3>3 DEF Queue, Ring, Buffer, Cell, Forward
    <3> QED
      BY <2>3, <3>2, <3>3, <3>4
  <2>9. PICK v, v2, b : v = Way /\ v2 = Way' /\ b = Buffer
    OBVIOUS
  <2>10. /\ v \in Seq(Cells) /\ Len(v) = l + L
         /\ \A k \in 1..l : v[k] = b[k]
         /\ \A k \in 1..L : v[l + k] = a_msg[mq_aio_putq[k]]
    BY <2>3, <2>9, WayIs DEF WayHeld, Readers, Queue
  <2>11. /\ Len(mq_aio_putq') = L - 1
         /\ \A k \in 1..(L - 1) :
               a_msg'[mq_aio_putq'[k]] = a_msg[mq_aio_putq[IF k < i THEN k ELSE k + 1]]
    <3>1. Len(mq_aio_putq') = L - 1
      BY <1>2, <2>3, <2>7, RemoveAtFacts
    <3>2. \A k \in 1..(L - 1) :
            mq_aio_putq'[k] = IF k < i THEN mq_aio_putq[k] ELSE mq_aio_putq[k + 1]
      BY <1>2, <2>3, <2>7, RemoveAtFacts
    <3>3. ASSUME NEW k \in 1..(L - 1)
          PROVE  a_msg'[mq_aio_putq'[k]] = a_msg[mq_aio_putq[IF k < i THEN k ELSE k + 1]]
      <4>1. PICK j \in 1..L : j = (IF k < i THEN k ELSE k + 1) /\ j # i
        OBVIOUS
      <4>2. mq_aio_putq'[k] = mq_aio_putq[j]
        BY <3>2, <4>1
      <4>3. mq_aio_putq[j] # h /\ mq_aio_putq[j] \in Writer
        BY <1>2, <2>3, <2>4, <2>6, <4>1, SMTT(60) DEF IsInjective
      <4> QED
        BY <1>2, <2>2, <4>1, <4>2, <4>3
    <3> QED
      BY <3>1, <3>3
  <2>12. /\ v2 \in Seq(Cells) /\ Len(v2) = l + (L - 1)
         /\ \A k \in 1..l : v2[k] = b[k]
         /\ \A k \in 1..(L - 1) :
               v2[l + k] = a_msg[mq_aio_putq[IF k < i THEN k ELSE k + 1]]
    <3>1. WayHeld'
      BY <2>8, WayNext DEF Readers
    <3>2. /\ Way' \in Seq(Cells) /\ Len(Way') = mq_len' + Len(mq_aio_putq')
          /\ \A k \in 1..mq_len' : Way'[k] = Buffer'[k]
          /\ \A k \in 1..Len(mq_aio_putq') : Way'[mq_len' + k] = a_msg'[mq_aio_putq'[k]]
      BY <3>1 DEF WayHeld, Cells, Msg
    <3> QED
      BY <2>8, <2>9, <2>11, <3>2
  <2>13. PICK n \in 1..(l + L) : n = l + i
    OBVIOUS
  <2>14. PICK u : u = RemoveAt(v, n)
    OBVIOUS
  <2>15. u \in Seq(Cells) /\ Len(u) = (l + L) - 1
    BY <2>10, <2>14, RemoveAtFacts
  <2>16. \A k \in 1..((l + L) - 1) : u[k] = IF k < n THEN v[k] ELSE v[k + 1]
    <3>1. n \in 1..Len(v)
      BY <2>10
    <3>2. \A k \in 1..(Len(v) - 1) : RemoveAt(v, n)[k] = IF k < n THEN v[k] ELSE v[k + 1]
      BY <2>10, <3>1, RemoveAtFacts
    <3> QED
      BY <2>10, <2>14, <3>2
  <2>17. ASSUME NEW k \in 1..((l + L) - 1) PROVE v2[k] = u[k]
    <3>1. CASE k <= l
      <4>1. k \in 1..l /\ k < n
        BY <2>13, <3>1
      <4> QED
        BY <2>10, <2>12, <2>16, <4>1
    <3>2. CASE ~(k <= l)
      <4>1. PICK j \in 1..(L - 1) : k = l + j
        <5>1. k - l \in 1..(L - 1) /\ k = l + (k - l)
          BY <3>2
        <5> QED
          BY <5>1
      <4>2. CASE j < i
        <5>1. k < n /\ j \in 1..L
          BY <2>13, <4>1, <4>2
        <5> QED
          BY <2>10, <2>12, <2>16, <4>1, <4>2, <5>1
      <4>3. CASE ~(j < i)
        <5>1. ~(k < n) /\ j + 1 \in 1..L /\ k + 1 = l + (j + 1)
          BY <2>13, <4>1, <4>3
        <5>2. u[k] = v[l + (j + 1)]
          BY <2>16, <5>1
        <5>3. v[l + (j + 1)] = a_msg[mq_aio_putq[j + 1]]
          BY <2>10, <5>1
        <5>4. v2[k] = a_msg[mq_aio_putq[j + 1]]
          BY <2>12, <4>1, <4>3
        <5> QED
          BY <5>2, <5>3, <5>4
      <4> QED
        BY <4>2, <4>3
    <3> QED
      BY <3>1, <3>2
  <2>18. v2 = u
    <3>1. Len(v2) = (l + L) - 1
      BY <2>12
    <3> QED
      BY <2>12, <2>15, <2>17, <3>1, SeqEqual
  <2>19. n \in DOMAIN v /\ v[n] = a_msg[h]
    BY <2>6, <2>10, <2>13
  <2>20. Withdrawn
    BY <1>1, <2>2, <2>9, <2>14, <2>18, <2>19 DEF Withdrawn
  <2> QED
    BY <1>1, <1>3, <2>8, <2>20 DEF Queue, Moves
<1> QED
  BY <1>4, <1>5

\* Closing hands the messages of the writers back and frees the buffered ones.
LEMMA CloseMoves ==
    ASSUME Readers, Readers', Queue, Account(Way, got, refused, freed, sent),
           nni_msgq_close \/ nni_msgq_fini
    PROVE  Queue' /\ Moves
<1>1. /\ Fetch(mq_len) /\ freed' = freed \union Range(Buffer)
      /\ UNCHANGED <<sent, got, fill>>
  <2>1. Discard /\ UNCHANGED <<sent, got, fill>>
    BY DEF nni_msgq_close, nni_msgq_fini
  <2>2. mq_get < mq_alloc /\ mq_len \in Nat
    BY DEF Queue, Ring
  <2>3. \A k : Back(mq_get, k) = Forward(mq_get, k)
    BY <2>2 DEF Back
  <2>4. [k \in 1..mq_len |-> Cell(Back(mq_get, k - 1))] = Buffer
    BY <2>3 DEF Buffer
  <2>5. mq_len' = mq_len - mq_len
    BY <2>1, <2>2 DEF Discard
  <2> QED
    BY <2>1, <2>3, <2>4, <2>5 DEF Discard, Fetch
<1>2. /\ mq_aio_putq' = <<>> /\ a_msg' \in [Writer -> Cells]
      /\ refused' = refused \union {a_msg[w] : w \in Range(mq_aio_putq)}
  <2>1. CASE nni_msgq_close
    BY <2>1 DEF nni_msgq_close, Cells
  <2>2. CASE nni_msgq_fini
    <3>1. mq_aio_putq = <<>> /\ UNCHANGED <<mq_aio_putq, a_msg, refused>>
      BY <2>2 DEF nni_msgq_fini, waiters
    <3>2. Range(mq_aio_putq) = {}
      BY <3>1 DEF Range
    <3> QED
      BY <3>1, <3>2 DEF Queue, Owners
  <2> QED
    BY <2>1, <2>2
<1>3. PICK L \in Nat, l \in Nat : L = Len(mq_aio_putq) /\ l = mq_len
  <2>1. Len(mq_aio_putq) \in Nat /\ mq_len \in Nat
    BY DEF Readers, Lists
  <2> QED
    BY <2>1
<1>4. Ring' /\ mq_len' = 0
  <2>1. mq_len \in Nat /\ mq_len <= mq_len
    BY <1>3
  <2>2. Ring'
    BY <1>1, <2>1, FetchRing DEF Queue
  <2>3. mq_len' = 0
    BY <1>1, <2>1 DEF Fetch
  <2> QED
    BY <2>2, <2>3
<1>5. Owners' /\ OneFill'
  BY <1>1, <1>2 DEF Queue, Owners, OneFill, Cells, Msg
<1>6. Way' = <<>>
  <2>1. Way' \in Seq(Cells) /\ Len(Way') = mq_len' + Len(mq_aio_putq')
    BY <1>4, <1>5, WayNext DEF WayHeld, Readers, Cells, Msg
  <2>2. Len(Way') = 0
    BY <1>2, <1>4, <2>1
  <2> QED
    BY <2>1, <2>2, Short
<1>7. PICK v, b, q, a, c : /\ v = Way /\ b = Buffer /\ q = mq_aio_putq
                           /\ a = {a_msg[w] : w \in Range(q)} /\ c = Range(b)
  OBVIOUS
<1>8. /\ v \in Seq(Cells) /\ Len(v) = l + L
      /\ \A k \in 1..l : v[k] = b[k]
      /\ \A k \in 1..L : v[l + k] = a_msg[q[k]]
  BY <1>3, <1>7, WayIs DEF WayHeld, Readers, Queue
<1>9. DOMAIN v = 1..(l + L) /\ DOMAIN b = 1..l /\ DOMAIN q = 1..L
  <2>1. b \in Seq(Cells) /\ Len(b) = l /\ q \in Seq(Writer) /\ Len(q) = L
    BY <1>3, <1>7, RingFacts DEF Queue, Readers, Lists
  <2> QED
    BY <1>8, <2>1
<1>10. \A x : x \in a <=> \E k \in 1..L : x = v[l + k]
  BY <1>7, <1>8, <1>9 DEF Range
<1>11. \A x : x \in c <=> \E k \in 1..l : x = v[k]
  BY <1>7, <1>8, <1>9 DEF Range
<1>12. Range(v) = a \union c
  <2>1. ASSUME NEW x \in Range(v) PROVE x \in a \union c
    <3>1. PICK k \in 1..(l + L) : x = v[k]
      BY <1>9 DEF Range
    <3>2. CASE k <= l
      <4>1. k \in 1..l
        BY <3>2
      <4> QED
        BY <1>11, <3>1, <4>1
    <3>3. CASE ~(k <= l)
      <4>1. PICK j \in 1..L : k = l + j
        <5>1. k - l \in 1..L /\ k = l + (k - l)
          BY <3>3
        <5> QED
          BY <5>1
      <4> QED
        BY <1>10, <3>1, <4>1
    <3> QED
      BY <3>2, <3>3
  <2>2. \A k \in 1..l : k \in 1..(l + L)
    OBVIOUS
  <2>3. \A k \in 1..L : l + k \in 1..(l + L)
    OBVIOUS
  <2>4. a \subseteq Range(v)
    BY <1>9, <1>10, <2>3 DEF Range
  <2>5. c \subseteq Range(v)
    BY <1>9, <1>11, <2>2 DEF Range
  <2> QED
    BY <2>1, <2>4, <2>5
<1>13. a \intersect c = {}
  <2> SUFFICES ASSUME NEW j \in 1..L, NEW k \in 1..l, v[l + j] = v[k] PROVE FALSE
    BY <1>10, <1>11
  <2>1. l + j \in 1..(l + L) /\ k \in 1..(l + L) /\ l + j # k
    OBVIOUS
  <2>2. IsInjective(v)
    BY <1>7 DEF Account
  <2> QED
    BY <1>9, <2>1, <2>2 DEF IsInjective
<1>14. refused' = refused \union a /\ freed' = freed \union c
  BY <1>1, <1>2, <1>7
<1>15. Emptied
  BY <1>1, <1>6, <1>7, <1>12, <1>13, <1>14 DEF Emptied
<1> QED
  BY <1>1, <1>4, <1>5, <1>15 DEF Queue, Moves

\* No resize finds more messages than fit the new size and the extra cell: the
\* case in which nni_msgq_resize has nothing to drop.
Fits == mq_cap' # mq_cap => mq_len <= mq_cap' + 1

LEMMA ResizeMoves ==
    ASSUME Readers, Readers', Queue, Fits, NEW cap \in Caps, nni_msgq_resize(cap)
    PROVE  Queue' /\ Moves
<1>1. /\ cap \in Nat /\ mq_cap' = cap
      /\ UNCHANGED <<mq_aio_putq, a_msg, sent, got, refused, fill>>
  BY MsgqAssumption DEF nni_msgq_resize, waiters
<1>2. mq_len <= cap + 1
  BY <1>1 DEF Fits, Queue, Ring
<1>3. Ring' /\ Buffer' = Buffer /\ freed' = freed
  BY <1>1, <1>2, ResizeRing DEF Queue
<1>4. Way' = Way
  BY <1>1, <1>3 DEF Way, Msgs
<1>5. Owners' /\ OneFill'
  BY <1>1 DEF Queue, Owners, OneFill, Cells, Msg
<1> QED
  BY <1>1, <1>3, <1>4, <1>5 DEF Queue, Moves, Kept

LEMMA RestMoves ==
    ASSUME Queue, nni_msgq_get_pollable \/ UNCHANGED vars \/ \E h \in Handle : TakeCancel(h)
    PROVE  Queue' /\ Moves
<1>1. UNCHANGED <<ring, mq_aio_putq, a_msg, sent, got, refused, freed, fill>>
  BY DEF nni_msgq_get_pollable, vars, waiters, TakeCancel
<1>2. Way' = Way /\ Ring'
  BY <1>1, WaySame DEF Queue
<1>3. Owners' /\ OneFill'
  BY <1>1 DEF Queue, Owners, OneFill, Cells, Msg
<1> QED
  BY <1>1, <1>2, <1>3 DEF Queue, Moves, Kept

-----------------------------------------------------------------------------
(* The theorems.                                                           *)

\* The inductive invariant.
Whole == Readers /\ Queue /\ Account(Way, got, refused, freed, sent)

LEMMA WholeInit == Init => Whole
<1> SUFFICES ASSUME Init PROVE Whole
  OBVIOUS
<1>1. Readers
  BY ReadersInit
<1>2. /\ mq_cap \in Nat /\ mq_alloc = mq_cap + 2 /\ mq_len = 0 /\ mq_get = 0 /\ mq_put = 0
      /\ mq_msgs = [i \in 0..(mq_alloc - 1) |-> NoMsg]
      /\ mq_aio_putq = <<>> /\ a_msg = [w \in Writer |-> NoMsg]
      /\ sent = 0 /\ got = <<>> /\ refused = {} /\ freed = {} /\ MaxMsgs \in Nat
  BY MsgqAssumption DEF Init
<1>3. Ring
  BY <1>2 DEF Ring, After
<1>4. Owners /\ OneFill
  <2>1. got \in Seq(Cells)
    BY <1>2
  <2> QED
    BY <1>2, <2>1 DEF Owners, OneFill, Cells
<1>5. Way = <<>>
  <2>1. Way \in Seq(Cells) /\ Len(Way) = 0
    BY <1>1, <1>2, <1>3, <1>4, WayIs DEF WayHeld, Readers
  <2> QED
    BY <2>1, Short
<1>6. IsInjective(<<>>) /\ Range(<<>>) = {} /\ 1..0 = {}
  BY DEF IsInjective, Range
<1>7. Account(Way, got, refused, freed, sent)
  BY <1>2, <1>5, <1>6 DEF Account
<1> QED
  BY <1>1, <1>3, <1>4, <1>7 DEF Whole, Queue

LEMMA WholeFacts ==
    ASSUME Whole
    PROVE  /\ Way \in Seq(Cells) /\ got \in Seq(Cells) /\ sent \in Nat /\ sent <= MaxMsgs
           /\ MaxMsgs \in Nat
<1>1. Way \in Seq(Cells)
  BY WayIs DEF WayHeld, Whole, Queue, Readers
<1> QED
  BY <1>1, MsgqAssumption DEF Whole, Queue, Owners

LEMMA MovesAccount ==
    ASSUME Whole, Moves
    PROVE  Account(Way', got', refused', freed', sent')
<1>1. /\ Way \in Seq(Cells) /\ got \in Seq(Cells) /\ sent \in Nat
      /\ Account(Way, got, refused, freed, sent)
  BY WholeFacts DEF Whole
<1>2. PICK w, g, r, f, n : w = Way /\ g = got /\ r = refused /\ f = freed /\ n = sent
  OBVIOUS
<1>3. /\ w \in Seq(Cells) /\ g \in Seq(Cells) /\ n \in Nat /\ Account(w, g, r, f, n)
  BY <1>1, <1>2
<1>4. CASE (Offered \/ Handed \/ Refused) /\ sent < MaxMsgs /\ sent' = sent + 1 /\ freed' = freed
  <2>0. n + 1 \in Cells /\ sent' = n + 1 /\ freed' = f
    BY <1>2, <1>3, <1>4, MsgqAssumption DEF Cells, Msg
  <2>1. Account(Append(w, n + 1), g, r, f, n + 1)
    BY <1>3, <2>0, AccountNew
  <2>2. Account(w, Append(g, n + 1), r, f, n + 1)
    BY <1>3, <2>0, AccountNew
  <2>3. Account(w, g, r \union {n + 1}, f, n + 1)
    BY <1>3, <2>0, AccountNew
  <2>4. CASE Offered
    <3>1. Way' = Append(w, n + 1) /\ got' = g /\ refused' = r
      BY <1>2, <2>4 DEF Offered
    <3> QED
      BY <2>0, <2>1, <3>1
  <2>5. CASE Handed
    <3>1. Way' = w /\ got' = Append(g, n + 1) /\ refused' = r
      BY <1>2, <2>5 DEF Handed
    <3> QED
      BY <2>0, <2>2, <3>1
  <2>6. CASE Refused
    <3>1. Way' = w /\ got' = g /\ refused' = r \union {n + 1}
      BY <1>2, <2>6 DEF Refused
    <3> QED
      BY <2>0, <2>3, <3>1
  <2> QED
    BY <1>4, <2>4, <2>5, <2>6
<1>5. CASE Received /\ sent' = sent /\ freed' = freed
  <2>1. w # <<>> /\ Way' = Tail(w) /\ got' = Append(g, Head(w)) /\ refused' = r
    BY <1>2, <1>5 DEF Received
  <2>2. Account(Tail(w), Append(g, Head(w)), r, f, n)
    BY <1>3, <2>1, AccountGet
  <2> QED
    BY <1>2, <1>5, <2>1, <2>2
<1>6. CASE Withdrawn /\ sent' = sent /\ freed' = freed
  <2>1. PICK i \in DOMAIN w : Way' = RemoveAt(w, i) /\ refused' = r \union {w[i]}
    BY <1>2, <1>6 DEF Withdrawn
  <2>2. i \in 1..Len(w)
    BY <1>3
  <2>3. IsInjective(w) /\ w[i] \in Range(w)
    BY <1>3 DEF Account, Range
  <2>4. IsInjective(RemoveAt(w, i)) /\ Range(RemoveAt(w, i)) = Range(w) \ {w[i]}
    BY <1>3, <2>2, <2>3, RemoveAtRange
  <2>5. PICK v : v = RemoveAt(w, i)
    OBVIOUS
  <2>6. /\ IsInjective(v) /\ Range(v) \subseteq Range(w) /\ {w[i]} \intersect {} = {}
        /\ Range(w) \ Range(v) = {w[i]} \union {}
    BY <2>3, <2>4, <2>5
  <2>7. Account(v, g, r \union {w[i]}, f \union {}, n)
    BY <1>3, <2>6, AccountDrop
  <2>8. f \union {} = f /\ got' = g
    BY <1>2, <1>6 DEF Withdrawn
  <2> QED
    BY <1>2, <1>6, <2>1, <2>5, <2>7, <2>8
<1>7. CASE Kept /\ sent' = sent /\ freed' = freed
  BY <1>1, <1>7 DEF Kept
<1>8. CASE Emptied /\ sent' = sent
  <2>1. PICK a, b : /\ Way' = <<>> /\ Range(w) = a \union b /\ a \intersect b = {}
                    /\ refused' = r \union a /\ freed' = f \union b /\ got' = g
    BY <1>2, <1>8 DEF Emptied
  <2>2. IsInjective(<<>>) /\ Range(<<>>) = {}
    BY DEF IsInjective, Range
  <2>3. PICK v : v = <<>>
    OBVIOUS
  <2>4. IsInjective(v) /\ Range(v) \subseteq Range(w) /\ Range(w) \ Range(v) = a \union b
    BY <2>1, <2>2, <2>3
  <2>5. Account(v, g, r \union a, f \union b, n)
    BY <1>3, <2>1, <2>4, AccountDrop
  <2> QED
    BY <1>2, <1>8, <2>1, <2>3, <2>5
<1> QED
  BY <1>4, <1>5, <1>6, <1>7, <1>8 DEF Moves

LEMMA WholeStep == Whole /\ [Next]_vars /\ [Fits]_vars => Whole' /\ Moves
<1> SUFFICES ASSUME Whole, [Next]_vars, [Fits]_vars PROVE Whole' /\ Moves
  OBVIOUS
<1>1. Readers /\ Queue /\ Account(Way, got, refused, freed, sent)
  BY DEF Whole
<1>2. Readers'
  BY <1>1, ReadersStep
<1>3. Fits
  BY DEF Fits, vars, ring
<1>4. Queue' /\ Moves
  <2>1. CASE \E w \in Writer, s \in BOOLEAN : nni_msgq_aio_put(w, s)
    BY <1>1, <1>2, <2>1, PutMoves
  <2>2. CASE \E r \in Reader, s \in BOOLEAN : nni_msgq_aio_get(r, s)
    BY <1>1, <1>2, <2>2, GetMoves
  <2>3. CASE nni_msgq_tryput
    BY <1>1, <1>2, <2>3, TryputMoves
  <2>4. CASE \E h \in Handle : nni_msgq_cancel(h)
    BY <1>1, <1>2, <2>4, CancelMoves
  <2>5. CASE nni_msgq_close \/ nni_msgq_fini
    BY <1>1, <1>2, <2>5, CloseMoves
  <2>6. CASE \E cap \in Caps : nni_msgq_resize(cap)
    BY <1>1, <1>2, <1>3, <2>6, ResizeMoves
  <2>7. CASE nni_msgq_get_pollable \/ UNCHANGED vars \/ \E h \in Handle : TakeCancel(h)
    BY <1>1, <2>7, RestMoves
  <2> QED
    BY <2>1, <2>2, <2>3, <2>4, <2>5, <2>6, <2>7 DEF Next
<1>5. Account(Way', got', refused', freed', sent')
  BY <1>4, MovesAccount
<1> QED
  BY <1>2, <1>4, <1>5 DEF Whole

\* Every message is at exactly one place, and none is lost or received twice, for
\* any readers, writers, sizes and number of messages, whatever the order of puts,
\* gets, cancellations and the close: as long as nni_msgq_resize has nothing to
\* drop.  When it has, its loop runs past the ring and this fails.
THEOREM ConservedHolds == Spec /\ [][Fits]_vars => []Conserved
<1>1. Whole => Conserved
  <2> SUFFICES ASSUME Whole PROVE Conserved
    OBVIOUS
  <2>1. Way \in Seq(Cells) /\ got \in Seq(Cells) /\ Account(Way, got, refused, freed, sent)
    BY WholeFacts DEF Whole
  <2>2. IsInjective(Way \o got) /\ Range(Way \o got) = Range(Way) \union Range(got)
    BY <2>1, AccountAll
  <2> QED
    BY <2>1, <2>2 DEF Conserved, Account
<1> QED
  BY <1>1, WholeInit, WholeStep, PTL DEF Spec

LEMMA MovesChannel ==
    ASSUME Whole, Moves
    PROVE  [C!Next]_(C!vars)
<1>1. Way \in Seq(Cells) /\ got \in Seq(Cells) /\ sent \in Nat
  BY WholeFacts
<1>2. CASE (Offered \/ Handed \/ Refused) /\ sent < MaxMsgs /\ sent' = sent + 1 /\ freed' = freed
  <2>1. sent + 1 \in Msg
    BY <1>1, <1>2, MsgqAssumption DEF Msg
  <2>2. CASE Offered
    BY <2>1, <2>2 DEF Offered, C!Next, C!Put
  <2>3. CASE Handed
    BY <2>1, <2>3 DEF Handed, C!Next, C!Pass
  <2>4. CASE Refused
    BY <2>4 DEF Refused, C!vars
  <2> QED
    BY <1>2, <2>2, <2>3, <2>4
<1>3. CASE Received
  BY <1>3 DEF Received, C!Next, C!Get
<1>4. CASE Withdrawn
  <2>1. PICK i \in DOMAIN Way : Way' = RemoveAt(Way, i) /\ got' = got
    BY <1>4 DEF Withdrawn
  <2>2. C!Withdraw(i)
    BY <2>1 DEF C!Withdraw, RemoveAt, C!RemoveAt
  <2> QED
    BY <2>2 DEF C!Next
<1>5. CASE Kept
  BY <1>5 DEF Kept, C!vars
<1>6. CASE Emptied
  <2>1. Way' = <<>> /\ got' = got
    BY <1>6 DEF Emptied
  <2>2. CASE Way = <<>>
    BY <2>1, <2>2 DEF C!vars
  <2>3. CASE Way # <<>>
    <3>1. PICK n \in Nat : n = Len(Way)
      BY <1>1
    <3>2. n \in DOMAIN Way
      BY <1>1, <2>3, <3>1
    <3>3. SubSeq(Way, n + 1, Len(Way)) = <<>>
      <4>1. /\ SubSeq(Way, n + 1, Len(Way)) \in Seq(Cells)
            /\ Len(SubSeq(Way, n + 1, Len(Way))) = 0
        BY <1>1, <3>1
      <4> QED
        BY <4>1, Short
    <3> QED
      BY <2>1, <3>2, <3>3 DEF C!Next, C!Drop
  <2> QED
    BY <2>2, <2>3
<1> QED
  BY <1>2, <1>3, <1>4, <1>5, <1>6 DEF Moves

\* A message queue that never has to drop messages on a resize implements the
\* channel: messages come out in the order they went in, those of the waiting
\* writers after the buffered ones, and a reader gets the first of them all.
THEOREM ChannelHolds == Spec /\ [][Fits]_vars => ChannelSpec
<1>1. Init => C!Init
  <2> SUFFICES ASSUME Init PROVE C!Init
    OBVIOUS
  <2>1. Whole /\ mq_len = 0 /\ mq_aio_putq = <<>> /\ got = <<>>
    BY WholeInit DEF Init
  <2>2. Way \in Seq(Cells) /\ Len(Way) = 0
    BY <2>1, WayIs DEF WayHeld, Whole, Queue, Readers
  <2>3. Way = <<>>
    BY <2>2, Short
  <2> QED
    BY <2>1, <2>3 DEF C!Init
<1>2. Whole /\ Moves => [C!Next]_(C!vars)
  BY MovesChannel
<1> QED
  BY <1>1, <1>2, WholeInit, WholeStep, PTL DEF Spec, ChannelSpec, C!Spec

\* What is true of the flags.
Flags ==
    /\ mq_closed \in BOOLEAN /\ live \in BOOLEAN /\ fill \in Fills
    /\ mq_sendable \in BOOLEAN /\ mq_recvable \in BOOLEAN /\ polled \in BOOLEAN

LEMMA FlagsStep == Flags /\ [Next]_vars => Flags'
<1> SUFFICES ASSUME Flags, [Next]_vars PROVE Flags'
  OBVIOUS
<1>1. CASE nni_msgq_run_notify /\ UNCHANGED <<mq_closed, live, fill>>
  BY <1>1 DEF Flags, nni_msgq_run_notify
<1>2. CASE UNCHANGED <<polls, mq_closed, live, fill>>
  BY <1>2 DEF Flags, polls
<1>3. CASE \E w \in Writer, s \in BOOLEAN : nni_msgq_aio_put(w, s)
  BY <1>1, <1>2, <1>3 DEF nni_msgq_aio_put
<1>4. CASE \E r \in Reader, s \in BOOLEAN : nni_msgq_aio_get(r, s)
  BY <1>1, <1>4 DEF nni_msgq_aio_get
<1>5. CASE nni_msgq_tryput
  BY <1>1, <1>2, <1>5 DEF nni_msgq_tryput
<1>6. CASE \E h \in Handle : nni_msgq_cancel(h)
  BY <1>1, <1>6 DEF nni_msgq_cancel
<1>7. CASE \E h \in Handle : TakeCancel(h)
  BY <1>2, <1>7 DEF TakeCancel
<1>8. CASE nni_msgq_close
  BY <1>8 DEF nni_msgq_close, Flags, polls
<1>9. CASE nni_msgq_fini
  BY <1>9 DEF nni_msgq_fini, Flags, polls
<1>10. CASE nni_msgq_get_pollable
  BY <1>10 DEF nni_msgq_get_pollable, Flags
<1>11. CASE \E cap \in Caps : nni_msgq_resize(cap)
  BY <1>2, <1>11 DEF nni_msgq_resize
<1>12. CASE UNCHANGED vars
  BY <1>2, <1>12 DEF vars
<1> QED
  BY <1>3, <1>4, <1>5, <1>6, <1>7, <1>8, <1>9, <1>10, <1>11, <1>12 DEF Next

\* The indices stay in the ring and the lists hold each handle once, on a queue
\* whose resizes have nothing to drop.
THEOREM TypeCorrect == Spec /\ [][Fits]_vars => []TypeOK
<1>1. Init => Flags
  BY DEF Init, Flags
<1>2. Whole /\ Flags => TypeOK
  <2> SUFFICES ASSUME Whole, Flags PROVE TypeOK
    OBVIOUS
  <2>1. /\ mq_cap \in Nat /\ mq_alloc \in Nat /\ mq_len \in 0..mq_alloc
        /\ mq_get \in 0..(mq_alloc - 1) /\ mq_put \in 0..(mq_alloc - 1)
        /\ mq_msgs \in [0..(mq_alloc - 1) -> Msg \union {NoMsg}]
    BY RingFacts DEF Whole, Queue, Ring
  <2>2. /\ IsInjective(mq_aio_putq) /\ Range(mq_aio_putq) \subseteq Writer
        /\ IsInjective(mq_aio_getq) /\ Range(mq_aio_getq) \subseteq Reader
        /\ a_cancel_fn \in [Handle -> BOOLEAN] /\ cancelling \subseteq Handle
    BY ListsDisjoint DEF Whole, Readers, Lists
  <2>3. a_msg \in [Writer -> Msg \union {NoMsg}] /\ sent \in 0..MaxMsgs /\ got \in Seq(Cells)
    BY DEF Whole, Queue, Owners, Cells
  <2>4. 1..sent \subseteq Msg
    BY <2>3, MsgqAssumption DEF Msg
  <2>5. Range(got) \subseteq Msg /\ refused \subseteq Msg /\ freed \subseteq Msg
    BY <2>4 DEF Whole, Account
  <2>6. got \in Seq(Msg)
    <3>1. PICK n \in Nat : n = Len(got)
      BY <2>3
    <3>2. DOMAIN got = 1..n /\ got \in [1..n -> Cells]
      BY <2>3, <3>1
    <3>3. \A k \in 1..n : got[k] \in Msg
      BY <2>5, <3>2 DEF Range
    <3>4. got \in [1..n -> Msg]
      BY <3>2, <3>3
    <3> QED
      BY <3>4
  <2> QED
    BY <2>1, <2>2, <2>3, <2>5, <2>6 DEF TypeOK, Flags
<1> QED
  BY <1>1, <1>2, FlagsStep, WholeInit, WholeStep, PTL DEF Spec

\* A queue that only grows.
Grows == mq_cap' >= mq_cap

LEMMA GrowsFits == Whole /\ [Next]_vars /\ [Grows]_vars => [Fits]_vars
<1> SUFFICES ASSUME Whole, [Next]_vars, Grows PROVE Fits
  OBVIOUS
<1>1. mq_len \in Nat /\ mq_cap \in Nat /\ mq_len <= mq_cap + 1
  BY DEF Whole, Queue, Ring
<1>2. mq_cap' \in Nat
  BY ReadersStep DEF Whole, Readers, Lists
<1>3. PICK c \in Nat, d \in Nat, n \in Nat : c = mq_cap' /\ d = mq_cap /\ n = mq_len
  BY <1>1, <1>2
<1>4. c >= d /\ n <= d + 1
  BY <1>1, <1>3 DEF Grows
<1>5. n <= c + 1
  BY <1>4
<1> QED
  BY <1>3, <1>5 DEF Fits

LEMMA PollsStep ==
    ASSUME Whole, Whole', PollsTrue, [Next]_vars, [Grows]_vars
    PROVE  PollsTrue'
<1>1. CASE nni_msgq_run_notify
  BY <1>1 DEF nni_msgq_run_notify, PollsTrue, Sendable, Recvable
<1>2. CASE UNCHANGED <<ring, waiters, polls, mq_closed, live>>
  <2>1. UNCHANGED <<mq_len, mq_cap, mq_aio_putq, mq_aio_getq, mq_sendable, mq_recvable, polled,
                    mq_closed, live>>
    BY <1>2 DEF ring, waiters, polls
  <2> QED
    BY <2>1 DEF PollsTrue, Sendable, Recvable
<1>3. CASE \E w \in Writer, s \in BOOLEAN : nni_msgq_aio_put(w, s)
  BY <1>1, <1>2, <1>3 DEF nni_msgq_aio_put
<1>4. CASE \E r \in Reader, s \in BOOLEAN : nni_msgq_aio_get(r, s)
  BY <1>1, <1>4 DEF nni_msgq_aio_get
<1>5. CASE nni_msgq_tryput
  BY <1>1, <1>2, <1>5 DEF nni_msgq_tryput
<1>6. CASE \E h \in Handle : nni_msgq_cancel(h)
  BY <1>1, <1>6 DEF nni_msgq_cancel
<1>7. CASE \E h \in Handle : TakeCancel(h)
  <2>1. UNCHANGED <<mq_len, mq_cap, mq_aio_putq, mq_aio_getq, mq_sendable, mq_recvable, polled,
                    mq_closed, live>>
    BY <1>7 DEF TakeCancel, ring, polls
  <2> QED
    BY <2>1 DEF PollsTrue, Sendable, Recvable
<1>8. CASE nni_msgq_close \/ nni_msgq_fini
  BY <1>8 DEF nni_msgq_close, nni_msgq_fini, PollsTrue
<1>9. CASE nni_msgq_get_pollable
  <2>1. UNCHANGED <<mq_len, mq_cap, mq_aio_putq, mq_aio_getq>>
    BY <1>9 DEF nni_msgq_get_pollable, ring, waiters
  <2> QED
    BY <1>9, <2>1 DEF nni_msgq_get_pollable, PollsTrue, Sendable, Recvable
<1>10. CASE \E cap \in Caps : nni_msgq_resize(cap)
  <2>1. PICK cap \in Caps : nni_msgq_resize(cap)
    BY <1>10
  <2>2. /\ UNCHANGED <<mq_aio_putq, mq_aio_getq, mq_sendable, mq_recvable, polled, mq_closed, live>>
        /\ cap \in Nat /\ mq_cap' = cap
    BY <2>1, MsgqAssumption DEF nni_msgq_resize, waiters, polls
  <2>3. mq_len \in Nat /\ mq_cap \in Nat /\ mq_len <= mq_cap + 1 /\ Ring
    BY DEF Whole, Queue, Ring
  <2>4. cap >= mq_cap
    BY <2>2, <2>3 DEF Grows, vars, ring
  <2>5. mq_len <= cap + 1
    BY <2>2, <2>3, <2>4
  <2>6. mq_len' = mq_len
    BY <2>1, <2>2, <2>3, <2>5, ResizeRing
  <2>7. mq_len < mq_cap => mq_len' < mq_cap'
    BY <2>2, <2>3, <2>4, <2>6
  <2>8. Sendable => Sendable'
    BY <2>2, <2>7 DEF Sendable
  <2>9. Recvable' = Recvable
    BY <2>2, <2>6 DEF Recvable
  <2> QED
    BY <2>2, <2>8, <2>9 DEF PollsTrue
<1>11. CASE UNCHANGED vars
  BY <1>2, <1>11 DEF vars
<1> QED
  BY <1>3, <1>4, <1>5, <1>6, <1>7, <1>8, <1>9, <1>10, <1>11 DEF Next

\* The descriptors tell the truth on a queue that only grows: every call that
\* changes what they show brings them up to date, and the one that does not,
\* nni_msgq_resize, can then only make room.
THEOREM PollsTrueHolds == Spec /\ [][Grows]_vars => []PollsTrue
<1>1. Init => PollsTrue
  BY DEF Init, PollsTrue
<1>2. Whole /\ Whole' /\ PollsTrue /\ [Next]_vars /\ [Grows]_vars => PollsTrue'
  BY PollsStep
<1> QED
  BY <1>1, <1>2, GrowsFits, WholeInit, WholeStep, PTL DEF Spec
=============================================================================
