----------------------------- MODULE MsgqProofs -----------------------------
(***************************************************************************)
(* Proofs about the message queue, for any readers and writers and any     *)
(* number of messages: a reader never waits for a message that is there,   *)
(* and never on a handle that cannot be cancelled, whatever the queue is   *)
(* resized to.                                                             *)
(***************************************************************************)
EXTENDS Msgq, SequenceTheorems, TLAPS

-----------------------------------------------------------------------------
(* The lists of waiting handles.                                           *)

\* The lesser of two numbers.
LEMMA MinOf ==
    ASSUME NEW a \in Int, NEW b \in Int
    PROVE  Min({a, b}) = IF a <= b THEN a ELSE b
<1>1. CASE a <= b
  <2>1. a \in {a, b} /\ \A y \in {a, b} : a =< y
    BY <1>1
  <2>2. \A x \in {a, b} : (\A y \in {a, b} : x =< y) => x = a
    BY <1>1
  <2> QED
    BY <1>1, <2>1, <2>2 DEF Min
<1>2. CASE ~(a <= b)
  <2>1. b \in {a, b} /\ \A y \in {a, b} : b =< y
    BY <1>2
  <2>2. \A x \in {a, b} : (\A y \in {a, b} : x =< y) => x = b
    BY <1>2
  <2> QED
    BY <1>2, <2>1, <2>2 DEF Min
<1> QED
  BY <1>1, <1>2

\* The greater of two numbers.
LEMMA MaxOf ==
    ASSUME NEW a \in Int, NEW b \in Int
    PROVE  Max({a, b}) = IF a >= b THEN a ELSE b
<1>1. CASE a >= b
  <2>1. a \in {a, b} /\ \A y \in {a, b} : a >= y
    BY <1>1
  <2>2. \A x \in {a, b} : (\A y \in {a, b} : x >= y) => x = a
    BY <1>1
  <2> QED
    BY <1>1, <2>1, <2>2 DEF Max
<1>2. CASE ~(a >= b)
  <2>1. b \in {a, b} /\ \A y \in {a, b} : b >= y
    BY <1>2
  <2>2. \A x \in {a, b} : (\A y \in {a, b} : x >= y) => x = b
    BY <1>2
  <2> QED
    BY <1>2, <2>1, <2>2 DEF Max
<1> QED
  BY <1>1, <1>2

\* A handle is put at the end of a list it is not on.
LEMMA AppendFacts ==
    ASSUME NEW S, NEW s \in Seq(S), NEW h \in S, IsInjective(s), h \notin Range(s)
    PROVE  /\ Append(s, h) \in Seq(S) /\ IsInjective(Append(s, h))
           /\ Range(Append(s, h)) = Range(s) \union {h}
           /\ Len(Append(s, h)) = Len(s) + 1
<1>1. /\ Append(s, h) \in Seq(S) /\ Len(Append(s, h)) = Len(s) + 1 /\ Len(s) \in Nat
      /\ \A i \in 1..Len(s) : Append(s, h)[i] = s[i]
      /\ Append(s, h)[Len(s) + 1] = h
      /\ DOMAIN Append(s, h) = 1..(Len(s) + 1) /\ DOMAIN s = 1..Len(s)
  OBVIOUS
<1>2. IsInjective(Append(s, h))
  BY <1>1 DEF IsInjective, Range
<1>3. Range(Append(s, h)) = Range(s) \union {h}
  BY <1>1 DEF Range
<1> QED
  BY <1>1, <1>2, <1>3

\* The first n handles of a list are finished, the others stay.
LEMMA FromFacts ==
    ASSUME NEW S, NEW s \in Seq(S), IsInjective(s), NEW n \in 0..Len(s)
    PROVE  /\ From(s, n) \in Seq(S) /\ IsInjective(From(s, n))
           /\ Len(From(s, n)) = Len(s) - n
           /\ SubSeq(s, 1, n) \in Seq(S) /\ Len(SubSeq(s, 1, n)) = n
           /\ Range(From(s, n)) \subseteq Range(s) /\ Range(SubSeq(s, 1, n)) \subseteq Range(s)
           /\ Range(From(s, n)) \intersect Range(SubSeq(s, 1, n)) = {}
<1> DEFINE f == From(s, n)
           g == SubSeq(s, 1, n)
<1>1. /\ f \in Seq(S) /\ Len(f) = Len(s) - n /\ Len(s) \in Nat
      /\ DOMAIN f = 1..(Len(s) - n) /\ \A i \in 1..(Len(s) - n) : f[i] = s[n + i]
      /\ DOMAIN s = 1..Len(s) /\ n \in Nat
  BY DEF From
<1>2. /\ g \in Seq(S) /\ Len(g) = n /\ DOMAIN g = 1..n /\ \A i \in 1..n : g[i] = s[i]
  OBVIOUS
<1> HIDE DEF f, g
<1>3. IsInjective(f)
  <2> SUFFICES ASSUME NEW i \in 1..(Len(s) - n), NEW j \in 1..(Len(s) - n), f[i] = f[j]
               PROVE  i = j
    BY <1>1 DEF IsInjective
  <2>1. n + i \in 1..Len(s) /\ n + j \in 1..Len(s) /\ s[n + i] = s[n + j]
    BY <1>1
  <2>2. n + i = n + j
    BY <1>1, <2>1 DEF IsInjective
  <2> QED
    BY <1>1, <2>2
<1>4. Range(f) \subseteq Range(s) /\ Range(g) \subseteq Range(s)
  <2>1. \A i \in 1..(Len(s) - n) : n + i \in 1..Len(s) /\ f[i] = s[n + i]
    BY <1>1
  <2>2. \A i \in 1..n : i \in 1..Len(s) /\ g[i] = s[i]
    BY <1>1, <1>2
  <2>3. \A x \in Range(f) : x \in Range(s)
    BY <1>1, <2>1 DEF Range
  <2>4. \A x \in Range(g) : x \in Range(s)
    BY <1>1, <1>2, <2>2 DEF Range
  <2> QED
    BY <2>3, <2>4
<1>5. Range(f) \intersect Range(g) = {}
  <2> SUFFICES ASSUME NEW i \in 1..(Len(s) - n), NEW j \in 1..n, f[i] = g[j] PROVE FALSE
    BY <1>1, <1>2, SMTT(60) DEF Range
  <2>1. n + i \in 1..Len(s) /\ j \in 1..Len(s) /\ n + i # j /\ s[n + i] = s[j]
    BY <1>1, <1>2
  <2> QED
    BY <1>1, <2>1 DEF IsInjective
<1> QED
  BY <1>1, <1>2, <1>3, <1>4, <1>5 DEF f, g

\* A sequence without its i-th element.
LEMMA RemoveAtFacts ==
    ASSUME NEW S, NEW s \in Seq(S), NEW i \in 1..Len(s)
    PROVE  /\ RemoveAt(s, i) \in Seq(S) /\ Len(RemoveAt(s, i)) = Len(s) - 1
           /\ DOMAIN RemoveAt(s, i) = 1..(Len(s) - 1)
           /\ \A k \in 1..(Len(s) - 1) : RemoveAt(s, i)[k] = IF k < i THEN s[k] ELSE s[k + 1]
<1>0. DOMAIN s = 1..Len(s) /\ Len(s) \in Nat
  OBVIOUS
<1> DEFINE a == SubSeq(s, 1, i - 1)
           b == SubSeq(s, i + 1, Len(s))
           t == a \o b
<1>3. RemoveAt(s, i) = t
  BY DEF RemoveAt
<1>4. /\ a \in Seq(S) /\ Len(a) = i - 1 /\ \A k \in 1..(i - 1) : a[k] = s[k]
      /\ b \in Seq(S) /\ Len(b) = Len(s) - i /\ \A k \in 1..(Len(s) - i) : b[k] = s[i + k]
  <2>1. /\ i \in Int /\ i - 1 \in Int /\ i + 1 \in Int /\ 1 \in Int /\ Len(s) \in Int
        /\ \A k \in 1..(i - 1) : s[k] \in S
        /\ \A k \in (i + 1)..Len(s) : s[k] \in S
    BY <1>0
  <2>2. /\ a \in Seq(S) /\ Len(a) = IF 1 <= i - 1 THEN (i - 1) - 1 + 1 ELSE 0
        /\ \A k \in 1..((i - 1) - 1 + 1) : a[k] = s[1 + k - 1]
    BY <2>1, SubSeqProperties
  <2>3. /\ b \in Seq(S) /\ Len(b) = IF i + 1 <= Len(s) THEN Len(s) - (i + 1) + 1 ELSE 0
        /\ \A k \in 1..(Len(s) - (i + 1) + 1) : b[k] = s[(i + 1) + k - 1]
    BY <2>1, SubSeqProperties
  <2>4. \A k \in Int : 1 + k - 1 = k /\ (i + 1) + k - 1 = i + k
    BY <2>1
  <2> HIDE DEF a, b
  <2>5. Len(a) = i - 1 /\ \A k \in 1..(i - 1) : a[k] = s[k]
    BY <1>0, <2>2, <2>4
  <2>6. Len(b) = Len(s) - i /\ \A k \in 1..(Len(s) - i) : b[k] = s[i + k]
    <3>0. i \in Int /\ Len(s) \in Int /\ i <= Len(s)
      BY <1>0
    <3>1. Len(b) = Len(s) - i /\ Len(s) - (i + 1) + 1 = Len(s) - i
      <4>1. CASE i + 1 <= Len(s)
        BY <2>3, <3>0, <4>1
      <4>2. CASE ~(i + 1 <= Len(s))
        BY <2>3, <3>0, <4>2
      <4> QED
        BY <4>1, <4>2
    <3>2. \A k \in 1..(Len(s) - i) : b[k] = s[(i + 1) + k - 1]
      BY <2>3, <3>1
    <3> QED
      BY <2>4, <3>1, <3>2
  <2> QED
    BY <2>2, <2>3, <2>5, <2>6
<1> HIDE DEF a, b
<1>5. /\ t \in Seq(S) /\ Len(t) = Len(s) - 1 /\ DOMAIN t = 1..(Len(s) - 1)
      /\ \A k \in 1..(Len(s) - 1) : t[k] = IF k < i THEN s[k] ELSE s[k + 1]
  <2>1. /\ t \in Seq(S) /\ Len(t) = Len(a) + Len(b)
        /\ \A k \in 1..(Len(a) + Len(b)) : t[k] = IF k <= Len(a) THEN a[k] ELSE b[k - Len(a)]
    BY <1>4, ConcatProperties
  <2> HIDE DEF t
  <2>2. Len(t) = Len(s) - 1 /\ DOMAIN t = 1..(Len(s) - 1)
    BY <1>0, <1>4, <2>1
  <2>3. ASSUME NEW k \in 1..(Len(s) - 1)
        PROVE  t[k] = IF k < i THEN s[k] ELSE s[k + 1]
    <3>0. t[k] = IF k <= i - 1 THEN a[k] ELSE b[k - (i - 1)]
      BY <1>0, <1>4, <2>1
    <3>1. CASE k < i
      <4>1. k \in 1..(i - 1)
        BY <3>1
      <4> QED
        BY <1>4, <3>0, <3>1, <4>1
    <3>2. CASE ~(k < i)
      <4>1. k - (i - 1) \in 1..(Len(s) - i) /\ i + (k - (i - 1)) = k + 1 /\ ~(k <= i - 1)
        BY <1>0, <3>2
      <4>2. b[k - (i - 1)] = s[i + (k - (i - 1))]
        BY <1>4, <4>1
      <4> QED
        BY <3>0, <3>2, <4>1, <4>2
    <3> QED
      BY <3>1, <3>2
  <2> QED
    BY <2>1, <2>2, <2>3
<1> HIDE DEF t
<1> QED
  BY <1>3, <1>5

LEMMA RemoveAtRange ==
    ASSUME NEW S, NEW s \in Seq(S), NEW i \in 1..Len(s), IsInjective(s)
    PROVE  /\ IsInjective(RemoveAt(s, i))
           /\ Range(RemoveAt(s, i)) = Range(s) \ {s[i]}
<1>0. DOMAIN s = 1..Len(s) /\ Len(s) \in Nat
  OBVIOUS
<1>1. PICK t, h : t = RemoveAt(s, i) /\ h = s[i]
  OBVIOUS
<1>2. s[i] = h
  BY <1>1
<1>5. /\ t \in Seq(S) /\ Len(t) = Len(s) - 1 /\ DOMAIN t = 1..(Len(s) - 1)
      /\ \A k \in 1..(Len(s) - 1) : t[k] = IF k < i THEN s[k] ELSE s[k + 1]
  BY <1>1, RemoveAtFacts
<1>6. IsInjective(t)
  <2> SUFFICES ASSUME NEW j \in 1..(Len(s) - 1), NEW k \in 1..(Len(s) - 1), t[j] = t[k]
               PROVE  j = k
    BY <1>5 DEF IsInjective
  <2>1. \A x, y \in 1..Len(s) : s[x] = s[y] => x = y
    BY <1>0 DEF IsInjective
  <2>2. PICK x \in 1..Len(s) : x = (IF j < i THEN j ELSE j + 1) /\ t[j] = s[x]
    BY <1>0, <1>5
  <2>3. PICK y \in 1..Len(s) : y = (IF k < i THEN k ELSE k + 1) /\ t[k] = s[y]
    BY <1>0, <1>5
  <2>4. x = y
    BY <2>1, <2>2, <2>3
  <2> QED
    BY <2>2, <2>3, <2>4
<1>7. Range(t) \subseteq Range(s) \ {h}
  <2> SUFFICES ASSUME NEW k \in 1..(Len(s) - 1) PROVE t[k] \in Range(s) /\ t[k] # h
    BY <1>5 DEF Range
  <2>1. PICK j \in 1..Len(s) : j # i /\ t[k] = s[j]
    BY <1>0, <1>5
  <2> QED
    BY <1>0, <1>2, <2>1 DEF Range, IsInjective
<1>8. Range(s) \ {h} \subseteq Range(t)
  <2> SUFFICES ASSUME NEW k \in 1..Len(s), s[k] # h PROVE s[k] \in Range(t)
    BY <1>0 DEF Range
  <2>1. CASE k < i
    BY <1>0, <1>5, <2>1 DEF Range
  <2>2. CASE k > i
    <3>1. k - 1 \in 1..(Len(s) - 1) /\ ~(k - 1 < i) /\ k = (k - 1) + 1
      BY <2>2
    <3> QED
      BY <1>5, <3>1 DEF Range
  <2> QED
    BY <1>2, <2>1, <2>2
<1> QED
  BY <1>1, <1>6, <1>7, <1>8

\* A cancelled handle is taken off its list.
LEMMA RemoveFacts ==
    ASSUME NEW S, NEW s \in Seq(S), IsInjective(s), NEW h
    PROVE  /\ nni_aio_list_remove(s, h) \in Seq(S) /\ IsInjective(nni_aio_list_remove(s, h))
           /\ Range(nni_aio_list_remove(s, h)) = Range(s) \ {h}
           /\ s = <<>> => nni_aio_list_remove(s, h) = <<>>
<1>1. CASE h \notin Range(s)
  BY <1>1 DEF nni_aio_list_remove
<1>2. CASE h \in Range(s)
  <2>0. DOMAIN s = 1..Len(s) /\ Len(s) \in Nat
    OBVIOUS
  <2>1. PICK i \in 1..Len(s) : i = CHOOSE j \in DOMAIN s : s[j] = h
    BY <1>2, <2>0 DEF Range
  <2>2. s[i] = h
    BY <1>2, <2>0, <2>1 DEF Range
  <2>3. nni_aio_list_remove(s, h) = RemoveAt(s, i)
    BY <1>2, <2>1 DEF nni_aio_list_remove
  <2>4. RemoveAt(s, i) \in Seq(S)
    BY RemoveAtFacts
  <2>5. IsInjective(RemoveAt(s, i)) /\ Range(RemoveAt(s, i)) = Range(s) \ {s[i]}
    BY RemoveAtRange
  <2>6. s # <<>>
    BY <1>2, <2>0 DEF Range
  <2> QED
    BY <2>2, <2>3, <2>4, <2>5, <2>6
<1> QED
  BY <1>1, <1>2

-----------------------------------------------------------------------------
(* Readers: whatever the sizes.                                            *)

Lists ==
    /\ mq_aio_putq \in Seq(Writer) /\ IsInjective(mq_aio_putq)
    /\ mq_aio_getq \in Seq(Reader) /\ IsInjective(mq_aio_getq)
    /\ a_cancel_fn \in [Handle -> BOOLEAN] /\ cancelling \subseteq Handle
    /\ mq_len \in Nat /\ mq_cap \in Nat

\* The inductive invariant: a reader that waits finds nothing to read, and so
\* one whose schedule was refused, who only goes on if there is something to
\* read, never joins those who wait.
Readers == Lists /\ ReadersWaitForMessages /\ ReadersCancelable

\* A list of readers and one of writers have no handle in common.
LEMMA ListsDisjoint ==
    ASSUME NEW s \in Seq(Writer), NEW t \in Seq(Reader)
    PROVE  Range(s) \subseteq Writer /\ Range(t) \subseteq Reader /\ Range(s) \intersect Range(t) = {}
           /\ Writer \subseteq Handle /\ Reader \subseteq Handle
<1>1. Range(s) \subseteq Writer /\ Range(t) \subseteq Reader
  BY DEF Range
<1> QED
  BY <1>1, MsgqAssumption DEF Handle

\* What finishing handles does to their routines.
LEMMA FinishedFacts ==
    ASSUME NEW fn \in [Handle -> BOOLEAN], NEW s
    PROVE  /\ Finished(fn, s) \in [Handle -> BOOLEAN]
           /\ \A h \in Handle : h \notin Range(s) => Finished(fn, s)[h] = fn[h]
BY DEF Finished

\* nni_msgq_run_putq on the lists.
LEMMA PutqLists ==
    ASSUME Readers, NEW w \in Writer, w \notin Range(mq_aio_putq), NEW b \in BOOLEAN, NEW msg,
           nni_msgq_run_putq(Append(mq_aio_putq, w), msg, [a_cancel_fn EXCEPT ![w] = b]),
           UNCHANGED cancelling
    PROVE  Readers'
<1> DEFINE puts == Append(mq_aio_putq, w)
           fn == [a_cancel_fn EXCEPT ![w] = b]
           served == Min({Len(puts), Len(mq_aio_getq)})
           stored == Min({Len(puts) - served, Max({0, mq_cap - mq_len})})
           gone == SubSeq(puts, 1, served + stored)
<1>1. /\ mq_aio_putq \in Seq(Writer) /\ IsInjective(mq_aio_putq)
      /\ mq_aio_getq \in Seq(Reader) /\ IsInjective(mq_aio_getq)
      /\ a_cancel_fn \in [Handle -> BOOLEAN] /\ cancelling \subseteq Handle
      /\ mq_len \in Nat /\ mq_cap \in Nat
      /\ Len(mq_aio_putq) \in Nat /\ Len(mq_aio_getq) \in Nat
  BY DEF Readers, Lists
<1>2. puts \in Seq(Writer) /\ IsInjective(puts) /\ Len(puts) = Len(mq_aio_putq) + 1
  BY <1>1, AppendFacts
<1>3. fn \in [Handle -> BOOLEAN] /\ \A r \in Reader : fn[r] = a_cancel_fn[r]
  BY <1>1, MsgqAssumption DEF Handle
<1>4. /\ Store(Msgs(From(gone, served), msg))
      /\ mq_aio_putq' = From(puts, served + stored)
      /\ mq_aio_getq' = From(mq_aio_getq, served)
      /\ a_cancel_fn' = Finished(Finished(fn, gone), SubSeq(mq_aio_getq, 1, served))
  BY DEF nni_msgq_run_putq
<1> HIDE DEF puts, fn
<1>5. served = (IF Len(puts) <= Len(mq_aio_getq) THEN Len(puts) ELSE Len(mq_aio_getq))
  BY <1>1, <1>2, MinOf
<1>6. served \in 0..Len(puts) /\ served \in 0..Len(mq_aio_getq) /\ Len(puts) \in Nat
  BY <1>1, <1>2, <1>5
<1> HIDE DEF served
<1>7. Max({0, mq_cap - mq_len}) = IF 0 >= mq_cap - mq_len THEN 0 ELSE mq_cap - mq_len
  BY <1>1, MaxOf
<1>8. PICK room \in Nat : room = Max({0, mq_cap - mq_len})
  BY <1>1, <1>7
<1>9. stored = IF Len(puts) - served <= room THEN Len(puts) - served ELSE room
  <2>1. stored = Min({Len(puts) - served, room})
    BY <1>8
  <2>2. Len(puts) - served \in Int /\ room \in Int
    BY <1>6
  <2> HIDE DEF stored
  <2> QED
    BY <2>1, <2>2, MinOf
<1>10. stored \in Nat /\ served + stored \in 0..Len(puts)
  BY <1>6, <1>8, <1>9
<1> HIDE DEF stored
<1>11. /\ mq_aio_putq' \in Seq(Writer) /\ IsInjective(mq_aio_putq')
       /\ Len(mq_aio_putq') = Len(puts) - (served + stored) /\ gone \in Seq(Writer)
       /\ Len(gone) = served + stored
  BY <1>2, <1>4, <1>10, FromFacts
<1>12. /\ mq_aio_getq' \in Seq(Reader) /\ IsInjective(mq_aio_getq')
       /\ Len(mq_aio_getq') = Len(mq_aio_getq) - served
       /\ Range(mq_aio_getq') \subseteq Range(mq_aio_getq)
       /\ Range(mq_aio_getq') \intersect Range(SubSeq(mq_aio_getq, 1, served)) = {}
  BY <1>1, <1>4, <1>6, FromFacts
<1> HIDE DEF gone
<1>13. /\ a_cancel_fn' \in [Handle -> BOOLEAN]
       /\ \A r \in Range(mq_aio_getq') : a_cancel_fn'[r] = a_cancel_fn[r]
  <2>1. Finished(fn, gone) \in [Handle -> BOOLEAN]
        /\ \A h \in Handle : h \notin Range(gone) => Finished(fn, gone)[h] = fn[h]
    BY <1>3, FinishedFacts
  <2>2. a_cancel_fn' \in [Handle -> BOOLEAN]
        /\ \A h \in Handle : h \notin Range(SubSeq(mq_aio_getq, 1, served))
                             => a_cancel_fn'[h] = Finished(fn, gone)[h]
    BY <1>4, <2>1, FinishedFacts
  <2>3. \A r \in Range(mq_aio_getq') : r \in Reader /\ r \in Handle /\ r \notin Range(gone)
                                       /\ r \notin Range(SubSeq(mq_aio_getq, 1, served))
    BY <1>11, <1>12, ListsDisjoint
  <2> QED
    BY <1>3, <2>1, <2>2, <2>3
<1>14. mq_len' = mq_len + stored /\ mq_cap' = mq_cap
  <2>1. mq_len' = mq_len + Len(Msgs(From(gone, served), msg)) /\ mq_cap' = mq_cap
    BY <1>4 DEF Store
  <2>2. Len(From(gone, served)) = stored
    BY <1>6, <1>10, <1>11 DEF From
  <2>3. Len(Msgs(From(gone, served), msg)) = stored
    BY <1>10, <2>2 DEF Msgs
  <2> QED
    BY <2>1, <2>3
<1>15. Lists'
  BY <1>1, <1>10, <1>11, <1>12, <1>13, <1>14 DEF Lists
<1>16. ReadersWaitForMessages'
  <2> SUFFICES ASSUME mq_aio_getq' # <<>> PROVE mq_len' = 0 /\ mq_aio_putq' = <<>>
    BY DEF ReadersWaitForMessages
  <2>1. Len(mq_aio_getq') # 0
    BY <1>12
  <2>2. mq_aio_getq # <<>> /\ served = Len(puts)
    BY <1>1, <1>5, <1>6, <1>12, <2>1
  <2>3. mq_len = 0
    BY <2>2 DEF Readers, ReadersWaitForMessages
  <2>4. stored = 0 /\ Len(mq_aio_putq') = 0
    BY <1>6, <1>8, <1>9, <1>11, <2>2
  <2> QED
    BY <1>11, <1>14, <2>3, <2>4
<1>17. ReadersCancelable'
  BY <1>12, <1>13 DEF Readers, ReadersCancelable
<1> QED
  BY <1>15, <1>16, <1>17 DEF Readers

\* nni_msgq_run_getq on the lists: the reader r was scheduled (b), or there is
\* something for it to read.
LEMMA GetqLists ==
    ASSUME Readers, NEW r \in Reader, r \notin Range(mq_aio_getq), NEW b \in BOOLEAN,
           b \/ ~GetRefused,
           nni_msgq_run_getq(Append(mq_aio_getq, r), [a_cancel_fn EXCEPT ![r] = b]),
           UNCHANGED cancelling
    PROVE  Readers'
<1> DEFINE gets == Append(mq_aio_getq, r)
           fn == [a_cancel_fn EXCEPT ![r] = b]
           fetched == Min({Len(gets), mq_len})
           passed == Passed(Len(gets) - fetched)
           gone == SubSeq(mq_aio_putq, 1, passed)
<1>1. /\ mq_aio_putq \in Seq(Writer) /\ IsInjective(mq_aio_putq)
      /\ mq_aio_getq \in Seq(Reader) /\ IsInjective(mq_aio_getq)
      /\ a_cancel_fn \in [Handle -> BOOLEAN] /\ cancelling \subseteq Handle
      /\ mq_len \in Nat /\ mq_cap \in Nat
      /\ Len(mq_aio_putq) \in Nat /\ Len(mq_aio_getq) \in Nat
  BY DEF Readers, Lists
<1>2. /\ gets \in Seq(Reader) /\ IsInjective(gets) /\ Len(gets) = Len(mq_aio_getq) + 1
      /\ Range(gets) = Range(mq_aio_getq) \union {r}
  BY <1>1, AppendFacts
<1>3. /\ fn \in [Handle -> BOOLEAN] /\ fn[r] = b
      /\ \A h \in Handle : h # r => fn[h] = a_cancel_fn[h]
  BY <1>1, MsgqAssumption DEF Handle
<1>4. /\ Fetch(fetched)
      /\ mq_aio_getq' = From(gets, fetched + passed)
      /\ mq_aio_putq' = From(mq_aio_putq, passed)
      /\ a_cancel_fn' = Finished(Finished(fn, gone), SubSeq(gets, 1, fetched + passed))
  BY DEF nni_msgq_run_getq
<1> HIDE DEF gets, fn
<1>5. fetched = IF Len(gets) <= mq_len THEN Len(gets) ELSE mq_len
  BY <1>1, <1>2, MinOf
<1>6. fetched \in Nat /\ fetched <= Len(gets) /\ fetched <= mq_len /\ Len(gets) \in Nat
  BY <1>1, <1>2, <1>5
<1> HIDE DEF fetched
<1>7. passed = IF Len(gets) - fetched <= Len(mq_aio_putq) THEN Len(gets) - fetched
               ELSE Len(mq_aio_putq)
  <2>1. passed = Min({Len(gets) - fetched, Len(mq_aio_putq)})
    BY DEF Passed
  <2>2. Len(gets) - fetched \in Int /\ Len(mq_aio_putq) \in Int
    BY <1>1, <1>6
  <2> HIDE DEF passed
  <2> QED
    BY <2>1, <2>2, MinOf
<1> HIDE DEF passed
<1>8. /\ passed \in 0..Len(mq_aio_putq) /\ fetched + passed \in 0..Len(gets)
  BY <1>1, <1>6, <1>7
<1>9. /\ mq_aio_putq' \in Seq(Writer) /\ IsInjective(mq_aio_putq')
      /\ Len(mq_aio_putq') = Len(mq_aio_putq) - passed /\ gone \in Seq(Writer)
  BY <1>1, <1>4, <1>8, FromFacts
<1>10. /\ mq_aio_getq' \in Seq(Reader) /\ IsInjective(mq_aio_getq')
       /\ Len(mq_aio_getq') = Len(gets) - (fetched + passed)
       /\ Range(mq_aio_getq') \subseteq Range(gets)
       /\ Range(mq_aio_getq') \intersect Range(SubSeq(gets, 1, fetched + passed)) = {}
  BY <1>2, <1>4, <1>8, FromFacts
<1> HIDE DEF gone
<1>11. /\ a_cancel_fn' \in [Handle -> BOOLEAN]
       /\ \A x \in Range(mq_aio_getq') : a_cancel_fn'[x] = fn[x]
  <2>1. Finished(fn, gone) \in [Handle -> BOOLEAN]
        /\ \A h \in Handle : h \notin Range(gone) => Finished(fn, gone)[h] = fn[h]
    BY <1>3, FinishedFacts
  <2>2. a_cancel_fn' \in [Handle -> BOOLEAN]
        /\ \A h \in Handle : h \notin Range(SubSeq(gets, 1, fetched + passed))
                             => a_cancel_fn'[h] = Finished(fn, gone)[h]
    BY <1>4, <2>1, FinishedFacts
  <2>3. \A x \in Range(mq_aio_getq') : x \in Handle /\ x \notin Range(gone)
                                       /\ x \notin Range(SubSeq(gets, 1, fetched + passed))
    BY <1>9, <1>10, ListsDisjoint
  <2> QED
    BY <2>1, <2>2, <2>3
<1>12. mq_len' = mq_len - fetched /\ mq_cap' = mq_cap
  BY <1>4 DEF Fetch
<1>13. Lists'
  BY <1>1, <1>6, <1>9, <1>10, <1>11, <1>12 DEF Lists
<1>14. mq_aio_getq' # <<>> => fetched = mq_len /\ passed = Len(mq_aio_putq)
  <2>1. mq_aio_getq' # <<>> => Len(mq_aio_getq') # 0
    BY <1>10
  <2> QED
    BY <1>1, <1>5, <1>6, <1>7, <1>8, <1>10, <2>1
<1>15. ReadersWaitForMessages'
  <2> SUFFICES ASSUME mq_aio_getq' # <<>> PROVE mq_len' = 0 /\ mq_aio_putq' = <<>>
    BY DEF ReadersWaitForMessages
  <2>1. mq_len' = 0 /\ Len(mq_aio_putq') = 0
    BY <1>1, <1>9, <1>12, <1>14
  <2> QED
    BY <1>9, <2>1
<1>16. ReadersCancelable'
  <2> SUFFICES ASSUME NEW x \in Range(mq_aio_getq') PROVE a_cancel_fn'[x] \/ x \in cancelling'
    BY DEF ReadersCancelable
  <2>a. a_cancel_fn'[x] = fn[x]
    BY <1>11
  <2>b. x \in Range(mq_aio_getq) \union {r}
    BY <1>2, <1>10
  <2>c. x \in Handle
    BY <1>10 DEF Range, Handle
  <2>1. a_cancel_fn'[x] = fn[x] /\ x \in Handle /\ x \in Range(mq_aio_getq) \union {r}
    BY <2>a, <2>b, <2>c
  <2>2. CASE x # r
    BY <1>3, <2>1, <2>2 DEF Readers, ReadersCancelable
  <2>3. CASE x = r /\ b
    BY <1>3, <2>1, <2>3
  <2>4. CASE x = r /\ ~b
    <3>1. mq_len # 0 \/ mq_aio_putq # <<>>
      BY <2>4 DEF GetRefused
    <3>2. mq_aio_getq = <<>>
      BY <3>1 DEF Readers, ReadersWaitForMessages
    <3>3. Len(gets) = 1
      BY <1>2, <3>2
    <3>4. mq_aio_getq' # <<>>
      BY DEF Range
    <3>5. mq_aio_putq # <<>> => Len(mq_aio_putq) # 0
      BY <1>1
    <3>6. fetched + passed >= 1
      BY <1>1, <1>6, <1>14, <3>1, <3>4, <3>5
    <3>7. Len(mq_aio_getq') = 0
      BY <1>8, <1>10, <3>3, <3>6
    <3> QED
      BY <1>10, <3>4, <3>7
  <2> QED
    BY <2>2, <2>3, <2>4
<1> QED
  BY <1>13, <1>15, <1>16 DEF Readers

\* A step that leaves the lists alone and does not fill an empty ring.
LEMMA ReadersStay ==
    ASSUME Readers, UNCHANGED <<mq_aio_putq, mq_aio_getq, a_cancel_fn, cancelling>>,
           mq_len' \in Nat, mq_len = 0 => mq_len' = 0, mq_cap' \in Nat
    PROVE  Readers'
BY DEF Readers, Lists, ReadersWaitForMessages, ReadersCancelable

LEMMA ReadersInit == Init => Readers
<1> SUFFICES ASSUME Init PROVE Readers
  OBVIOUS
<1>1. Lists
  <2>1. \A S : <<>> \in Seq(S)
    OBVIOUS
  <2>2. IsInjective(<<>>)
    BY DEF IsInjective
  <2> QED
    BY <2>1, <2>2, MsgqAssumption DEF Init, Lists
<1>2. ReadersWaitForMessages
  BY DEF Init, ReadersWaitForMessages
<1>3. ReadersCancelable
  BY DEF Init, ReadersCancelable, Range
<1> QED
  BY <1>1, <1>2, <1>3 DEF Readers

LEMMA ReadersPut ==
    ASSUME Readers, NEW w \in Writer, NEW b \in BOOLEAN, nni_msgq_aio_put(w, b)
    PROVE  Readers'
<1>1. CASE UNCHANGED <<ring, waiters, polls, got>>
  <2>1. UNCHANGED <<mq_aio_putq, mq_aio_getq, a_cancel_fn, cancelling, mq_len, mq_cap>>
    BY <1>1 DEF nni_msgq_aio_put, ring, waiters
  <2> QED
    BY <2>1, ReadersStay DEF Readers, Lists
<1>2. CASE nni_msgq_run_putq(nni_aio_list_append(mq_aio_putq, w), [a_msg EXCEPT ![w] = sent + 1],
                             [a_cancel_fn EXCEPT ![w] = b])
  <2>1. PICK msg : msg = [a_msg EXCEPT ![w] = sent + 1]
    OBVIOUS
  <2>2. nni_msgq_run_putq(Append(mq_aio_putq, w), msg, [a_cancel_fn EXCEPT ![w] = b])
    BY <1>2, <2>1 DEF nni_aio_list_append
  <2>3. w \notin Range(mq_aio_putq) /\ UNCHANGED cancelling
    BY DEF nni_msgq_aio_put
  <2> QED
    BY <2>2, <2>3, PutqLists
<1> QED
  BY <1>1, <1>2 DEF nni_msgq_aio_put

LEMMA ReadersGet ==
    ASSUME Readers, NEW r \in Reader, NEW b \in BOOLEAN, nni_msgq_aio_get(r, b)
    PROVE  Readers'
<1>1. /\ r \notin Range(mq_aio_getq) /\ (b \/ ~GetRefused) /\ UNCHANGED cancelling
      /\ nni_msgq_run_getq(Append(mq_aio_getq, r), [a_cancel_fn EXCEPT ![r] = b])
  BY DEF nni_msgq_aio_get, nni_aio_list_append
<1> QED
  BY <1>1, GetqLists

LEMMA ReadersTryput == ASSUME Readers, nni_msgq_tryput PROVE Readers'
<1>0. UNCHANGED cancelling
  BY DEF nni_msgq_tryput
<1>a. Lists
  BY DEF Readers
<1>1. CASE UNCHANGED <<ring, waiters, polls, got>>
  <2>1. UNCHANGED <<mq_aio_putq, mq_aio_getq, a_cancel_fn, mq_len, mq_cap>>
    BY <1>1 DEF ring, waiters
  <2> QED
    BY <1>0, <1>a, <2>1, ReadersStay DEF Lists
<1>2. CASE /\ mq_aio_getq # <<>> /\ mq_aio_getq' = Tail(mq_aio_getq)
           /\ a_cancel_fn' = [a_cancel_fn EXCEPT ![Head(mq_aio_getq)] = FALSE]
           /\ UNCHANGED <<ring, mq_aio_putq, a_msg, refused>>
  <2>1. /\ mq_aio_getq \in Seq(Reader) /\ 1 \in 0..Len(mq_aio_getq)
        /\ IsInjective(mq_aio_getq) /\ DOMAIN mq_aio_getq = 1..Len(mq_aio_getq)
    BY <1>2, <1>a DEF Lists
  <2>2. Tail(mq_aio_getq) = From(mq_aio_getq, 1)
    BY <1>2, <2>1, TailIsSubSeq DEF From
  <2>3. /\ mq_aio_getq' \in Seq(Reader) /\ IsInjective(mq_aio_getq')
        /\ Range(mq_aio_getq') \subseteq Range(mq_aio_getq)
        /\ Range(mq_aio_getq') \intersect Range(SubSeq(mq_aio_getq, 1, 1)) = {}
    <3>1. /\ From(mq_aio_getq, 1) \in Seq(Reader) /\ IsInjective(From(mq_aio_getq, 1))
          /\ Range(From(mq_aio_getq, 1)) \subseteq Range(mq_aio_getq)
          /\ Range(From(mq_aio_getq, 1)) \intersect Range(SubSeq(mq_aio_getq, 1, 1)) = {}
      BY <2>1, FromFacts
    <3>2. mq_aio_getq' = From(mq_aio_getq, 1)
      BY <1>2, <2>2
    <3> QED
      BY <3>1, <3>2
  <2>4. Head(mq_aio_getq) \in Range(SubSeq(mq_aio_getq, 1, 1))
    <3>1. /\ DOMAIN SubSeq(mq_aio_getq, 1, 1) = 1..1
          /\ SubSeq(mq_aio_getq, 1, 1)[1] = mq_aio_getq[1]
          /\ Head(mq_aio_getq) = mq_aio_getq[1]
      BY <1>2, <2>1
    <3> QED
      BY <3>1 DEF Range
  <2>5. UNCHANGED <<mq_aio_putq, mq_len, mq_cap>>
    BY <1>2 DEF ring
  <2>6. /\ a_cancel_fn' \in [Handle -> BOOLEAN]
        /\ \A x \in Range(mq_aio_getq') : a_cancel_fn'[x] = a_cancel_fn[x]
    <3>1. \A x \in Range(mq_aio_getq') : x # Head(mq_aio_getq) /\ x \in Handle
      BY <2>3, <2>4 DEF Range, Handle
    <3> QED
      BY <1>2, <1>a, <3>1 DEF Lists
  <2>7. Lists'
    BY <1>0, <1>a, <2>3, <2>5, <2>6 DEF Lists
  <2>8. ReadersWaitForMessages'
    BY <1>2, <2>5 DEF Readers, ReadersWaitForMessages
  <2>9. ReadersCancelable'
    BY <1>0, <2>3, <2>6 DEF Readers, ReadersCancelable
  <2> QED
    BY <2>7, <2>8, <2>9 DEF Readers
<1>3. CASE mq_aio_getq = <<>> /\ Store(<<sent + 1>>) /\ UNCHANGED <<waiters, refused, got>>
  <2>1. UNCHANGED <<mq_aio_putq, mq_aio_getq, a_cancel_fn>>
    BY <1>3 DEF waiters
  <2>2. mq_len' = mq_len + 1 /\ mq_cap' = mq_cap
    BY <1>3 DEF Store
  <2>3. Lists'
    BY <1>0, <1>a, <2>1, <2>2 DEF Lists
  <2> QED
    BY <1>0, <1>3, <2>1, <2>3 DEF Readers, ReadersWaitForMessages, ReadersCancelable
<1> QED
  BY <1>1, <1>2, <1>3 DEF nni_msgq_tryput

LEMMA ReadersTakeCancel ==
    ASSUME Readers, NEW h \in Handle, TakeCancel(h)
    PROVE  Readers'
<1>1. UNCHANGED <<mq_aio_putq, mq_aio_getq, mq_len, mq_cap>>
  BY DEF TakeCancel, ring
<1>2. a_cancel_fn' = [a_cancel_fn EXCEPT ![h] = FALSE] /\ cancelling' = cancelling \union {h}
  BY DEF TakeCancel
<1>3. Lists'
  BY <1>1, <1>2 DEF Readers, Lists
<1>4. ReadersCancelable'
  BY <1>1, <1>2 DEF Readers, Lists, ReadersCancelable
<1> QED
  BY <1>1, <1>3, <1>4 DEF Readers, ReadersWaitForMessages

LEMMA ReadersCancel ==
    ASSUME Readers, NEW h \in Handle, nni_msgq_cancel(h)
    PROVE  Readers'
<1>1. /\ cancelling' = cancelling \ {h}
      /\ mq_aio_putq' = nni_aio_list_remove(mq_aio_putq, h)
      /\ mq_aio_getq' = nni_aio_list_remove(mq_aio_getq, h)
      /\ a_cancel_fn' = [a_cancel_fn EXCEPT ![h] = @ /\ ~nni_aio_list_active(h)]
      /\ UNCHANGED <<mq_len, mq_cap>>
  BY DEF nni_msgq_cancel, ring
<1>2. /\ mq_aio_putq' \in Seq(Writer) /\ IsInjective(mq_aio_putq')
      /\ mq_aio_putq = <<>> => mq_aio_putq' = <<>>
  BY <1>1, RemoveFacts DEF Readers, Lists
<1>3. /\ mq_aio_getq' \in Seq(Reader) /\ IsInjective(mq_aio_getq')
      /\ mq_aio_getq = <<>> => mq_aio_getq' = <<>>
      /\ Range(mq_aio_getq') = Range(mq_aio_getq) \ {h}
  BY <1>1, RemoveFacts DEF Readers, Lists
<1>4. a_cancel_fn' \in [Handle -> BOOLEAN] /\ \A x \in Handle : x # h => a_cancel_fn'[x] = a_cancel_fn[x]
  BY <1>1 DEF Readers, Lists
<1>5. Lists'
  BY <1>1, <1>2, <1>3, <1>4 DEF Readers, Lists
<1>6. ReadersWaitForMessages'
  BY <1>1, <1>2, <1>3 DEF Readers, ReadersWaitForMessages
<1>7. ReadersCancelable'
  <2>1. Range(mq_aio_getq) \subseteq Handle
    BY DEF Readers, Lists, Range, Handle
  <2> QED
    BY <1>1, <1>3, <1>4, <2>1 DEF Readers, ReadersCancelable
<1> QED
  BY <1>5, <1>6, <1>7 DEF Readers

LEMMA ReadersClose == ASSUME Readers, nni_msgq_close PROVE Readers'
<1>1. /\ mq_aio_putq' = <<>> /\ mq_aio_getq' = <<>> /\ a_cancel_fn' = [h \in Handle |-> FALSE]
      /\ mq_cap' = mq_cap /\ mq_len' = 0 /\ cancelling' = cancelling
  BY DEF nni_msgq_close, Discard
<1>2. Lists'
  <2>1. \A S : <<>> \in Seq(S)
    OBVIOUS
  <2>2. IsInjective(<<>>)
    BY DEF IsInjective
  <2> QED
    BY <1>1, <2>1, <2>2 DEF Readers, Lists
<1>3. ReadersWaitForMessages' /\ ReadersCancelable'
  BY <1>1 DEF ReadersWaitForMessages, ReadersCancelable, Range
<1> QED
  BY <1>2, <1>3 DEF Readers

\* The most nni_msgq_resize drops leaves cap + 1 messages: none if there is none.
LEMMA Dropped ==
    ASSUME mq_len \in Nat, NEW cap \in Nat
    PROVE  /\ Max({0, mq_len - (cap + 1)}) \in 0..mq_len
           /\ mq_len # 0 => Max({0, mq_len - (cap + 1)}) < mq_len
           /\ mq_len <= cap + 1 => Max({0, mq_len - (cap + 1)}) = 0
<1>1. Max({0, mq_len - (cap + 1)}) = IF 0 >= mq_len - (cap + 1) THEN 0 ELSE mq_len - (cap + 1)
  BY MaxOf
<1> QED
  BY <1>1

LEMMA ReadersResize ==
    ASSUME Readers, NEW cap \in Caps, nni_msgq_resize(cap)
    PROVE  Readers'
<1>1. PICK n : n = Max({0, mq_len - (cap + 1)})
  OBVIOUS
<1>2. /\ mq_cap' = cap /\ mq_len' = mq_len - n
      /\ UNCHANGED <<mq_aio_putq, mq_aio_getq, a_cancel_fn, cancelling>>
  BY <1>1 DEF nni_msgq_resize, waiters
<1>3. cap \in Nat /\ mq_len \in Nat
  BY MsgqAssumption DEF Readers, Lists
<1>4. n \in 0..mq_len
  BY <1>1, <1>3, Dropped
<1> QED
  BY <1>2, <1>3, <1>4, ReadersStay

LEMMA ReadersRest ==
    ASSUME Readers, nni_msgq_get_pollable \/ nni_msgq_fini \/ UNCHANGED vars
    PROVE  Readers'
<1>1. /\ UNCHANGED <<mq_aio_putq, mq_aio_getq, a_cancel_fn, cancelling, mq_cap>>
      /\ mq_len' = mq_len \/ mq_len' = 0
  BY DEF nni_msgq_get_pollable, nni_msgq_fini, vars, waiters, ring, Discard
<1>2. mq_len \in Nat /\ mq_cap \in Nat
  BY DEF Readers, Lists
<1> QED
  BY <1>1, <1>2, ReadersStay

LEMMA ReadersStep == Readers /\ [Next]_vars => Readers'
BY ReadersPut, ReadersGet, ReadersTryput, ReadersTakeCancel, ReadersCancel, ReadersClose,
   ReadersResize, ReadersRest DEF Next

LEMMA ReadersInvariant == Spec => []Readers
BY ReadersInit, ReadersStep, PTL DEF Spec

\* A reader waits only while there is nothing to read, for any handles, any
\* sizes and any resizes: nni_msgq_run_getq empties the buffer and passes on from
\* the writers before it leaves a reader waiting, and what arrives meets the
\* waiting readers first.
THEOREM ReadersWaitHolds == Spec => []ReadersWaitForMessages
<1>1. Readers => ReadersWaitForMessages
  BY DEF Readers
<1> QED
  BY <1>1, ReadersInvariant, PTL

\* A waiting reader has a cancellation routine, or it has been taken and is about
\* to run: nni_msgq_aio_get never leaves a handle waiting whose schedule failed.
THEOREM ReadersCancelableHolds == Spec => []ReadersCancelable
<1>1. Readers => ReadersCancelable
  BY DEF Readers
<1> QED
  BY <1>1, ReadersInvariant, PTL
=============================================================================
