--------------------------- MODULE DeliveryProofs ---------------------------
(***************************************************************************)
(* Proofs about the broker's delivery to a client that keeps a session:    *)
(* for any number of connections and messages, any packet ids and any      *)
(* receive maximum, the one send handle of a pipe is never started twice,  *)
(* and an MQTT 5 client never has more messages to acknowledge than it     *)
(* announced.  As long as no packet id is given out while it is in use, an *)
(* id means one message, and no message is forgotten before the client has *)
(* it.                                                                     *)
(*                                                                         *)
(* A step touches one pipe, or two when a session moves, so the invariant  *)
(* is stated for each pipe (PipeInv), beside the types (Types) and what    *)
(* relates the pipes (Moves).                                              *)
(***************************************************************************)
EXTENDS Delivery, FiniteSetTheorems, TLAPS

-----------------------------------------------------------------------------
(* Types, sharper than TypeOK: what can be where.                          *)

\* What the application sends, what waits in rlmq, what goes to the client, and
\* what comes back.
Offered == {x \in Items : \/ x.t = "pub" /\ x.m \in Msg /\ x.pid = 0
                          \/ x.t = "connack"}
Waiting == {x \in Items : \/ x.t = "pub" /\ x.m \in Msg /\ x.pid = 0
                          \/ x.t = "rel" /\ x.pid \in Pid
                          \/ x.t = "connack"}
Down == {x \in Items : \/ x.t = "pub" /\ x.m \in Msg /\ x.pid \in Pid
                       \/ x.t = "rel" /\ x.pid \in Pid
                       \/ x.t = "connack"}
Up == {x \in Items : x.t \in {"ack", "rec", "comp"} /\ x.pid \in Pid}

NanoTypes ==
    /\ s_pipes \in 0..NPipes
    /\ busy \in [Pipe -> BOOLEAN] /\ connacked \in [Pipe -> BOOLEAN]
    /\ closed \in [Pipe -> BOOLEAN]
    /\ rid \in [Pipe -> Pid] /\ prov \in [Pipe -> 0..PidMax] /\ cap \in [Pipe -> Nat]
    /\ rlmq \in [Pipe -> Seq(Waiting)]
    /\ lk \in [Pipe -> {"free", "ctx", "tmr", "rcv"}]
ThrTypes ==
    /\ ctx \in [it : Offered \union {Nothing}, p : 0..NPipes]
    /\ tmr \in [Pipe -> {"idle", "tested", "picked"}]
    /\ pick \in [Pipe -> [m : Msg \union {None}, pid : 0..PidMax]]
TranTypes ==
    /\ cache \in [Pipe -> BOOLEAN] /\ tclosed \in [Pipe -> BOOLEAN]
    /\ tx \in [Pipe -> Seq({"wire", "ok", "err"})] /\ quota \in [Pipe -> Nat]
    /\ rx \in [Pipe -> Up \union {Nothing}]
DbTypes ==
    /\ nano_qos_db \in [Pid -> Msg \union {None}] /\ packet_id \in 0..PidMax
    /\ holder \in 0..NPipes /\ stored \subseteq Msg
NetTypes ==
    /\ conn \in [Pipe -> BOOLEAN]
    /\ toClient \in [Pipe -> Seq(Down)] /\ toBroker \in [Pipe -> Seq(Up)]
AppTypes ==
    /\ rxmax \in RxMaxes /\ got \subseteq Msg
    /\ sent \subseteq Msg /\ due \subseteq Pipe /\ expired \subseteq Msg
Types == NanoTypes /\ ThrTypes /\ TranTypes /\ DbTypes /\ NetTypes /\ AppTypes

-----------------------------------------------------------------------------
(* What is known of a pipe.                                                *)

\* Nobody works on a pipe before its connection.
YoungP(p) == p > s_pipes =>
    /\ tx[p] = <<>> /\ lk[p] = "free" /\ tmr[p] = "idle" /\ rx[p] = Nothing
    /\ ~conn[p] /\ ~tclosed[p]

\* The flag busy and the handle aio_send; a callback that is about to repeat a
\* message holds the lock, and found the handle free.
SendP(p) ==
    /\ Len(tx[p]) <= 1
    /\ tx[p] # <<>> => busy[p]
    /\ busy[p] => tx[p] # <<>> \/ cache[p] \/ tclosed[p]
    /\ lk[p] \in {"tmr", "rcv"} => ~busy[p] /\ pick[p].m \in Msg /\ pick[p].pid \in Pid
    /\ ctx.p = p => lk[p] = "ctx"

\* The places left in the client's window, and those in use.
WindowP(p) == rxmax > 0 => quota[p] + Open(p) <= rxmax

PipeInv(p) == YoungP(p) /\ SendP(p) /\ WindowP(p)

\* The newest pipe has the session; the others are closed for good.
Moves ==
    /\ holder = s_pipes /\ ctx.p <= s_pipes
    /\ ctx.p # None => ctx.it # Nothing
    /\ \A p \in Pipe : p < s_pipes => tclosed[p]

\* The inductive invariant.
Inv == Types /\ Moves /\ \A p \in Pipe : PipeInv(p)

-----------------------------------------------------------------------------
(* Counting.                                                               *)

One(t, types) == IF t \in types THEN 1 ELSE 0

\* The places of s that Count looks at.
Places(s, types) == {i \in 1..Len(s) : s[i].t \in types}

\* A sequence has finitely many places.
LEMMA PlacesFinite ==
    ASSUME NEW S, NEW s \in Seq(S), NEW types
    PROVE  IsFiniteSet(Places(s, types)) /\ Count(s, types) = Cardinality(Places(s, types))
           /\ Count(s, types) \in Nat
<1>1. IsFiniteSet(1..Len(s))
  BY FS_Interval
<1>2. Places(s, types) \in SUBSET (1..Len(s))
  BY DEF Places
<1>3. IsFiniteSet(Places(s, types))
  BY <1>1, <1>2, FS_Subset
<1>4. Count(s, types) = Cardinality(Places(s, types))
  BY DEF Count, Places
<1> QED
  BY <1>3, <1>4, FS_CardinalityType

\* An empty sequence counts nothing.
LEMMA CountEmpty == \A types : Count(<<>>, types) = 0
<1> SUFFICES ASSUME NEW types PROVE Count(<<>>, types) = 0
  OBVIOUS
<1>1. {i \in 1..Len(<<>>) : <<>>[i].t \in types} = {}
  OBVIOUS
<1> QED
  BY <1>1, FS_EmptySet DEF Count

\* Appending x counts x.
LEMMA CountAppend ==
    ASSUME NEW S, NEW s \in Seq(S), NEW x \in S, NEW types
    PROVE  Count(Append(s, x), types) = Count(s, types) + One(x.t, types)
<1>1. Append(s, x) \in Seq(S)
  OBVIOUS
<1>2. CASE x.t \in types
  <2>1. Places(Append(s, x), types) = Places(s, types) \cup {Len(s) + 1}
    BY <1>2 DEF Places
  <2>2. Len(s) + 1 \notin Places(s, types)
    BY DEF Places
  <2>3. IsFiniteSet(Places(s, types))
    BY PlacesFinite
  <2>4. Cardinality(Places(s, types) \cup {Len(s) + 1}) = Cardinality(Places(s, types)) + 1
    BY <2>2, <2>3, FS_AddElement
  <2> QED
    BY <1>1, <1>2, <2>1, <2>4, PlacesFinite DEF One
<1>3. CASE x.t \notin types
  <2>1. Places(Append(s, x), types) = Places(s, types)
    BY <1>3 DEF Places
  <2>2. One(x.t, types) = 0
    BY <1>3 DEF One
  <2>3. /\ Count(s, types) = Cardinality(Places(s, types)) /\ Count(s, types) \in Nat
        /\ Count(Append(s, x), types) = Cardinality(Places(Append(s, x), types))
    BY <1>1, PlacesFinite
  <2> QED
    BY <2>1, <2>2, <2>3
<1> QED
  BY <1>2, <1>3

\* Taking the first packet off uncounts it.
LEMMA CountTail ==
    ASSUME NEW S, NEW s \in Seq(S), s # <<>>, NEW types
    PROVE  Count(s, types) = Count(Tail(s), types) + One(Head(s).t, types)
<1> DEFINE A == Places(s, types)
           B == Places(Tail(s), types)
           f == [i \in B |-> i + 1]
<1>1. Tail(s) \in Seq(S) /\ Len(Tail(s)) = Len(s) - 1 /\ Head(s) = s[1] /\ Len(s) \in Nat \ {0}
      /\ \A i \in 1..(Len(s) - 1) : Tail(s)[i] = s[i + 1]
  OBVIOUS
<1>2. B \subseteq 1..(Len(s) - 1)
  BY <1>1 DEF Places
<1>3. \A i \in B : f[i] = i + 1 /\ f[i] \in A \ {1}
  BY <1>1, <1>2 DEF Places
<1>4. \A j \in A \ {1} : j - 1 \in B /\ f[j - 1] = j
  BY <1>1 DEF Places
<1>5. f \in [B -> A \ {1}]
  BY <1>3
<1>6. \A i, j \in B : f[i] = f[j] => i = j
  BY <1>2, <1>3
<1>7. \A j \in A \ {1} : \E i \in B : f[i] = j
  BY <1>4
<1>8. f \in Bijection(B, A \ {1})
  BY <1>5, <1>6, <1>7 DEF Bijection, Injection, Surjection, IsInjective
<1>9. IsFiniteSet(A) /\ IsFiniteSet(B) /\ Cardinality(A) \in Nat /\ Cardinality(B) \in Nat
      /\ Count(s, types) = Cardinality(A) /\ Count(Tail(s), types) = Cardinality(B)
  BY <1>1, PlacesFinite
<1>10. Cardinality(A \ {1}) = Cardinality(B)
  BY <1>8, <1>9, FS_Bijection DEF ExistsBijection
<1>11. 1 \in A <=> Head(s).t \in types
  BY <1>1 DEF Places
<1>12. Cardinality(A \ {1}) = IF 1 \in A THEN Cardinality(A) - 1 ELSE Cardinality(A)
  BY <1>9, FS_RemoveElement
<1> HIDE DEF A, B, f
<1> QED
  BY <1>9, <1>10, <1>11, <1>12 DEF One

\* One packet counts one or nothing.
LEMMA CountOne == \A x, types : Count(<<x>>, types) = One(x.t, types)
<1> SUFFICES ASSUME NEW x, NEW types PROVE Count(<<x>>, types) = One(x.t, types)
  OBVIOUS
<1>1. <<x>> = Append(<<>>, x) /\ <<>> \in Seq({x})
  OBVIOUS
<1>2. Count(<<x>>, types) = Count(<<>>, types) + One(x.t, types)
  BY <1>1, CountAppend, ZenonT(60)
<1> QED
  BY <1>2, CountEmpty DEF One

-----------------------------------------------------------------------------
(* The next message to repeat.                                             *)

\* The search up from an id finds one of the ids there are.
LEMMA NearestIn ==
    ASSUME NEW from \in Pid, NEW S \in SUBSET Pid, S # {}
    PROVE  Nearest(from, S) \in S
<1> DEFINE D == {Distance(from, i) : i \in S}
<1>1. \A i \in S : Distance(from, i) \in Nat
  BY SizesAssumption DEF Distance, Pid
<1>2. D \subseteq Nat /\ D # {}
  BY <1>1
<1>3. PICK d \in D : \A e \in D : ~ (<<e, d>> \in OpToRel(<, Nat))
  <2> HIDE DEF D
  <2> QED
    BY <1>2, NatLessThanWellFounded, WFMin
<1>4. \A e \in D : d <= e
  <2> HIDE DEF D
  <2> TAKE e \in D
  <2>1. d \in Nat /\ e \in Nat
    BY <1>2
  <2>2. ~ (e < d)
    BY <1>3, <2>1 DEF OpToRel
  <2> QED
    BY <2>1, <2>2
<1>5. \E i \in S : \A j \in S : Distance(from, i) <= Distance(from, j)
  BY <1>4
<1> QED
  BY <1>5 DEF Nearest

-----------------------------------------------------------------------------
(* The window.                                                             *)

InDown(p) == Count(toClient[p], {"pub", "rel"})
InUp(p) == Count(toBroker[p], {"ack", "rec", "comp"})
InQueue(p) == Count(rlmq[p], {"rel"})
InRx(p) == One(rx[p].t, {"rec"})

\* The open exchanges, by where they are.
LEMMA OpenIs ==
    ASSUME Types, NEW p \in Pipe
    PROVE  /\ Open(p) = InDown(p) + InUp(p) + InQueue(p) + InRx(p)
           /\ InDown(p) \in Nat /\ InUp(p) \in Nat /\ InQueue(p) \in Nat /\ InRx(p) \in Nat
<1>1. toClient[p] \in Seq(Down) /\ toBroker[p] \in Seq(Up) /\ rlmq[p] \in Seq(Waiting)
  BY DEF Types, NetTypes, NanoTypes
<1>2. InDown(p) \in Nat /\ InUp(p) \in Nat /\ InQueue(p) \in Nat
  BY <1>1, PlacesFinite DEF InDown, InUp, InQueue
<1>3. Count(<<rx[p]>>, {"rec"}) = InRx(p) /\ InRx(p) \in Nat
  BY CountOne DEF InRx, One
<1> QED
  BY <1>2, <1>3 DEF Open, InDown, InUp, InQueue

\* The same of the state after a step.
LEMMA OpenIsNext ==
    ASSUME Types', NEW p \in Pipe
    PROVE  /\ Open(p)' = InDown(p)' + InUp(p)' + InQueue(p)' + InRx(p)'
           /\ InDown(p)' \in Nat /\ InUp(p)' \in Nat /\ InQueue(p)' \in Nat /\ InRx(p)' \in Nat
<1>1. toClient'[p] \in Seq(Down) /\ toBroker'[p] \in Seq(Up) /\ rlmq'[p] \in Seq(Waiting)
  BY DEF Types, NetTypes, NanoTypes
<1>2. InDown(p)' \in Nat /\ InUp(p)' \in Nat /\ InQueue(p)' \in Nat
  BY <1>1, PlacesFinite DEF InDown, InUp, InQueue
<1>3. Count(<<rx'[p]>>, {"rec"}) = InRx(p)' /\ InRx(p)' \in Nat
  BY CountOne DEF InRx, One
<1> QED
  BY <1>2, <1>3 DEF Open, InDown, InUp, InQueue

\* Which parts of the window a step leaves alone.
LEMMA OpenParts ==
    ASSUME NEW p \in Pipe
    PROVE  /\ toClient'[p] = toClient[p] => InDown(p)' = InDown(p)
           /\ toBroker'[p] = toBroker[p] => InUp(p)' = InUp(p)
           /\ rlmq'[p] = rlmq[p] => InQueue(p)' = InQueue(p)
           /\ rx'[p] = rx[p] => InRx(p)' = InRx(p)
           /\ toClient'[p] = <<>> => InDown(p)' = 0
           /\ toBroker'[p] = <<>> => InUp(p)' = 0
           /\ rlmq'[p] = <<>> => InQueue(p)' = 0
           /\ rx'[p] = Nothing => InRx(p)' = 0
BY CountEmpty DEF InDown, InUp, InQueue, InRx, One, Nothing, Packet

-----------------------------------------------------------------------------
(* A send.                                                                 *)

\* What tcptran_pipe_send changes: the store, one more send in progress, and a
\* place of the window for each PUBLISH.
LEMMA Sends ==
    ASSUME Types, NEW p \in Pipe, NEW it \in Waiting, NEW pid \in 0..PidMax,
           NEW others \in Seq({"wire", "ok", "err"}),
           tcptran_pipe_send(p, it, pid, others)
    PROVE  /\ \E r \in {"wire", "ok", "err"} : tx' = Set(tx, p, Append(others, r))
           /\ quota' \in [Pipe -> Nat] /\ toClient' \in [Pipe -> Seq(Down)]
           /\ nano_qos_db' \in [Pid -> Msg \union {None}] /\ packet_id' \in 0..PidMax
           /\ stored' \subseteq Msg
           /\ UNCHANGED <<cache, tclosed, holder, conn, toBroker>>
           /\ \A q \in Pipe \ {p} : quota'[q] = quota[q] /\ toClient'[q] = toClient[q]
           /\ rxmax > 0 =>
                quota'[p] + InDown(p)' <= quota[p] + InDown(p) + One(it.t, {"rel"})
<1>0. UNCHANGED <<cache, tclosed, holder, conn, toBroker>>
  BY DEF tcptran_pipe_send
<1>1. /\ quota \in [Pipe -> Nat] /\ toClient \in [Pipe -> Seq(Down)]
      /\ nano_qos_db \in [Pid -> Msg \union {None}] /\ packet_id \in 0..PidMax
      /\ stored \subseteq Msg /\ rxmax \in Nat
  BY ChoicesAssumption DEF Types, TranTypes, NetTypes, DbTypes, AppTypes
<1>2. IncPacketid \in Pid /\ Pid \subseteq 0..PidMax
  BY <1>1, SizesAssumption DEF IncPacketid, Pid
<1>3. InDown(p) \in Nat /\ One(it.t, {"rel"}) \in Nat /\ One("pub", {"pub", "rel"}) = 1
  BY OpenIs DEF One
<1>4. ASSUME NoStore
      PROVE  /\ nano_qos_db' \in [Pid -> Msg \union {None}] /\ packet_id' \in 0..PidMax
             /\ stored' \subseteq Msg
  BY <1>1, <1>4 DEF NoStore
<1>5. ASSUME IsPub(it), Store(it.m)
      PROVE  /\ nano_qos_db' \in [Pid -> Msg \union {None}] /\ packet_id' \in 0..PidMax
             /\ stored' \subseteq Msg
  <2>1. it.m \in Msg
    BY <1>5 DEF Waiting, IsPub
  <2> QED
    BY <1>1, <1>2, <1>5, <2>1 DEF Store, Set
<1>6. ASSUME UNCHANGED <<quota, toClient>>
      PROVE  /\ quota' \in [Pipe -> Nat] /\ toClient' \in [Pipe -> Seq(Down)]
             /\ \A q \in Pipe \ {p} : quota'[q] = quota[q] /\ toClient'[q] = toClient[q]
             /\ rxmax > 0 =>
                  quota'[p] + InDown(p)' <= quota[p] + InDown(p) + One(it.t, {"rel"})
  <2>1. InDown(p)' = InDown(p)
    BY <1>6 DEF InDown
  <2>2. quota'[p] = quota[p] /\ quota[p] \in Nat
    BY <1>1, <1>6
  <2> QED
    BY <1>1, <1>3, <1>6, <2>1, <2>2
<1>7. CASE tclosed[p]
  <2>1. tx' = Set(tx, p, Append(others, "err")) /\ NoStore /\ UNCHANGED <<quota, toClient>>
    BY <1>7 DEF tcptran_pipe_send
  <2> QED
    BY <1>0, <1>4, <1>6, <2>1
<1>8. CASE ~tclosed[p] /\ cache[p]
  <2>1. SendCached(p, it, others)
    BY <1>8 DEF tcptran_pipe_send
  <2>2. tx' = Set(tx, p, Append(others, "ok")) /\ UNCHANGED <<quota, toClient>>
        /\ ((IsPub(it) /\ Store(it.m)) \/ NoStore)
    BY <2>1 DEF SendCached
  <2> QED
    BY <1>0, <1>4, <1>5, <1>6, <2>2
<1>9. CASE ~tclosed[p] /\ ~cache[p]
  <2> DEFINE skip == IsPub(it) /\ WindowFull(p)
             out == IF ~IsPub(it) THEN it
                    ELSE Packet("pub", it.m, IF pid # 0 THEN pid ELSE IncPacketid)
  <2>1. SendStart(p, it, pid, others)
    BY <1>9 DEF tcptran_pipe_send
  <2>2. /\ IF IsPub(it) /\ pid = 0 /\ ~skip THEN Store(it.m) ELSE NoStore
        /\ quota' = IF IsPub(it) /\ ~skip /\ rxmax > 0 THEN Set(quota, p, quota[p] - 1) ELSE quota
        /\ toClient' = IF conn[p] /\ ~skip THEN Set(toClient, p, Append(toClient[p], out))
                       ELSE toClient
        /\ tx' = Set(tx, p, Append(others, "wire"))
    BY <2>1 DEF SendStart
  <2>3. out \in Down
    <3>1. CASE IsPub(it)
      <4>1. it.m \in Msg
        BY <3>1 DEF Waiting, IsPub
      <4>2. (IF pid # 0 THEN pid ELSE IncPacketid) \in Pid
        BY <1>2, SizesAssumption DEF Pid
      <4>3. \A i \in Pid : Packet("pub", it.m, i) \in Down
        BY <4>1, <1>2 DEF Down, Items, Packet
      <4> QED
        BY <3>1, <4>2, <4>3
    <3>2. CASE ~IsPub(it)
      BY <3>2 DEF Down, Waiting, IsPub
    <3> QED
      BY <3>1, <3>2
  <2>4. out.t = it.t
    BY DEF Packet, IsPub
  <2>5. (IsPub(it) /\ Store(it.m)) \/ NoStore
    BY <2>2
  <2>6. CASE IsPub(it) /\ ~WindowFull(p)
    <3>1. rxmax > 0 => quota[p] \in Nat \ {0}
      BY <1>1, <2>6 DEF WindowFull
    <3>2. quota' = (IF rxmax > 0 THEN Set(quota, p, quota[p] - 1) ELSE quota)
      BY <2>2, <2>6
    <3>3. quota' \in [Pipe -> Nat] /\ \A q \in Pipe \ {p} : quota'[q] = quota[q]
      BY <1>1, <3>1, <3>2 DEF Set
    <3>4. rxmax > 0 => quota'[p] = quota[p] - 1
      BY <1>1, <3>1, <3>2 DEF Set
    <3>5. toClient' = (IF conn[p] THEN Set(toClient, p, Append(toClient[p], out)) ELSE toClient)
      BY <2>2, <2>6
    <3> HIDE DEF out
    <3>6. toClient' \in [Pipe -> Seq(Down)] /\ \A q \in Pipe \ {p} : toClient'[q] = toClient[q]
      BY <1>1, <2>3, <3>5 DEF Set
    <3>7. InDown(p)' <= InDown(p) + 1 /\ InDown(p)' \in Nat
      <4>1. CASE conn[p]
        <5>1. toClient'[p] = Append(toClient[p], out) /\ toClient[p] \in Seq(Down)
          BY <1>1, <3>5, <4>1 DEF Set
        <5>2. InDown(p)' = InDown(p) + One(out.t, {"pub", "rel"})
          BY <2>3, <5>1, CountAppend DEF InDown
        <5> QED
          BY <1>3, <2>4, <2>6, <5>2 DEF IsPub
      <4>2. CASE ~conn[p]
        BY <1>3, <3>5, <4>2 DEF InDown
      <4> QED
        BY <4>1, <4>2
    <3>8. rxmax > 0 =>
            quota'[p] + InDown(p)' <= quota[p] + InDown(p) + One(it.t, {"rel"})
      <4>1. quota[p] \in Nat
        BY <1>1
      <4> QED
        BY <1>3, <3>4, <3>7, <4>1
    <3> QED
      BY <1>0, <1>4, <1>5, <2>2, <2>5, <3>3, <3>6, <3>8
  <2>7. CASE IsPub(it) /\ WindowFull(p)
    <3>1. UNCHANGED <<quota, toClient>>
      BY <2>2, <2>7
    <3> QED
      BY <1>0, <1>4, <1>5, <1>6, <2>2, <2>5, <3>1
  <2>8. CASE ~IsPub(it)
    <3>1. quota' = quota
      BY <2>2, <2>8
    <3>2. toClient' = (IF conn[p] THEN Set(toClient, p, Append(toClient[p], it)) ELSE toClient)
      BY <2>2, <2>8
    <3>3. it \in Down
      BY <2>3, <2>8
    <3>4. toClient' \in [Pipe -> Seq(Down)] /\ \A q \in Pipe \ {p} : toClient'[q] = toClient[q]
      BY <1>1, <3>2, <3>3 DEF Set
    <3>5. InDown(p)' <= InDown(p) + One(it.t, {"rel"}) /\ InDown(p)' \in Nat
      <4>1. CASE conn[p]
        <5>1. toClient'[p] = Append(toClient[p], it) /\ toClient[p] \in Seq(Down)
          BY <1>1, <3>2, <4>1 DEF Set
        <5>2. InDown(p)' = InDown(p) + One(it.t, {"pub", "rel"})
          BY <3>3, <5>1, CountAppend DEF InDown
        <5>3. One(it.t, {"pub", "rel"}) = One(it.t, {"rel"})
          BY <2>8 DEF IsPub, One
        <5> QED
          BY <1>3, <5>2, <5>3
      <4>2. CASE ~conn[p]
        BY <1>3, <3>2, <4>2 DEF InDown
      <4> QED
        BY <4>1, <4>2
    <3>6. rxmax > 0 =>
            quota'[p] + InDown(p)' <= quota[p] + InDown(p) + One(it.t, {"rel"})
      <4>1. quota[p] \in Nat /\ quota'[p] = quota[p]
        BY <1>1, <3>1
      <4> QED
        BY <1>3, <3>5, <4>1
    <3> QED
      BY <1>0, <1>1, <1>4, <1>5, <2>2, <2>5, <3>1, <3>4, <3>6
  <2> QED
    BY <2>6, <2>7, <2>8
<1> QED
  BY <1>7, <1>8, <1>9

-----------------------------------------------------------------------------
(* A step touches one pipe.                                                *)

\* What PipeInv looks at of every pipe but p is left alone.
Only(p) == \A q \in Pipe \ {p} :
    /\ tx'[q] = tx[q] /\ busy'[q] = busy[q] /\ lk'[q] = lk[q] /\ tmr'[q] = tmr[q]
    /\ pick'[q] = pick[q] /\ rx'[q] = rx[q] /\ conn'[q] = conn[q]
    /\ cache'[q] = cache[q] /\ quota'[q] = quota[q]
    /\ toClient'[q] = toClient[q] /\ toBroker'[q] = toBroker[q] /\ rlmq'[q] = rlmq[q]

\* The session does not move, and a context begins a send on p or ends one.
Still(p) ==
    /\ UNCHANGED <<s_pipes, holder, tclosed, rxmax>>
    /\ \/ ctx' = ctx
       \/ ctx'.p = None
       \/ ctx'.p = p /\ ctx'.it # Nothing

\* Such a step keeps the invariant if it keeps the types and that of p.
LEMMA OnePipe ==
    ASSUME Inv, Types', NEW p \in Pipe, p <= s_pipes, Only(p), Still(p),
           SendP(p)', rxmax > 0 => quota'[p] + Open(p)' <= quota[p] + Open(p)
    PROVE  Inv'
<1>1. s_pipes \in Nat /\ rxmax \in Nat /\ quota \in [Pipe -> Nat] /\ quota'[p] \in Nat
      /\ p \in Nat
  BY ChoicesAssumption, SMTT(60) DEF Inv, Types, NanoTypes, AppTypes, TranTypes, Pipe
<1>2. Moves'
  BY <1>1 DEF Inv, Moves, Still, Pipe, None
<1>3. PipeInv(p)'
  <2>1. YoungP(p)'
    BY <1>1 DEF YoungP, Still
  <2>2. WindowP(p)'
    <3>1. Open(p) \in Nat /\ Open(p)' \in Nat
      BY OpenIs, OpenIsNext DEF Inv
    <3>2. rxmax > 0 => quota[p] + Open(p) <= rxmax
      BY DEF Inv, PipeInv, WindowP
    <3>3. rxmax' = rxmax /\ quota[p] \in Nat
      BY <1>1 DEF Still
    <3>4. rxmax > 0 => quota'[p] + Open(p)' <= rxmax
      BY <1>1, <3>1, <3>2, <3>3
    <3> QED
      BY <3>3, <3>4 DEF WindowP
  <2> QED
    BY <2>1, <2>2 DEF PipeInv
<1>4. ASSUME NEW q \in Pipe \ {p}
      PROVE  PipeInv(q)'
  <2>0. PipeInv(q) /\ UNCHANGED <<s_pipes, tclosed, rxmax>>
    BY DEF Inv, Still
  <2>1. /\ tx'[q] = tx[q] /\ busy'[q] = busy[q] /\ lk'[q] = lk[q] /\ tmr'[q] = tmr[q]
        /\ pick'[q] = pick[q] /\ rx'[q] = rx[q] /\ conn'[q] = conn[q]
        /\ cache'[q] = cache[q] /\ quota'[q] = quota[q]
        /\ toClient'[q] = toClient[q] /\ toBroker'[q] = toBroker[q] /\ rlmq'[q] = rlmq[q]
    BY DEF Only
  <2>2. YoungP(q)'
    BY <2>0, <2>1 DEF PipeInv, YoungP
  <2>3. SendP(q)'
    <3>1. ctx'.p = q => ctx.p = q
      BY DEF Still, Pipe, None
    <3> QED
      BY <2>0, <2>1, <3>1 DEF PipeInv, SendP
  <2>4. WindowP(q)'
    <3>1. Open(q)' = Open(q)
      BY <2>1 DEF Open
    <3> QED
      BY <2>0, <2>1, <3>1 DEF PipeInv, WindowP
  <2> QED
    BY <2>2, <2>3, <2>4 DEF PipeInv
<1> QED
  BY <1>2, <1>3, <1>4 DEF Inv

\* A pipe that somebody works on has had its connection.
LEMMA Active ==
    ASSUME Inv, NEW p \in Pipe,
           tx[p] # <<>> \/ lk[p] # "free" \/ tmr[p] # "idle" \/ rx[p] # Nothing \/ conn[p]
           \/ tclosed[p]
    PROVE  p <= s_pipes
BY DEF Inv, PipeInv, YoungP, Types, NanoTypes, Pipe

\* A step that changes no part of the window keeps it.
LEMMA SameWindow ==
    ASSUME Types, Types', NEW p \in Pipe,
           quota'[p] = quota[p] /\ toClient'[p] = toClient[p] /\ toBroker'[p] = toBroker[p]
           /\ rlmq'[p] = rlmq[p] /\ rx'[p] = rx[p]
    PROVE  rxmax > 0 => quota'[p] + Open(p)' <= quota[p] + Open(p)
<1>1. Open(p)' = Open(p)
  BY DEF Open
<1>2. quota[p] \in Nat /\ Open(p) \in Nat
  BY OpenIs DEF Types, TranTypes
<1> QED
  BY <1>1, <1>2

-----------------------------------------------------------------------------
(* One lemma per action.                                                   *)

\* The application's items are offered ones.
LEMMA OfferedItems ==
    /\ Connack \in Offered /\ \A m \in Msg : Pub(m) \in Offered
    /\ Offered \subseteq Waiting /\ Nothing \notin Waiting /\ Nothing \in Items
BY SizesAssumption DEF Connack, Pub, Offered, Waiting, Items, Packet, None, Nothing

\* A context takes the lock of the pipe it has looked up.
LEMMA CtxLookupStep ==
    ASSUME Inv, NEW it \in Offered, CtxLookup(it),
           UNCHANGED <<s_pipes, busy, connacked, rid, closed, rlmq, cap, prov, tmr, pick,
                       tran_vars, db_vars, net_vars, client_vars, expired>>,
           sent' \subseteq Msg, due' \subseteq Pipe
    PROVE  Inv'
<1> PICK p \in Pipe : p = s_pipes
  BY DEF CtxLookup, Inv, Types, NanoTypes, Pipe, None
<1>1. lk[p] = "free" /\ ctx.p = None /\ ctx' = [it |-> it, p |-> p] /\ lk' = Set(lk, p, "ctx")
  BY DEF CtxLookup
<1>2. Types'
  <2>1. NanoTypes'
    BY <1>1 DEF Inv, Types, NanoTypes, Set
  <2>2. ThrTypes'
    BY <1>1 DEF Inv, Types, ThrTypes, Pipe
  <2>3. TranTypes' /\ DbTypes' /\ NetTypes' /\ AppTypes'
    BY DEF Inv, Types, TranTypes, DbTypes, NetTypes, AppTypes, tran_vars, db_vars, net_vars,
           client_vars
  <2> QED
    BY <2>1, <2>2, <2>3 DEF Types
<1>3. Only(p)
  BY <1>1 DEF Only, Set, Inv, Types, NanoTypes, tran_vars, net_vars
<1>4. Still(p)
  BY <1>1, OfferedItems DEF Still, db_vars, tran_vars, client_vars
<1>5. SendP(p)'
  BY <1>1 DEF Inv, PipeInv, SendP, Set, Types, NanoTypes, tran_vars
<1>6. rxmax > 0 => quota'[p] + Open(p)' <= quota[p] + Open(p)
  BY <1>2, SameWindow DEF Inv, tran_vars, net_vars
<1>7. p <= s_pipes
  BY DEF Pipe
<1> QED
  BY <1>2, <1>3, <1>4, <1>5, <1>6, <1>7, OnePipe

LEMMA PublishStep == ASSUME Inv, NEW m \in Msg, Publish(m) PROVE Inv'
<1>1. Pub(m) \in Offered
  BY OfferedItems
<1>2. sent' \subseteq Msg /\ due' \subseteq Pipe
  BY DEF Publish, Inv, Types, AppTypes
<1> QED
  BY <1>1, <1>2, CtxLookupStep DEF Publish

LEMMA SendConnackStep == ASSUME Inv, NEW p \in Pipe, SendConnack(p) PROVE Inv'
<1>1. Connack \in Offered
  BY OfferedItems
<1>2. sent' \subseteq Msg /\ due' \subseteq Pipe
  BY DEF SendConnack, Inv, Types, AppTypes
<1> QED
  BY <1>1, <1>2, CtxLookupStep DEF SendConnack

LEMMA TimerTestStep == ASSUME Inv, NEW p \in Pipe, TimerTest(p) PROVE Inv'
<1> USE DEF TimerTest
<1>2. Types'
  <2>1. ThrTypes'
    BY DEF Inv, Types, ThrTypes, Set
  <2>2. NanoTypes' /\ TranTypes' /\ DbTypes' /\ NetTypes' /\ AppTypes'
    BY DEF Inv, Types, NanoTypes, TranTypes, DbTypes, NetTypes, AppTypes, nano_vars, tran_vars,
           db_vars, net_vars, client_vars, app_vars
  <2> QED
    BY <2>1, <2>2 DEF Types
<1>3. Only(p)
  BY DEF Only, Set, Inv, Types, ThrTypes, nano_vars, tran_vars, net_vars
<1>4. Still(p)
  BY DEF Still, nano_vars, db_vars, tran_vars, client_vars
<1>5. SendP(p)'
  BY DEF Inv, PipeInv, SendP, nano_vars, tran_vars
<1>6. rxmax > 0 => quota'[p] + Open(p)' <= quota[p] + Open(p)
  BY <1>2, SameWindow DEF Inv, nano_vars, tran_vars, net_vars
<1>7. p <= s_pipes
  BY DEF Pipe
<1> QED
  BY <1>2, <1>3, <1>4, <1>5, <1>6, <1>7, OnePipe

LEMMA TimerSkipStep == ASSUME Inv, NEW p \in Pipe, TimerSkip(p) PROVE Inv'
<1> USE DEF TimerSkip
<1>2. Types'
  <2>1. ThrTypes'
    BY DEF Inv, Types, ThrTypes, Set
  <2>2. NanoTypes' /\ TranTypes' /\ DbTypes' /\ NetTypes' /\ AppTypes'
    BY DEF Inv, Types, NanoTypes, TranTypes, DbTypes, NetTypes, AppTypes, nano_vars, tran_vars,
           db_vars, net_vars, client_vars, app_vars
  <2> QED
    BY <2>1, <2>2 DEF Types
<1>3. Only(p)
  BY DEF Only, Set, Inv, Types, ThrTypes, nano_vars, tran_vars, net_vars
<1>4. Still(p)
  BY DEF Still, nano_vars, db_vars, tran_vars, client_vars
<1>5. SendP(p)'
  BY DEF Inv, PipeInv, SendP, nano_vars, tran_vars
<1>6. rxmax > 0 => quota'[p] + Open(p)' <= quota[p] + Open(p)
  BY <1>2, SameWindow DEF Inv, nano_vars, tran_vars, net_vars
<1>7. p <= s_pipes
  BY Active
<1> QED
  BY <1>2, <1>3, <1>4, <1>5, <1>6, <1>7, OnePipe

\* What a pipe that is kept, or whose stream is lost, gives up of the window.
LEMMA LessWindow ==
    ASSUME Types, Types', NEW p \in Pipe, quota'[p] = quota[p], rx'[p] = rx[p],
           toClient'[p] = <<>> \/ toClient'[p] = toClient[p],
           toBroker'[p] = <<>> \/ toBroker'[p] = toBroker[p],
           rlmq'[p] = <<>> \/ rlmq'[p] = rlmq[p]
    PROVE  rxmax > 0 => quota'[p] + Open(p)' <= quota[p] + Open(p)
<1>1. quota[p] \in Nat
  BY DEF Types, TranTypes
<1>2. /\ Open(p) = InDown(p) + InUp(p) + InQueue(p) + InRx(p)
      /\ InDown(p) \in Nat /\ InUp(p) \in Nat /\ InQueue(p) \in Nat /\ InRx(p) \in Nat
      /\ Open(p)' = InDown(p)' + InUp(p)' + InQueue(p)' + InRx(p)'
  BY OpenIs, OpenIsNext
<1>3. /\ InDown(p)' = InDown(p) \/ InDown(p)' = 0
      /\ InUp(p)' = InUp(p) \/ InUp(p)' = 0
      /\ InQueue(p)' = InQueue(p) \/ InQueue(p)' = 0
      /\ InRx(p)' = InRx(p)
  BY OpenParts
<1> QED
  BY <1>1, <1>2, <1>3

\* nano_pipe_close, or a second close that finds the pipe closed.
Closes(p) == IF Closable(p) THEN Keep(p) ELSE UNCHANGED <<cache, rlmq, net_vars>>

LEMMA ClosesFacts ==
    ASSUME Types, NEW p \in Pipe, Closes(p)
    PROVE  /\ cache' \in [Pipe -> BOOLEAN] /\ rlmq' \in [Pipe -> Seq(Waiting)] /\ NetTypes'
           /\ cache[p] => cache'[p]
           /\ holder = p => cache'[p] \/ tclosed[p]
           /\ toClient'[p] = <<>> \/ toClient'[p] = toClient[p]
           /\ toBroker'[p] = <<>> \/ toBroker'[p] = toBroker[p]
           /\ rlmq'[p] = <<>> \/ rlmq'[p] = rlmq[p]
           /\ \A q \in Pipe \ {p} :
                /\ cache'[q] = cache[q] /\ rlmq'[q] = rlmq[q] /\ conn'[q] = conn[q]
                /\ toClient'[q] = toClient[q] /\ toBroker'[q] = toBroker[q]
<1>1. cache \in [Pipe -> BOOLEAN] /\ rlmq \in [Pipe -> Seq(Waiting)] /\ NetTypes
  BY DEF Types, TranTypes, NanoTypes
<1>2. CASE Closable(p)
  <2>1. Keep(p)
    BY <1>2 DEF Closes
  <2>2. \A S : <<>> \in Seq(S)
    OBVIOUS
  <2> QED
    BY <1>1, <2>1, <2>2 DEF Keep, Set, NetTypes
<1>3. CASE ~Closable(p)
  BY <1>1, <1>3 DEF Closes, Closable, NetTypes, net_vars
<1> QED
  BY <1>2, <1>3

LEMMA TimerKickStep == ASSUME Inv, NEW p \in Pipe, TimerKick(p) PROVE Inv'
<1> USE DEF TimerKick
<1>0. Closes(p)
  BY DEF Closes
<1>1. Types
  BY DEF Inv
<1>2. Types'
  <2>1. ThrTypes'
    BY DEF Inv, Types, ThrTypes, Set
  <2>2. NanoTypes' /\ TranTypes' /\ NetTypes'
    BY <1>0, <1>1, ClosesFacts DEF Types, NanoTypes, TranTypes
  <2>3. DbTypes' /\ AppTypes'
    BY DEF Inv, Types, DbTypes, AppTypes, db_vars, client_vars, app_vars
  <2> QED
    BY <2>1, <2>2, <2>3 DEF Types
<1>3. Only(p)
  BY <1>0, <1>1, ClosesFacts DEF Only, Set, Types, ThrTypes
<1>4. Still(p)
  BY DEF Still, db_vars, client_vars
<1>5. SendP(p)'
  BY <1>0, <1>1, ClosesFacts DEF Inv, PipeInv, SendP
<1>6. rxmax > 0 => quota'[p] + Open(p)' <= quota[p] + Open(p)
  BY <1>0, <1>1, <1>2, ClosesFacts, LessWindow
<1>7. p <= s_pipes
  BY Active
<1> QED
  BY <1>2, <1>3, <1>4, <1>5, <1>6, <1>7, OnePipe

LEMMA DropStep == ASSUME Inv, NEW p \in Pipe, Drop(p) PROVE Inv'
<1> USE DEF Drop
<1>1. Types
  BY DEF Inv
<1>2. Types'
  <2>1. NetTypes'
    <3>1. \A S : <<>> \in Seq(S)
      OBVIOUS
    <3> QED
      BY <1>1, <3>1 DEF Types, NetTypes, Lost, Set
  <2>2. NanoTypes' /\ ThrTypes' /\ TranTypes' /\ DbTypes' /\ AppTypes'
    BY <1>1 DEF Types, NanoTypes, ThrTypes, TranTypes, DbTypes, AppTypes, nano_vars, thr_vars,
                tran_vars, db_vars, client_vars, app_vars
  <2> QED
    BY <2>1, <2>2 DEF Types
<1>3. Only(p)
  BY <1>1 DEF Only, Lost, Set, Types, NetTypes, nano_vars, thr_vars, tran_vars
<1>4. Still(p)
  BY DEF Still, nano_vars, thr_vars, db_vars, tran_vars, client_vars
<1>5. SendP(p)'
  BY DEF Inv, PipeInv, SendP, nano_vars, thr_vars, tran_vars
<1>6. rxmax > 0 => quota'[p] + Open(p)' <= quota[p] + Open(p)
  <2>1. toClient'[p] = <<>> /\ toBroker'[p] = <<>>
    BY <1>1 DEF Lost, Set, Types, NetTypes
  <2> QED
    BY <1>1, <1>2, <2>1, LessWindow DEF nano_vars, tran_vars
<1>7. p <= s_pipes
  BY Active
<1> QED
  BY <1>2, <1>3, <1>4, <1>5, <1>6, <1>7, OnePipe

LEMMA PipeLostStep == ASSUME Inv, NEW p \in Pipe, PipeLost(p) PROVE Inv'
<1> USE DEF PipeLost
<1>0. Closes(p)
  BY DEF Closes
<1>1. Types
  BY DEF Inv
<1>2. Types'
  <2>2. NanoTypes' /\ TranTypes' /\ NetTypes'
    BY <1>0, <1>1, ClosesFacts DEF Types, NanoTypes, TranTypes
  <2>3. ThrTypes' /\ DbTypes' /\ AppTypes'
    BY DEF Inv, Types, ThrTypes, DbTypes, AppTypes, thr_vars, db_vars, client_vars, app_vars
  <2> QED
    BY <2>2, <2>3 DEF Types
<1>3. Only(p)
  BY <1>0, <1>1, ClosesFacts DEF Only, thr_vars
<1>4. Still(p)
  BY DEF Still, thr_vars, db_vars, client_vars
<1>5. SendP(p)'
  BY <1>0, <1>1, ClosesFacts DEF Inv, PipeInv, SendP, thr_vars
<1>6. rxmax > 0 => quota'[p] + Open(p)' <= quota[p] + Open(p)
  BY <1>0, <1>1, <1>2, ClosesFacts, LessWindow
<1>7. p <= s_pipes
  BY DEF Pipe
<1> QED
  BY <1>2, <1>3, <1>4, <1>5, <1>6, <1>7, OnePipe

LEMMA CloseOldStep == ASSUME Inv, NEW p \in Pipe, CloseOld(p) PROVE Inv'
<1> USE DEF CloseOld
<1>1. Types
  BY DEF Inv
<1>2. Types'
  <2>1. NanoTypes'
    <3>1. \A S : <<>> \in Seq(S)
      OBVIOUS
    <3> QED
      BY <1>1, <3>1 DEF Types, NanoTypes, Set
  <2>2. ThrTypes' /\ TranTypes' /\ DbTypes' /\ NetTypes' /\ AppTypes'
    BY <1>1 DEF Types, ThrTypes, TranTypes, DbTypes, NetTypes, AppTypes, thr_vars,
                tran_vars, db_vars, net_vars, client_vars, app_vars
  <2> QED
    BY <2>1, <2>2 DEF Types
<1>3. Only(p)
  BY <1>1 DEF Only, Set, Types, NanoTypes, thr_vars, tran_vars, net_vars
<1>4. Still(p)
  BY DEF Still, thr_vars, db_vars, tran_vars, client_vars
<1>5. SendP(p)'
  BY DEF Inv, PipeInv, SendP, thr_vars, tran_vars
<1>6. rxmax > 0 => quota'[p] + Open(p)' <= quota[p] + Open(p)
  <2>1. rlmq'[p] = <<>>
    BY <1>1 DEF Set, Types, NanoTypes
  <2> QED
    BY <1>1, <1>2, <2>1, LessWindow DEF net_vars, tran_vars
<1>7. p <= s_pipes
  BY Active
<1> QED
  BY <1>2, <1>3, <1>4, <1>5, <1>6, <1>7, OnePipe

\* A packet that the client takes makes room for its answer.
LEMMA ClientRecvStep == ASSUME Inv, NEW p \in Pipe, ClientRecv(p) PROVE Inv'
<1> USE DEF ClientRecv
<1>1. Types
  BY DEF Inv
<1> PICK pkt : pkt = Head(toClient[p])
  OBVIOUS
<1> DEFINE Reply(t) == toBroker' = Set(toBroker, p, Append(toBroker[p], Packet(t, None, pkt.pid)))
<1>a. toClient[p] \in Seq(Down) /\ toClient[p] # <<>> /\ toBroker[p] \in Seq(Up)
      /\ toClient' = Set(toClient, p, Tail(toClient[p]))
      /\ toClient \in [Pipe -> Seq(Down)] /\ toBroker \in [Pipe -> Seq(Up)]
  BY <1>1 DEF Types, NetTypes
<1>b. pkt \in Down /\ Tail(toClient[p]) \in Seq(Down)
  BY <1>a
<1>c. \/ pkt.t = "pub" /\ got' = got \union {pkt.m} /\ Reply(IF Qos[pkt.m] = 1 THEN "ack" ELSE "rec")
      \/ pkt.t = "rel" /\ got' = got /\ Reply("comp")
      \/ pkt.t = "connack" /\ UNCHANGED <<toBroker, got>>
  OBVIOUS
<1>d. pkt.t \in {"pub", "rel"} =>
        \E t \in {"ack", "rec", "comp"} : Reply(t)
  BY <1>c
<1>e. \A t \in {"ack", "rec", "comp"} : pkt.t \in {"pub", "rel"} => Packet(t, None, pkt.pid) \in Up
  BY <1>b DEF Up, Down, Items, Packet
<1>f. /\ toBroker' \in [Pipe -> Seq(Up)]
      /\ \A q \in Pipe \ {p} : toBroker'[q] = toBroker[q]
      /\ InUp(p)' = InUp(p) + One(pkt.t, {"pub", "rel"})
  <2>0. InUp(p) \in Nat
    BY <1>1, OpenIs
  <2>1. CASE pkt.t \in {"pub", "rel"}
    <3>1. PICK t \in {"ack", "rec", "comp"} : Reply(t)
      BY <1>d, <2>1
    <3>2. PICK x \in Up : x = Packet(t, None, pkt.pid)
      BY <1>e, <2>1
    <3>3. toBroker' = Set(toBroker, p, Append(toBroker[p], x)) /\ x.t = t
      BY <3>1, <3>2 DEF Packet
    <3>4. InUp(p)' = InUp(p) + One(x.t, {"ack", "rec", "comp"})
      <4>1. toBroker'[p] = Append(toBroker[p], x)
        BY <1>a, <3>3 DEF Set
      <4> QED
        BY <1>a, <4>1, CountAppend DEF InUp
    <3>5. Append(toBroker[p], x) \in Seq(Up)
      BY <1>a
    <3> QED
      BY <1>a, <2>1, <3>3, <3>4, <3>5 DEF Set, One
  <2>2. CASE pkt.t \notin {"pub", "rel"}
    BY <1>a, <1>c, <2>0, <2>2 DEF One, InUp
  <2> QED
    BY <2>1, <2>2
<1>g. /\ toClient' \in [Pipe -> Seq(Down)]
      /\ \A q \in Pipe \ {p} : toClient'[q] = toClient[q]
      /\ InDown(p) = InDown(p)' + One(pkt.t, {"pub", "rel"})
  <2>1. toClient'[p] = Tail(toClient[p])
    BY <1>a DEF Set
  <2>2. InDown(p) = InDown(p)' + One(pkt.t, {"pub", "rel"})
    BY <1>a, <2>1, CountTail DEF InDown
  <2> QED
    BY <1>a, <1>b, <2>2 DEF Set
<1>2. Types'
  <2>1. NetTypes'
    BY <1>1, <1>f, <1>g DEF Types, NetTypes
  <2>2. AppTypes'
    <3>1. got' \subseteq Msg
      BY <1>1, <1>b, <1>c DEF Types, AppTypes, Down
    <3> QED
      BY <1>1, <3>1 DEF Types, AppTypes, app_vars
  <2>3. NanoTypes' /\ ThrTypes' /\ TranTypes' /\ DbTypes'
    BY <1>1 DEF Types, NanoTypes, ThrTypes, TranTypes, DbTypes, nano_vars, thr_vars,
                tran_vars, db_vars
  <2> QED
    BY <2>1, <2>2, <2>3 DEF Types
<1>3. Only(p)
  BY <1>f, <1>g DEF Only, nano_vars, thr_vars, tran_vars
<1>4. Still(p)
  BY DEF Still, nano_vars, thr_vars, db_vars, tran_vars
<1>5. SendP(p)'
  BY DEF Inv, PipeInv, SendP, nano_vars, thr_vars, tran_vars
<1>6. rxmax > 0 => quota'[p] + Open(p)' <= quota[p] + Open(p)
  <2>1. quota'[p] = quota[p] /\ quota[p] \in Nat /\ InQueue(p)' = InQueue(p) /\ InRx(p)' = InRx(p)
    BY <1>1, OpenParts DEF Types, TranTypes, tran_vars, nano_vars
  <2>2. One(pkt.t, {"pub", "rel"}) \in Nat
    BY DEF One
  <2>3. /\ Open(p) = InDown(p) + InUp(p) + InQueue(p) + InRx(p)
        /\ InDown(p) \in Nat /\ InUp(p) \in Nat /\ InQueue(p) \in Nat /\ InRx(p) \in Nat
    BY <1>1, OpenIs
  <2>4. /\ Open(p)' = InDown(p)' + InUp(p)' + InQueue(p)' + InRx(p)'
        /\ InDown(p)' \in Nat /\ InUp(p)' \in Nat
    BY <1>2, OpenIsNext
  <2>5. InUp(p)' = InUp(p) + One(pkt.t, {"pub", "rel"})
        /\ InDown(p) = InDown(p)' + One(pkt.t, {"pub", "rel"})
    BY <1>f, <1>g
  <2> HIDE DEF ClientRecv
  <2> QED
    BY <2>1, <2>2, <2>3, <2>4, <2>5
<1>7. p <= s_pipes
  BY Active
<1> QED
  BY <1>2, <1>3, <1>4, <1>5, <1>6, <1>7, OnePipe

\* A PUBACK or PUBCOMP gives its place of the window back; a PUBREC keeps it.
LEMMA TranRecvStep == ASSUME Inv, NEW p \in Pipe, TranRecv(p) PROVE Inv'
<1>1. Types
  BY DEF Inv
<1> PICK pkt : pkt = Head(toBroker[p])
  OBVIOUS
<1>a. /\ conn[p] /\ toBroker[p] # <<>> /\ rx[p] = Nothing
      /\ toBroker' = Set(toBroker, p, Tail(toBroker[p]))
      /\ \/ /\ pkt.t \in {"ack", "comp"}
            /\ quota' = IF rxmax > 0 THEN Set(quota, p, quota[p] + 1) ELSE quota
            /\ IF Db(p)[pkt.pid] # None
               THEN nano_qos_db' = Set(nano_qos_db, pkt.pid, None) /\ rx' = Set(rx, p, pkt)
               ELSE UNCHANGED <<nano_qos_db, rx>>
         \/ pkt.t = "rec" /\ rx' = Set(rx, p, pkt) /\ UNCHANGED <<quota, nano_qos_db>>
  BY DEF TranRecv
<1>b. UNCHANGED <<nano_vars, thr_vars, cache, tclosed, tx, packet_id, holder, stored,
                  conn, toClient, client_vars, app_vars, expired>>
  BY DEF TranRecv
<1>c. /\ toBroker \in [Pipe -> Seq(Up)] /\ toBroker[p] \in Seq(Up)
      /\ quota \in [Pipe -> Nat] /\ rx \in [Pipe -> Up \union {Nothing}]
      /\ nano_qos_db \in [Pid -> Msg \union {None}]
  BY <1>1 DEF Types, NetTypes, TranTypes, DbTypes
<1>d. pkt \in Up /\ Tail(toBroker[p]) \in Seq(Up)
  BY <1>a, <1>c
<1>e. /\ toBroker' \in [Pipe -> Seq(Up)]
      /\ \A q \in Pipe \ {p} : toBroker'[q] = toBroker[q]
      /\ InUp(p) = InUp(p)' + 1
  <2>1. toBroker'[p] = Tail(toBroker[p])
    BY <1>a, <1>c DEF Set
  <2>2. InUp(p) = InUp(p)' + One(pkt.t, {"ack", "rec", "comp"})
    BY <1>a, <1>c, <2>1, CountTail, ZenonT(60) DEF InUp
  <2> QED
    BY <1>a, <1>c, <1>d, <2>2 DEF Set, One
<1>f. /\ rx' \in [Pipe -> Up \union {Nothing}] /\ \A q \in Pipe \ {p} : rx'[q] = rx[q]
      /\ (rx'[p] = pkt \/ (pkt.t # "rec" /\ rx'[p] = Nothing))
  <2>1. rx' = Set(rx, p, pkt) \/ (pkt.t # "rec" /\ rx' = rx)
    BY <1>a
  <2>2. CASE rx' = Set(rx, p, pkt)
    BY <1>c, <1>d, <2>2 DEF Set
  <2>3. CASE pkt.t # "rec" /\ rx' = rx
    BY <1>a, <1>c, <2>3
  <2> QED
    BY <2>1, <2>2, <2>3
<1>g. /\ quota' \in [Pipe -> Nat] /\ \A q \in Pipe \ {p} : quota'[q] = quota[q]
      /\ quota'[p] = quota[p] + (IF pkt.t # "rec" /\ rxmax > 0 THEN 1 ELSE 0)
  <2>1. \/ pkt.t # "rec" /\ rxmax > 0 /\ quota' = Set(quota, p, quota[p] + 1)
        \/ ~(pkt.t # "rec" /\ rxmax > 0) /\ quota' = quota
    BY <1>a
  <2>2. CASE pkt.t # "rec" /\ rxmax > 0 /\ quota' = Set(quota, p, quota[p] + 1)
    BY <1>c, <2>2 DEF Set
  <2>3. CASE ~(pkt.t # "rec" /\ rxmax > 0) /\ quota' = quota
    BY <1>c, <2>3
  <2> QED
    BY <2>1, <2>2, <2>3
<1>h. nano_qos_db' \in [Pid -> Msg \union {None}]
  BY <1>a, <1>c DEF Set
<1>2. Types'
  <2>1. NetTypes'
    BY <1>1, <1>b, <1>e DEF Types, NetTypes
  <2>2. TranTypes'
    BY <1>1, <1>b, <1>f, <1>g DEF Types, TranTypes
  <2>3. DbTypes'
    BY <1>1, <1>b, <1>h DEF Types, DbTypes
  <2>4. NanoTypes' /\ ThrTypes' /\ AppTypes'
    BY <1>1, <1>b DEF Types, NanoTypes, ThrTypes, AppTypes, nano_vars, thr_vars, client_vars,
                      app_vars
  <2> QED
    BY <2>1, <2>2, <2>3, <2>4 DEF Types
<1>3. Only(p)
  BY <1>b, <1>e, <1>f, <1>g DEF Only, nano_vars, thr_vars
<1>4. Still(p)
  BY <1>b DEF Still, nano_vars, thr_vars, client_vars
<1>5. SendP(p)'
  BY <1>b DEF Inv, PipeInv, SendP, nano_vars, thr_vars
<1>6. rxmax > 0 => quota'[p] + Open(p)' <= quota[p] + Open(p)
  <2>1. InQueue(p)' = InQueue(p) /\ InDown(p)' = InDown(p) /\ quota[p] \in Nat
    BY <1>b, <1>c, OpenParts DEF nano_vars
  <2>2. InRx(p) = 0 /\ InRx(p)' = IF pkt.t = "rec" THEN 1 ELSE 0
    BY <1>a, <1>f DEF InRx, One, Nothing, Packet
  <2>3. /\ Open(p) = InDown(p) + InUp(p) + InQueue(p) + InRx(p)
        /\ InDown(p) \in Nat /\ InUp(p) \in Nat /\ InQueue(p) \in Nat
    BY <1>1, OpenIs
  <2>4. Open(p)' = InDown(p)' + InUp(p)' + InQueue(p)' + InRx(p)' /\ InUp(p)' \in Nat
    BY <1>2, OpenIsNext
  <2>5. quota'[p] = quota[p] + (IF pkt.t # "rec" /\ rxmax > 0 THEN 1 ELSE 0)
        /\ InUp(p) = InUp(p)' + 1
    BY <1>e, <1>g
  <2> QED
    BY <2>1, <2>2, <2>3, <2>4, <2>5
<1>7. p <= s_pipes
  BY <1>a, Active
<1> QED
  BY <1>2, <1>3, <1>4, <1>5, <1>6, <1>7, OnePipe

\* The next pipe takes the session over; the one before is closed for good.
LEMMA nano_pipe_startStep == ASSUME Inv, NEW q \in Pipe, nano_pipe_start(q) PROVE Inv'
<1>1. Types
  BY DEF Inv
<1>a. /\ s_pipes = q - 1 /\ conn' = Set(conn, q, TRUE) /\ s_pipes' = q /\ holder' = q
      /\ due' = due \union {q}
      /\ \/ q = 1 /\ UNCHANGED <<cache, tclosed>>
         \/ /\ q > 1 /\ cache[q - 1]
            /\ cache' = Set(cache, q - 1, FALSE) /\ tclosed' = Set(tclosed, q - 1, TRUE)
  BY DEF nano_pipe_start
<1>b. UNCHANGED <<busy, connacked, rid, closed, rlmq, cap, lk, prov, thr_vars, tx, rx, quota,
                  nano_qos_db, packet_id, stored, toClient, toBroker, client_vars, sent, expired>>
  BY DEF nano_pipe_start
<1>c. /\ cache' \in [Pipe -> BOOLEAN] /\ tclosed' \in [Pipe -> BOOLEAN]
      /\ conn' \in [Pipe -> BOOLEAN]
      /\ \A p \in Pipe : p # q => conn'[p] = conn[p]
      /\ \A p \in Pipe : q - 1 # p => tclosed'[p] = tclosed[p] /\ cache'[p] = cache[p]
      /\ q - 1 \in Pipe => tclosed'[q - 1]
  <2>1. /\ cache \in [Pipe -> BOOLEAN] /\ tclosed \in [Pipe -> BOOLEAN]
        /\ conn \in [Pipe -> BOOLEAN]
    BY <1>1 DEF Types, TranTypes, NetTypes
  <2>2. conn' \in [Pipe -> BOOLEAN] /\ \A p \in Pipe : p # q => conn'[p] = conn[p]
    BY <1>a, <2>1 DEF Set
  <2>3. CASE q = 1 /\ UNCHANGED <<cache, tclosed>>
    <3>1. q - 1 \notin Pipe
      BY <2>3 DEF Pipe
    <3> QED
      BY <2>1, <2>2, <2>3, <3>1
  <2>4. CASE q > 1 /\ cache' = Set(cache, q - 1, FALSE) /\ tclosed' = Set(tclosed, q - 1, TRUE)
    BY <2>1, <2>2, <2>4 DEF Set
  <2> QED
    BY <1>a, <2>3, <2>4
<1>2. Types'
  <2>1. NanoTypes'
    BY <1>1, <1>a, <1>b DEF Types, NanoTypes, Pipe
  <2>2. ThrTypes' /\ AppTypes'
    BY <1>1, <1>a, <1>b DEF Types, ThrTypes, AppTypes, thr_vars, client_vars
  <2>3. TranTypes' /\ NetTypes'
    BY <1>1, <1>b, <1>c DEF Types, TranTypes, NetTypes
  <2>4. DbTypes'
    BY <1>1, <1>a, <1>b DEF Types, DbTypes, Pipe
  <2> QED
    BY <2>1, <2>2, <2>3, <2>4 DEF Types
<1>d. q \in Nat /\ s_pipes \in Nat /\ ctx.p \in Nat
  BY <1>1 DEF Types, NanoTypes, ThrTypes, Pipe
<1>3. Moves'
  <2>1. \A p \in Pipe : p < q => tclosed'[p]
    BY <1>a, <1>c, <1>d DEF Inv, Moves, Pipe
  <2> QED
    BY <1>a, <1>b, <1>d, <2>1 DEF Inv, Moves, thr_vars
<1>4. ASSUME NEW p \in Pipe PROVE PipeInv(p)'
  <2>1. YoungP(p)'
    <3> SUFFICES ASSUME p > q
                 PROVE  /\ tx[p] = <<>> /\ lk[p] = "free" /\ tmr[p] = "idle" /\ rx[p] = Nothing
                        /\ ~conn[p] /\ ~tclosed[p] /\ p # q /\ q - 1 # p
      BY <1>a, <1>b, <1>c DEF YoungP, thr_vars
    <3>1. p > s_pipes /\ p # q /\ q - 1 # p
      BY <1>a, <1>d DEF Pipe
    <3> QED
      BY <3>1 DEF Inv, PipeInv, YoungP
  <2>2. SendP(p)'
    BY <1>b, <1>c DEF Inv, PipeInv, SendP, thr_vars
  <2>3. WindowP(p)'
    <3>1. Open(p)' = Open(p)
      BY <1>b DEF Open
    <3> QED
      BY <1>b, <3>1 DEF Inv, PipeInv, WindowP, client_vars
  <2> QED
    BY <2>1, <2>2, <2>3 DEF PipeInv
<1> QED
  BY <1>2, <1>3, <1>4 DEF Inv

\* The next id to look at is an id.
LEMMA RidType == \A pid \in Pid : Rid(pid) \in Pid
BY SizesAssumption DEF Rid, Pid

\* What the search for a message to repeat leaves behind.
LEMMA PickFacts ==
    ASSUME Types, NEW p \in Pipe, NEW from \in Pid, NEW late, NEW old,
           NEW who \in {"tmr", "rcv"}, Pick(p, from, late, old, who)
    PROVE  /\ DbTypes' /\ holder' = holder /\ expired' \subseteq Msg
           /\ pick' \in [Pipe -> [m : Msg \union {None}, pid : 0..PidMax]]
           /\ lk' \in [Pipe -> {"free", "ctx", "tmr", "rcv"}]
           /\ \A q \in Pipe \ {p} : pick'[q] = pick[q] /\ lk'[q] = lk[q]
           /\ \/ lk'[p] = who /\ pick'[p].m \in Msg /\ pick'[p].pid \in Pid
              \/ UNCHANGED <<pick, lk>>
<1>1. /\ nano_qos_db \in [Pid -> Msg \union {None}] /\ expired \subseteq Msg
      /\ pick \in [Pipe -> [m : Msg \union {None}, pid : 0..PidMax]]
      /\ lk \in [Pipe -> {"free", "ctx", "tmr", "rcv"}]
  BY DEF Types, DbTypes, AppTypes, ThrTypes, NanoTypes
<1>2. \A i \in Held(p) : Db(p)[i] = nano_qos_db[i] /\ nano_qos_db[i] \in Msg
  BY <1>1 DEF Held, Db
<1>3. Passed(p, from, late) \subseteq Held(p) /\ Fresh(p, late) \subseteq Held(p)
      /\ Held(p) \subseteq Pid
  BY DEF Passed, Fresh, Held
<1>4. DbTypes' /\ holder' = holder
  <2>1. nano_qos_db' \in [Pid -> Msg \union {None}]
    BY <1>1 DEF Pick
  <2> QED
    BY <2>1 DEF Pick, Types, DbTypes
<1>5. expired' \subseteq Msg
  <2>1. expired' = expired \union {nano_qos_db[i] : i \in Passed(p, from, late)}
    BY DEF Pick
  <2> QED
    BY <1>1, <1>2, <1>3, <2>1
<1>6. CASE old /\ Fresh(p, late) # {}
  <2> DEFINE F == Fresh(p, late)
  <2>1. PICK i : i = First(p, from, late)
    OBVIOUS
  <2>2. i \in F
    <3>1. F \in SUBSET Pid /\ F # {}
      BY <1>3, <1>6
    <3> HIDE DEF F
    <3>2. Nearest(from, F) \in F
      BY <3>1, NearestIn
    <3> USE DEF F
    <3> QED
      BY <2>1, <3>2 DEF First
  <2>3. i \in Pid /\ Db(p)[i] \in Msg
    BY <1>2, <1>3, <2>2
  <2>4. pick' = Set(pick, p, [m |-> Db(p)[i], pid |-> i]) /\ lk' = Set(lk, p, who)
    BY <1>6, <2>1 DEF Pick
  <2>5. PICK x \in Msg : x = Db(p)[i]
    BY <2>3
  <2>6. i \in 0..PidMax
    BY <2>3 DEF Pid
  <2>7. /\ pick' \in [Pipe -> [m : Msg \union {None}, pid : 0..PidMax]]
        /\ pick'[p].m = x /\ pick'[p].pid = i /\ \A q \in Pipe \ {p} : pick'[q] = pick[q]
    BY <1>1, <2>4, <2>5, <2>6 DEF Set
  <2>8. /\ lk' \in [Pipe -> {"free", "ctx", "tmr", "rcv"}]
        /\ lk'[p] = who /\ \A q \in Pipe \ {p} : lk'[q] = lk[q]
    BY <1>1, <2>4 DEF Set
  <2> QED
    BY <1>4, <1>5, <2>3, <2>7, <2>8
<1>7. CASE ~(old /\ Fresh(p, late) # {})
  <2>1. UNCHANGED <<pick, lk>>
    BY <1>7 DEF Pick
  <2> QED
    BY <1>1, <1>4, <1>5, <2>1
<1> QED
  BY <1>6, <1>7

LEMMA TimerPickStep ==
    ASSUME Inv, NEW p \in Pipe, NEW late, NEW old, TimerPick(p, late, old)
    PROVE  Inv'
<1>1. Types
  BY DEF Inv
<1>a. /\ tmr[p] = "tested" /\ lk[p] = "free" /\ ~busy[p]
      /\ Pick(p, rid[p], late, old, "tmr")
      /\ tmr' = Set(tmr, p, IF lk'[p] = "tmr" THEN "picked" ELSE "idle")
  BY DEF TimerPick
<1>b. UNCHANGED <<s_pipes, busy, connacked, rid, closed, rlmq, cap, prov, ctx, tran_vars,
                  net_vars, client_vars, app_vars>>
  BY DEF TimerPick
<1>c. PICK from \in Pid : from = rid[p]
  BY <1>1 DEF Types, NanoTypes
<1>d. /\ DbTypes' /\ holder' = holder /\ expired' \subseteq Msg
      /\ pick' \in [Pipe -> [m : Msg \union {None}, pid : 0..PidMax]]
      /\ lk' \in [Pipe -> {"free", "ctx", "tmr", "rcv"}]
      /\ \A q \in Pipe \ {p} : pick'[q] = pick[q] /\ lk'[q] = lk[q]
      /\ \/ lk'[p] = "tmr" /\ pick'[p].m \in Msg /\ pick'[p].pid \in Pid
         \/ UNCHANGED <<pick, lk>>
  BY <1>1, <1>a, <1>c, PickFacts
<1>e. /\ tmr' \in [Pipe -> {"idle", "tested", "picked"}]
      /\ \A q \in Pipe \ {p} : tmr'[q] = tmr[q]
  BY <1>1, <1>a DEF Types, ThrTypes, Set
<1>2. Types'
  <2>1. NanoTypes'
    BY <1>1, <1>b, <1>d DEF Types, NanoTypes
  <2>2. ThrTypes'
    BY <1>1, <1>b, <1>d, <1>e DEF Types, ThrTypes
  <2>3. TranTypes' /\ NetTypes' /\ AppTypes'
    BY <1>1, <1>b, <1>d DEF Types, TranTypes, NetTypes, AppTypes, tran_vars, net_vars,
                            client_vars, app_vars
  <2> QED
    BY <1>d, <2>1, <2>2, <2>3 DEF Types
<1>3. Only(p)
  BY <1>b, <1>d, <1>e DEF Only, tran_vars, net_vars
<1>4. Still(p)
  BY <1>b, <1>d DEF Still, tran_vars, client_vars
<1>5. SendP(p)'
  BY <1>a, <1>b, <1>d DEF Inv, PipeInv, SendP, tran_vars
<1>6. rxmax > 0 => quota'[p] + Open(p)' <= quota[p] + Open(p)
  BY <1>1, <1>2, <1>b, SameWindow DEF tran_vars, net_vars
<1>7. p <= s_pipes
  BY <1>a, Active
<1> QED
  BY <1>2, <1>3, <1>4, <1>5, <1>6, <1>7, OnePipe

\* A send takes from the window what it adds to what goes to the client.
LEMMA SumOf ==
    ASSUME NEW q0 \in Nat, NEW q1 \in Nat, NEW d0 \in Nat, NEW d1 \in Nat, NEW u \in Nat,
           NEW n0 \in Nat, NEW n1 \in Nat, NEW r0 \in Nat, NEW r1 \in Nat, NEW k \in Nat,
           q1 + d1 <= q0 + d0 + k, n1 + r1 + k <= n0 + r0
    PROVE  q1 + (d1 + u + n1 + r1) <= q0 + (d0 + u + n0 + r0)
OBVIOUS

\* What a caller that finds the handle free leaves of it: one send.
LEMMA Started ==
    ASSUME Inv, NEW p \in Pipe, ~busy[p], NEW r \in {"wire", "ok", "err"},
           tx' = Set(tx, p, Append(tx[p], r)), busy' = Set(busy, p, TRUE)
    PROVE  /\ tx' \in [Pipe -> Seq({"wire", "ok", "err"})] /\ busy' \in [Pipe -> BOOLEAN]
           /\ tx[p] = <<>> /\ tx'[p] # <<>> /\ Len(tx'[p]) <= 1 /\ busy'[p]
           /\ \A q \in Pipe \ {p} : tx'[q] = tx[q] /\ busy'[q] = busy[q]
<1>1. tx \in [Pipe -> Seq({"wire", "ok", "err"})] /\ busy \in [Pipe -> BOOLEAN]
  BY DEF Inv, Types, TranTypes, NanoTypes
<1>2. tx[p] = <<>>
  BY DEF Inv, PipeInv, SendP
<1>3. Append(<<>>, r) \in Seq({"wire", "ok", "err"}) /\ Append(<<>>, r) # <<>>
      /\ Len(Append(<<>>, r)) = 1
  OBVIOUS
<1> QED
  BY <1>1, <1>2, <1>3 DEF Set

\* The repeated send, for both callers.
LEMMA ResendStep ==
    ASSUME Inv, NEW p \in Pipe, NEW who \in {"tmr", "rcv"}, Resend(p, who),
           \/ tmr' = Set(tmr, p, "idle") /\ rx' = rx
           \/ tmr' = tmr /\ rx' = Set(rx, p, Nothing)
    PROVE  Inv'
<1>1. Types
  BY DEF Inv
<1>a. /\ lk[p] = who
      /\ rid' = Set(rid, p, Rid(pick[p].pid)) /\ busy' = Set(busy, p, TRUE)
      /\ prov' = Set(prov, p, pick[p].pid)
      /\ tcptran_pipe_send(p, Pub(pick[p].m), pick[p].pid, tx[p])
      /\ lk' = Set(lk, p, "free") /\ pick' = Set(pick, p, [m |-> None, pid |-> 0])
  BY DEF Resend
<1>b. UNCHANGED <<s_pipes, connacked, closed, rlmq, cap, ctx, client_vars, app_vars, expired>>
  BY DEF Resend
<1>c. ~busy[p] /\ pick[p].m \in Msg /\ pick[p].pid \in Pid /\ ctx.p # p
  BY <1>a DEF Inv, PipeInv, SendP
<1>d. PICK pid \in Pid : pid = pick[p].pid
  BY <1>c
<1>e. PICK it \in Waiting : it = Pub(pick[p].m) /\ it.t = "pub"
  BY <1>c, OfferedItems DEF Pub, Packet
<1>f. PICK others \in Seq({"wire", "ok", "err"}) : others = tx[p]
  BY <1>1 DEF Types, TranTypes
<1>g. pid \in 0..PidMax /\ Rid(pid) \in Pid
  BY RidType DEF Pid
<1>h. /\ \E r \in {"wire", "ok", "err"} : tx' = Set(tx, p, Append(others, r))
      /\ quota' \in [Pipe -> Nat] /\ toClient' \in [Pipe -> Seq(Down)]
      /\ nano_qos_db' \in [Pid -> Msg \union {None}] /\ packet_id' \in 0..PidMax
      /\ stored' \subseteq Msg
      /\ UNCHANGED <<cache, tclosed, holder, conn, toBroker>>
      /\ \A q \in Pipe \ {p} : quota'[q] = quota[q] /\ toClient'[q] = toClient[q]
      /\ rxmax > 0 =>
           quota'[p] + InDown(p)' <= quota[p] + InDown(p) + One(it.t, {"rel"})
  <2>1. tcptran_pipe_send(p, it, pid, others)
    BY <1>a, <1>d, <1>e, <1>f
  <2> QED
    BY <1>1, <1>g, <2>1, Sends
<1>i. PICK r \in {"wire", "ok", "err"} : tx' = Set(tx, p, Append(tx[p], r))
  BY <1>f, <1>h
<1>j. /\ tx' \in [Pipe -> Seq({"wire", "ok", "err"})] /\ busy' \in [Pipe -> BOOLEAN]
      /\ tx[p] = <<>> /\ tx'[p] # <<>> /\ Len(tx'[p]) <= 1 /\ busy'[p]
      /\ \A q \in Pipe \ {p} : tx'[q] = tx[q] /\ busy'[q] = busy[q]
  BY <1>a, <1>c, <1>i, Started
<1>k. /\ tmr' \in [Pipe -> {"idle", "tested", "picked"}]
      /\ rx' \in [Pipe -> Up \union {Nothing}]
      /\ \A q \in Pipe \ {p} : tmr'[q] = tmr[q] /\ rx'[q] = rx[q]
      /\ rx'[p] = rx[p] \/ rx'[p] = Nothing
  BY <1>1 DEF Types, ThrTypes, TranTypes, Set
<1>l. /\ rid' \in [Pipe -> Pid] /\ prov' \in [Pipe -> 0..PidMax]
      /\ lk' \in [Pipe -> {"free", "ctx", "tmr", "rcv"}]
      /\ lk'[p] = "free" /\ \A q \in Pipe \ {p} : lk'[q] = lk[q]
  BY <1>1, <1>a, <1>d, <1>g DEF Types, NanoTypes, Set
<1>m. /\ pick' \in [Pipe -> [m : Msg \union {None}, pid : 0..PidMax]]
      /\ \A q \in Pipe \ {p} : pick'[q] = pick[q]
  BY <1>1, <1>a, SizesAssumption DEF Types, ThrTypes, Set
<1>2. Types'
  <2>1. NanoTypes'
    BY <1>1, <1>b, <1>j, <1>l DEF Types, NanoTypes
  <2>2. ThrTypes'
    BY <1>1, <1>b, <1>k, <1>m DEF Types, ThrTypes
  <2>3. TranTypes'
    BY <1>1, <1>h, <1>j, <1>k DEF Types, TranTypes
  <2>4. NetTypes' /\ DbTypes'
    BY <1>1, <1>h DEF Types, NetTypes, DbTypes
  <2>5. AppTypes'
    BY <1>1, <1>b DEF Types, AppTypes, client_vars, app_vars
  <2> QED
    BY <2>1, <2>2, <2>3, <2>4, <2>5 DEF Types
<1>3. Only(p)
  BY <1>b, <1>h, <1>j, <1>k, <1>l, <1>m DEF Only
<1>4. Still(p)
  BY <1>b, <1>h DEF Still, client_vars
<1>5. SendP(p)'
  BY <1>b, <1>c, <1>j, <1>l DEF SendP
<1>6. rxmax > 0 => quota'[p] + Open(p)' <= quota[p] + Open(p)
  <2>1. InQueue(p)' = InQueue(p) /\ InUp(p)' = InUp(p) /\ quota[p] \in Nat /\ quota'[p] \in Nat
    BY <1>1, <1>b, <1>h, OpenParts DEF Types, TranTypes
  <2>2. InRx(p)' = InRx(p) \/ InRx(p)' = 0
    BY <1>k, OpenParts
  <2>3. /\ Open(p) = InDown(p) + InUp(p) + InQueue(p) + InRx(p)
        /\ InDown(p) \in Nat /\ InUp(p) \in Nat /\ InQueue(p) \in Nat /\ InRx(p) \in Nat
    BY <1>1, OpenIs
  <2>4. Open(p)' = InDown(p)' + InUp(p)' + InQueue(p)' + InRx(p)' /\ InDown(p)' \in Nat
    BY <1>2, OpenIsNext
  <2>5. rxmax > 0 => quota'[p] + InDown(p)' <= quota[p] + InDown(p)
    BY <1>e, <1>h, <2>1, <2>3 DEF One
  <2>6. InRx(p)' <= InRx(p) /\ InRx(p)' \in Nat
    BY <2>2, <2>3
  <2> SUFFICES ASSUME rxmax > 0 PROVE quota'[p] + Open(p)' <= quota[p] + Open(p)
    OBVIOUS
  <2>7. quota'[p] + InDown(p)' <= quota[p] + InDown(p) + 0
    BY <2>1, <2>3, <2>5
  <2>8. InQueue(p) + InRx(p)' + 0 <= InQueue(p) + InRx(p)
    BY <2>3, <2>6
  <2> QED
    BY <2>1, <2>3, <2>4, <2>6, <2>7, <2>8, SumOf, SMTT(60)
<1>7. p <= s_pipes
  BY <1>a, Active
<1> QED
  BY <1>2, <1>3, <1>4, <1>5, <1>6, <1>7, OnePipe

LEMMA TimerResendStep == ASSUME Inv, NEW p \in Pipe, TimerResend(p) PROVE Inv'
BY ResendStep DEF TimerResend

LEMMA BatchResendStep == ASSUME Inv, NEW p \in Pipe, BatchResend(p) PROVE Inv'
BY ResendStep DEF BatchResend

\* A send, or none, whose item leaves the queue or the receive callback.
LEMMA SendWindow ==
    ASSUME Types, Types', NEW p \in Pipe, NEW k \in Nat, toBroker'[p] = toBroker[p],
           rxmax > 0 => quota'[p] + InDown(p)' <= quota[p] + InDown(p) + k,
           InQueue(p)' + InRx(p)' + k <= InQueue(p) + InRx(p)
    PROVE  rxmax > 0 => quota'[p] + Open(p)' <= quota[p] + Open(p)
<1> SUFFICES ASSUME rxmax > 0 PROVE quota'[p] + Open(p)' <= quota[p] + Open(p)
  OBVIOUS
<1>1. InUp(p)' = InUp(p) /\ quota[p] \in Nat /\ quota'[p] \in Nat
  BY OpenParts DEF Types, TranTypes
<1>2. /\ Open(p) = InDown(p) + InUp(p) + InQueue(p) + InRx(p)
      /\ InDown(p) \in Nat /\ InUp(p) \in Nat /\ InQueue(p) \in Nat /\ InRx(p) \in Nat
  BY OpenIs
<1>3. /\ Open(p)' = InDown(p)' + InUp(p)' + InQueue(p)' + InRx(p)'
      /\ InDown(p)' \in Nat /\ InQueue(p)' \in Nat /\ InRx(p)' \in Nat
  BY OpenIsNext
<1> QED
  BY <1>1, <1>2, <1>3, SumOf

LEMMA EnqueueFacts ==
    ASSUME Types, NEW p \in Pipe, NEW it \in Waiting, Enqueue(p, it)
    PROVE  /\ rlmq' \in [Pipe -> Seq(Waiting)] /\ cap' \in [Pipe -> Nat]
           /\ \A q \in Pipe \ {p} : rlmq'[q] = rlmq[q]
           /\ InQueue(p)' <= InQueue(p) + One(it.t, {"rel"}) /\ InQueue(p)' \in Nat
<1>1. rlmq \in [Pipe -> Seq(Waiting)] /\ cap \in [Pipe -> Nat] /\ rlmq[p] \in Seq(Waiting)
      /\ cap[p] \in Nat
  BY DEF Types, NanoTypes
<1>2. InQueue(p) \in Nat /\ One(it.t, {"rel"}) \in Nat
  BY OpenIs DEF One
<1>3. CASE rlmq' = Set(rlmq, p, Append(rlmq[p], it))
  <2>1. cap' = cap \/ cap' = Set(cap, p, 2 * cap[p])
    BY DEF Enqueue
  <2>2. rlmq'[p] = Append(rlmq[p], it) /\ \A q \in Pipe \ {p} : rlmq'[q] = rlmq[q]
    BY <1>1, <1>3 DEF Set
  <2>3. InQueue(p)' = InQueue(p) + One(it.t, {"rel"})
    BY <1>1, <2>2, CountAppend DEF InQueue
  <2>4. Append(rlmq[p], it) \in Seq(Waiting)
    BY <1>1
  <2>5. rlmq' \in [Pipe -> Seq(Waiting)]
    BY <1>1, <1>3, <2>4 DEF Set
  <2>6. cap' \in [Pipe -> Nat]
    BY <1>1, <2>1 DEF Set
  <2> QED
    BY <1>2, <2>2, <2>3, <2>5, <2>6
<1>4. CASE UNCHANGED <<rlmq, cap>>
  BY <1>1, <1>2, <1>4, OpenParts
<1> QED
  BY <1>3, <1>4 DEF Enqueue

\* nano_ctx_send: sent at once, or queued behind what is in progress.
LEMMA nano_ctx_sendStep == ASSUME Inv, nano_ctx_send PROVE Inv'
<1>1. Types
  BY DEF Inv
<1>a. PICK p \in Pipe : p = ctx.p
  BY <1>1 DEF nano_ctx_send, Types, ThrTypes, Pipe, None
<1>b. PICK it \in Offered : it = ctx.it
  BY <1>1, <1>a DEF Inv, Moves, Types, ThrTypes, nano_ctx_send, Pipe, None
<1>c. PICK acked \in BOOLEAN : acked = (connacked[p] \/ it = Connack)
  OBVIOUS
<1>d. /\ connacked' = Set(connacked, p, acked)
      /\ \/ /\ ~busy[p] /\ acked /\ busy' = Set(busy, p, TRUE)
            /\ tcptran_pipe_send(p, it, prov[p], tx[p])
            /\ UNCHANGED <<rlmq, cap>>
         \/ (busy[p] \/ ~acked) /\ Enqueue(p, it) /\ NoSend /\ busy' = busy
      /\ lk' = Set(lk, p, "free") /\ ctx' = [it |-> Nothing, p |-> None]
  BY <1>a, <1>b, <1>c DEF nano_ctx_send
<1>e. UNCHANGED <<s_pipes, rid, closed, prov, tmr, pick, rx, client_vars, app_vars, expired>>
  BY DEF nano_ctx_send
<1>f. it \in Waiting /\ One(it.t, {"rel"}) = 0
  BY OfferedItems DEF Offered, One
<1>g. lk[p] = "ctx"
  BY <1>a DEF Inv, PipeInv, SendP
<1>h. /\ connacked' \in [Pipe -> BOOLEAN] /\ lk' \in [Pipe -> {"free", "ctx", "tmr", "rcv"}]
      /\ lk'[p] = "free" /\ \A q \in Pipe \ {p} : lk'[q] = lk[q]
  BY <1>1, <1>d DEF Types, NanoTypes, Set
<1>i. ThrTypes' /\ AppTypes'
  <2>1. ctx' \in [it : Offered \union {Nothing}, p : 0..NPipes]
    BY <1>d, SizesAssumption DEF None
  <2> QED
    BY <1>1, <1>e, <2>1 DEF Types, ThrTypes, AppTypes, client_vars, app_vars
<1>j. ctx'.p = None /\ ctx'.p # p
  BY <1>d DEF None, Pipe
<1>k. p <= s_pipes
  BY <1>g, Active
<1>2. CASE /\ ~busy[p] /\ busy' = Set(busy, p, TRUE)
           /\ tcptran_pipe_send(p, it, prov[p], tx[p]) /\ UNCHANGED <<rlmq, cap>>
  <2>1. PICK pid \in 0..PidMax : pid = prov[p]
    BY <1>1 DEF Types, NanoTypes
  <2>2. PICK others \in Seq({"wire", "ok", "err"}) : others = tx[p]
    BY <1>1 DEF Types, TranTypes
  <2>3. tcptran_pipe_send(p, it, pid, others)
    BY <1>2, <2>1, <2>2
  <2>4. /\ \E r \in {"wire", "ok", "err"} : tx' = Set(tx, p, Append(others, r))
        /\ quota' \in [Pipe -> Nat] /\ toClient' \in [Pipe -> Seq(Down)]
        /\ nano_qos_db' \in [Pid -> Msg \union {None}] /\ packet_id' \in 0..PidMax
        /\ stored' \subseteq Msg
        /\ UNCHANGED <<cache, tclosed, holder, conn, toBroker>>
        /\ \A q \in Pipe \ {p} : quota'[q] = quota[q] /\ toClient'[q] = toClient[q]
        /\ rxmax > 0 =>
             quota'[p] + InDown(p)' <= quota[p] + InDown(p) + One(it.t, {"rel"})
    BY <1>1, <1>f, <2>3, Sends
  <2>5. PICK r \in {"wire", "ok", "err"} : tx' = Set(tx, p, Append(tx[p], r))
    BY <2>2, <2>4
  <2>6. /\ tx' \in [Pipe -> Seq({"wire", "ok", "err"})] /\ busy' \in [Pipe -> BOOLEAN]
        /\ tx[p] = <<>> /\ tx'[p] # <<>> /\ Len(tx'[p]) <= 1 /\ busy'[p]
        /\ \A q \in Pipe \ {p} : tx'[q] = tx[q] /\ busy'[q] = busy[q]
    BY <1>2, <2>5, Started
  <2>7. Types'
    <3>1. NanoTypes'
      BY <1>1, <1>2, <1>e, <1>h, <2>6 DEF Types, NanoTypes
    <3>2. TranTypes'
      BY <1>1, <1>e, <2>4, <2>6 DEF Types, TranTypes
    <3>3. NetTypes' /\ DbTypes'
      BY <1>1, <2>4 DEF Types, NetTypes, DbTypes
    <3> QED
      BY <1>i, <3>1, <3>2, <3>3 DEF Types
  <2>8. Only(p)
    BY <1>2, <1>e, <1>h, <2>4, <2>6 DEF Only
  <2>9. Still(p)
    BY <1>e, <1>j, <2>4 DEF Still, client_vars
  <2>10. SendP(p)'
    BY <1>h, <1>j, <2>6 DEF SendP
  <2>11. rxmax > 0 => quota'[p] + Open(p)' <= quota[p] + Open(p)
    <3>1. InQueue(p)' = InQueue(p) /\ InRx(p)' = InRx(p) /\ toBroker'[p] = toBroker[p]
      BY <1>2, <1>e, <2>4, OpenParts
    <3>2. InQueue(p)' + InRx(p)' + 0 <= InQueue(p) + InRx(p)
      BY <1>1, <3>1, OpenIs
    <3>3. rxmax > 0 => quota'[p] + InDown(p)' <= quota[p] + InDown(p) + 0
      BY <1>f, <2>4
    <3> QED
      BY <1>1, <2>7, <3>1, <3>2, <3>3, SendWindow
  <2> QED
    BY <1>k, <2>7, <2>8, <2>9, <2>10, <2>11, OnePipe
<1>3. CASE Enqueue(p, it) /\ NoSend /\ busy' = busy
  <2>1. /\ rlmq' \in [Pipe -> Seq(Waiting)] /\ cap' \in [Pipe -> Nat]
        /\ \A q \in Pipe \ {p} : rlmq'[q] = rlmq[q]
        /\ InQueue(p)' <= InQueue(p) + One(it.t, {"rel"}) /\ InQueue(p)' \in Nat
    BY <1>1, <1>3, <1>f, EnqueueFacts
  <2>2. Types'
    <3>1. NanoTypes'
      BY <1>1, <1>3, <1>e, <1>h, <2>1 DEF Types, NanoTypes
    <3>2. TranTypes' /\ NetTypes' /\ DbTypes'
      BY <1>1, <1>3, <1>e DEF Types, TranTypes, NetTypes, DbTypes, NoSend, net_vars, db_vars
    <3> QED
      BY <1>i, <3>1, <3>2 DEF Types
  <2>3. Only(p)
    BY <1>3, <1>e, <1>h, <2>1 DEF Only, NoSend, net_vars
  <2>4. Still(p)
    BY <1>3, <1>e, <1>j DEF Still, client_vars, NoSend, db_vars
  <2>5. SendP(p)'
    BY <1>3, <1>e, <1>h, <1>j DEF Inv, PipeInv, SendP, NoSend
  <2>6. rxmax > 0 => quota'[p] + Open(p)' <= quota[p] + Open(p)
    <3>1. /\ InRx(p)' = InRx(p) /\ InDown(p)' = InDown(p) /\ quota'[p] = quota[p]
          /\ toBroker'[p] = toBroker[p]
      BY <1>3, <1>e, OpenParts DEF NoSend, net_vars
    <3>2. InQueue(p) \in Nat /\ InRx(p) \in Nat /\ InDown(p) \in Nat /\ quota[p] \in Nat
      BY <1>1, OpenIs DEF Types, TranTypes
    <3>3. InQueue(p)' + InRx(p)' + 0 <= InQueue(p) + InRx(p)
      BY <1>f, <2>1, <3>1, <3>2
    <3>4. quota'[p] + InDown(p)' <= quota[p] + InDown(p) + 0
      BY <3>1, <3>2
    <3> QED
      BY <1>1, <2>2, <3>1, <3>3, <3>4, SendWindow
  <2> QED
    BY <1>k, <2>2, <2>3, <2>4, <2>5, <2>6, OnePipe
<1> QED
  BY <1>2, <1>3, <1>d

\* nano_pipe_send_cb: the handle goes on with the next item, becomes free, or
\* stays marked on a pipe that is closed.
LEMMA nano_pipe_send_cbStep == ASSUME Inv, NEW p \in Pipe, nano_pipe_send_cb(p) PROVE Inv'
<1>1. Types
  BY DEF Inv
<1>a. tx[p] # <<>> /\ lk[p] = "free"
  BY DEF nano_pipe_send_cb
<1>b. UNCHANGED <<s_pipes, connacked, rid, closed, cap, lk, thr_vars, rx, client_vars, app_vars,
                  expired>>
  BY DEF nano_pipe_send_cb
<1>c. /\ tx \in [Pipe -> Seq({"wire", "ok", "err"})] /\ busy \in [Pipe -> BOOLEAN]
      /\ prov \in [Pipe -> 0..PidMax] /\ rlmq \in [Pipe -> Seq(Waiting)]
      /\ rlmq[p] \in Seq(Waiting)
  BY <1>1 DEF Types, NanoTypes, TranTypes
<1>d. Tail(tx[p]) = <<>> /\ busy[p]
  <2>1. Len(tx[p]) <= 1 /\ busy[p] /\ tx[p] \in Seq({"wire", "ok", "err"})
    BY <1>a, <1>c DEF Inv, PipeInv, SendP
  <2>2. Tail(tx[p]) \in Seq({"wire", "ok", "err"}) /\ Len(Tail(tx[p])) = Len(tx[p]) - 1
        /\ Len(tx[p]) \in Nat
    BY <1>a, <2>1
  <2>3. Len(Tail(tx[p])) <= 0
    BY <2>1, <2>2
  <2> QED
    BY <2>1, <2>2, <2>3
<1>e. ProvReset(p) \in [Pipe -> 0..PidMax] /\ ProvReset(p)[p] = 0
  BY <1>c, SizesAssumption DEF ProvReset, Set
<1>f. ThrTypes' /\ AppTypes'
  BY <1>1, <1>b DEF Types, ThrTypes, AppTypes, thr_vars, client_vars, app_vars
<1>g. p <= s_pipes
  BY <1>a, Active
<1>h. ctx' = ctx /\ ctx.p # p /\ lk'[p] = "free"
  BY <1>a, <1>b DEF Inv, PipeInv, SendP, thr_vars
<1>2. CASE /\ rlmq[p] # <<>> /\ prov' = ProvReset(p) /\ rlmq' = Set(rlmq, p, Tail(rlmq[p]))
           /\ tcptran_pipe_send(p, Head(rlmq[p]), prov'[p], Tail(tx[p])) /\ busy' = busy
  <2>1. PICK it \in Waiting : it = Head(rlmq[p])
    BY <1>2, <1>c
  <2>2. <<>> \in Seq({"wire", "ok", "err"}) /\ 0 \in 0..PidMax /\ Tail(rlmq[p]) \in Seq(Waiting)
    BY <1>2, <1>c, SizesAssumption
  <2>3. tcptran_pipe_send(p, it, 0, <<>>)
    BY <1>2, <1>d, <1>e, <2>1
  <2>4. /\ \E r \in {"wire", "ok", "err"} : tx' = Set(tx, p, Append(<<>>, r))
        /\ quota' \in [Pipe -> Nat] /\ toClient' \in [Pipe -> Seq(Down)]
        /\ nano_qos_db' \in [Pid -> Msg \union {None}] /\ packet_id' \in 0..PidMax
        /\ stored' \subseteq Msg
        /\ UNCHANGED <<cache, tclosed, holder, conn, toBroker>>
        /\ \A q \in Pipe \ {p} : quota'[q] = quota[q] /\ toClient'[q] = toClient[q]
        /\ rxmax > 0 =>
             quota'[p] + InDown(p)' <= quota[p] + InDown(p) + One(it.t, {"rel"})
    BY <1>1, <2>2, <2>3, Sends
  <2>5. PICK r \in {"wire", "ok", "err"} : tx' = Set(tx, p, Append(<<>>, r))
    BY <2>4
  <2>6. /\ tx' \in [Pipe -> Seq({"wire", "ok", "err"})]
        /\ tx'[p] # <<>> /\ Len(tx'[p]) <= 1
        /\ \A q \in Pipe \ {p} : tx'[q] = tx[q]
    <3>1. Append(<<>>, r) \in Seq({"wire", "ok", "err"}) /\ Append(<<>>, r) # <<>>
          /\ Len(Append(<<>>, r)) = 1
      OBVIOUS
    <3> QED
      BY <1>c, <2>5, <3>1 DEF Set
  <2>7. /\ rlmq' \in [Pipe -> Seq(Waiting)] /\ rlmq'[p] = Tail(rlmq[p])
        /\ \A q \in Pipe \ {p} : rlmq'[q] = rlmq[q]
    BY <1>2, <1>c, <2>2 DEF Set
  <2>8. Types'
    <3>1. NanoTypes'
      BY <1>1, <1>2, <1>b, <1>e, <2>7 DEF Types, NanoTypes
    <3>2. TranTypes'
      BY <1>1, <1>b, <2>4, <2>6 DEF Types, TranTypes
    <3>3. NetTypes' /\ DbTypes'
      BY <1>1, <2>4 DEF Types, NetTypes, DbTypes
    <3> QED
      BY <1>f, <3>1, <3>2, <3>3 DEF Types
  <2>9. Only(p)
    BY <1>2, <1>b, <2>4, <2>6, <2>7 DEF Only, thr_vars
  <2>10. Still(p)
    BY <1>b, <1>h, <2>4 DEF Still, client_vars
  <2>11. SendP(p)'
    BY <1>2, <1>d, <1>h, <2>6 DEF SendP
  <2>12. rxmax > 0 => quota'[p] + Open(p)' <= quota[p] + Open(p)
    <3>1. InQueue(p) = InQueue(p)' + One(it.t, {"rel"})
      BY <1>2, <1>c, <2>1, <2>7, CountTail DEF InQueue
    <3>2. InRx(p)' = InRx(p) /\ toBroker'[p] = toBroker[p]
      BY <1>b, <2>4, OpenParts
    <3>3. One(it.t, {"rel"}) \in Nat /\ InQueue(p)' \in Nat /\ InRx(p) \in Nat
      BY <1>1, <2>8, OpenIs, OpenIsNext DEF One
    <3>4. InQueue(p)' + InRx(p)' + One(it.t, {"rel"}) <= InQueue(p) + InRx(p)
      BY <3>1, <3>2, <3>3
    <3> QED
      BY <1>1, <2>4, <2>8, <3>2, <3>3, <3>4, SendWindow
  <2> QED
    BY <1>g, <2>8, <2>9, <2>10, <2>11, <2>12, OnePipe
<1>i. ASSUME tx' = Set(tx, p, Tail(tx[p]))
      PROVE  /\ tx' \in [Pipe -> Seq({"wire", "ok", "err"})] /\ tx'[p] = <<>>
             /\ \A q \in Pipe \ {p} : tx'[q] = tx[q]
  <2>1. <<>> \in Seq({"wire", "ok", "err"})
    OBVIOUS
  <2> QED
    BY <1>c, <1>d, <1>i, <2>1 DEF Set
<1>3. CASE /\ prov' = ProvReset(p) /\ busy' = NotBusy(p) /\ tx' = Set(tx, p, Tail(tx[p]))
           /\ UNCHANGED <<rlmq, cache, tclosed, quota, db_vars, net_vars>>
  <2>1. /\ busy' \in [Pipe -> BOOLEAN] /\ ~busy'[p]
        /\ \A q \in Pipe \ {p} : busy'[q] = busy[q]
    BY <1>3, <1>c DEF NotBusy, Set
  <2>2. /\ tx' \in [Pipe -> Seq({"wire", "ok", "err"})] /\ tx'[p] = <<>>
        /\ \A q \in Pipe \ {p} : tx'[q] = tx[q]
    BY <1>3, <1>i
  <2>3. Types'
    <3>1. NanoTypes'
      BY <1>1, <1>3, <1>b, <1>e, <2>1 DEF Types, NanoTypes
    <3>2. TranTypes' /\ NetTypes' /\ DbTypes'
      BY <1>1, <1>3, <1>b, <2>2 DEF Types, TranTypes, NetTypes, DbTypes, net_vars, db_vars
    <3> QED
      BY <1>f, <3>1, <3>2 DEF Types
  <2>4. Only(p)
    BY <1>3, <1>b, <2>1, <2>2 DEF Only, thr_vars, net_vars
  <2>5. Still(p)
    BY <1>3, <1>b, <1>h DEF Still, client_vars, db_vars
  <2>6. SendP(p)'
    BY <1>h, <2>1, <2>2 DEF SendP
  <2>7. rxmax > 0 => quota'[p] + Open(p)' <= quota[p] + Open(p)
    BY <1>1, <1>3, <1>b, <2>3, SameWindow DEF net_vars
  <2> QED
    BY <1>g, <2>3, <2>4, <2>5, <2>6, <2>7, OnePipe
<1>4. CASE /\ tx' = Set(tx, p, Tail(tx[p])) /\ Closes(p)
           /\ UNCHANGED <<busy, prov, tclosed, quota, db_vars>>
  <2>1. /\ tx' \in [Pipe -> Seq({"wire", "ok", "err"})] /\ tx'[p] = <<>>
        /\ \A q \in Pipe \ {p} : tx'[q] = tx[q]
    BY <1>4, <1>i
  <2>2. /\ cache' \in [Pipe -> BOOLEAN] /\ rlmq' \in [Pipe -> Seq(Waiting)] /\ NetTypes'
        /\ cache[p] => cache'[p]
        /\ holder = p => cache'[p] \/ tclosed[p]
        /\ toClient'[p] = <<>> \/ toClient'[p] = toClient[p]
        /\ toBroker'[p] = <<>> \/ toBroker'[p] = toBroker[p]
        /\ rlmq'[p] = <<>> \/ rlmq'[p] = rlmq[p]
        /\ \A q \in Pipe \ {p} :
             /\ cache'[q] = cache[q] /\ rlmq'[q] = rlmq[q] /\ conn'[q] = conn[q]
             /\ toClient'[q] = toClient[q] /\ toBroker'[q] = toBroker[q]
    BY <1>1, <1>4, ClosesFacts
  <2>3. Types'
    <3>1. NanoTypes'
      BY <1>1, <1>4, <1>b, <2>2 DEF Types, NanoTypes
    <3>2. TranTypes'
      BY <1>1, <1>4, <1>b, <2>1, <2>2 DEF Types, TranTypes
    <3>3. DbTypes'
      BY <1>1, <1>4 DEF Types, DbTypes, db_vars
    <3> QED
      BY <1>f, <2>2, <3>1, <3>2, <3>3 DEF Types
  <2>4. Only(p)
    BY <1>4, <1>b, <2>1, <2>2 DEF Only, thr_vars
  <2>5. Still(p)
    BY <1>4, <1>b, <1>h DEF Still, client_vars, db_vars
  <2>6. SendP(p)'
    <3>1. cache'[p] \/ tclosed'[p]
      <4>1. CASE holder = p
        BY <1>4, <2>2, <4>1
      <4>2. CASE holder # p
        <5>1. p < s_pipes
          BY <1>1, <1>g, <4>2 DEF Inv, Moves, Types, NanoTypes, Pipe
        <5> QED
          BY <1>4, <5>1 DEF Inv, Moves
      <4> QED
        BY <4>1, <4>2
    <3>2. Len(<<>>) <= 1
      OBVIOUS
    <3> QED
      BY <1>4, <1>h, <2>1, <3>1, <3>2 DEF SendP
  <2>7. rxmax > 0 => quota'[p] + Open(p)' <= quota[p] + Open(p)
    BY <1>1, <1>4, <1>b, <2>2, <2>3, LessWindow
  <2> QED
    BY <1>g, <2>3, <2>4, <2>5, <2>6, <2>7, OnePipe
<1> QED
  BY <1>2, <1>3, <1>4 DEF nano_pipe_send_cb, Closes

\* The answer to a PUBREC takes its place of the window over.
LEMMA AnswerStep ==
    ASSUME Inv, NEW p \in Pipe, rx[p].t = "rec", lk[p] = "free", RecvDone(p),
           Answer(p, Rel(rx[p].pid)),
           UNCHANGED <<rid, lk, pick, expired, s_pipes, connacked, closed, cap, prov, ctx, tmr,
                       client_vars, app_vars>>
    PROVE  Inv'
<1>1. Types
  BY DEF Inv
<1>a. /\ rx \in [Pipe -> Up \union {Nothing}] /\ rlmq \in [Pipe -> Seq(Waiting)]
      /\ rlmq[p] \in Seq(Waiting)
  BY <1>1 DEF Types, NanoTypes, TranTypes
<1>b. rx[p] \in Up
  BY <1>a DEF Nothing, Packet
<1>c. PICK it \in Waiting : it = Rel(rx[p].pid) /\ it.t = "rel"
  <2>1. Rel(rx[p].pid) \in Waiting /\ Rel(rx[p].pid).t = "rel"
    BY <1>b DEF Up, Waiting, Items, Rel, Packet
  <2> QED
    BY <2>1
<1>d. One(it.t, {"rel"}) = 1 /\ InRx(p) = 1
  BY <1>c DEF One, InRx
<1>e. /\ rx' \in [Pipe -> Up \union {Nothing}] /\ rx'[p] = Nothing
      /\ \A q \in Pipe \ {p} : rx'[q] = rx[q]
  BY <1>a DEF RecvDone, Set
<1>f. InRx(p)' = 0
  BY <1>e, OpenParts
<1>g. ThrTypes' /\ AppTypes'
  BY <1>1 DEF Types, ThrTypes, AppTypes, client_vars, app_vars
<1>h. p <= s_pipes
  <2>1. rx[p] # Nothing
    BY DEF Nothing, Packet
  <2> QED
    BY <2>1, Active
<1>i. ctx.p # p
  BY DEF Inv, PipeInv, SendP
<1>j. InQueue(p) \in Nat /\ InDown(p) \in Nat /\ quota[p] \in Nat
  BY <1>1, OpenIs DEF Types, TranTypes
<1>2. CASE /\ ~busy[p] /\ busy' = Set(busy, p, TRUE)
           /\ tcptran_pipe_send(p, it, prov[p], tx[p]) /\ rlmq' = rlmq
  <2>1. PICK pid \in 0..PidMax : pid = prov[p]
    BY <1>1 DEF Types, NanoTypes
  <2>2. PICK others \in Seq({"wire", "ok", "err"}) : others = tx[p]
    BY <1>1 DEF Types, TranTypes
  <2>3. tcptran_pipe_send(p, it, pid, others)
    BY <1>2, <2>1, <2>2
  <2>4. /\ \E r \in {"wire", "ok", "err"} : tx' = Set(tx, p, Append(others, r))
        /\ quota' \in [Pipe -> Nat] /\ toClient' \in [Pipe -> Seq(Down)]
        /\ nano_qos_db' \in [Pid -> Msg \union {None}] /\ packet_id' \in 0..PidMax
        /\ stored' \subseteq Msg
        /\ UNCHANGED <<cache, tclosed, holder, conn, toBroker>>
        /\ \A q \in Pipe \ {p} : quota'[q] = quota[q] /\ toClient'[q] = toClient[q]
        /\ rxmax > 0 =>
             quota'[p] + InDown(p)' <= quota[p] + InDown(p) + One(it.t, {"rel"})
    BY <1>1, <2>3, Sends
  <2>5. PICK r \in {"wire", "ok", "err"} : tx' = Set(tx, p, Append(tx[p], r))
    BY <2>2, <2>4
  <2>6. /\ tx' \in [Pipe -> Seq({"wire", "ok", "err"})] /\ busy' \in [Pipe -> BOOLEAN]
        /\ tx[p] = <<>> /\ tx'[p] # <<>> /\ Len(tx'[p]) <= 1 /\ busy'[p]
        /\ \A q \in Pipe \ {p} : tx'[q] = tx[q] /\ busy'[q] = busy[q]
    BY <1>2, <2>5, Started
  <2>7. Types'
    <3>1. NanoTypes'
      BY <1>1, <1>2, <2>6 DEF Types, NanoTypes
    <3>2. TranTypes'
      BY <1>1, <1>e, <2>4, <2>6 DEF Types, TranTypes
    <3>3. NetTypes' /\ DbTypes'
      BY <1>1, <2>4 DEF Types, NetTypes, DbTypes
    <3> QED
      BY <1>g, <3>1, <3>2, <3>3 DEF Types
  <2>8. Only(p)
    BY <1>2, <1>e, <2>4, <2>6 DEF Only
  <2>9. Still(p)
    BY <2>4 DEF Still, client_vars
  <2>10. SendP(p)'
    BY <1>i, <2>6 DEF SendP
  <2>11. rxmax > 0 => quota'[p] + Open(p)' <= quota[p] + Open(p)
    <3>1. InQueue(p)' = InQueue(p) /\ toBroker'[p] = toBroker[p]
      BY <1>2, <2>4, OpenParts
    <3>2. InQueue(p)' + InRx(p)' + 1 <= InQueue(p) + InRx(p)
      BY <1>d, <1>f, <1>j, <3>1
    <3>3. rxmax > 0 => quota'[p] + InDown(p)' <= quota[p] + InDown(p) + 1
      BY <1>d, <2>4
    <3> QED
      BY <1>1, <2>7, <3>1, <3>2, <3>3, SendWindow
  <2> QED
    BY <1>h, <2>7, <2>8, <2>9, <2>10, <2>11, OnePipe
<1>3. CASE /\ busy[p] /\ NoSend /\ busy' = busy
           /\ rlmq' = IF Len(rlmq[p]) < cap[p] THEN Set(rlmq, p, Append(rlmq[p], it)) ELSE rlmq
  <2>1. /\ rlmq' \in [Pipe -> Seq(Waiting)] /\ \A q \in Pipe \ {p} : rlmq'[q] = rlmq[q]
        /\ InQueue(p)' <= InQueue(p) + 1 /\ InQueue(p)' \in Nat
    <3>1. CASE rlmq' = Set(rlmq, p, Append(rlmq[p], it))
      <4>1. rlmq'[p] = Append(rlmq[p], it) /\ \A q \in Pipe \ {p} : rlmq'[q] = rlmq[q]
        BY <1>a, <3>1 DEF Set
      <4>2. InQueue(p)' = InQueue(p) + One(it.t, {"rel"})
        BY <1>a, <4>1, CountAppend DEF InQueue
      <4>3. Append(rlmq[p], it) \in Seq(Waiting)
        BY <1>a
      <4> QED
        BY <1>a, <1>d, <1>j, <3>1, <4>1, <4>2, <4>3 DEF Set
    <3>2. CASE rlmq' = rlmq
      BY <1>a, <1>j, <3>2, OpenParts
    <3> QED
      BY <1>3, <3>1, <3>2
  <2>2. Types'
    <3>1. NanoTypes'
      BY <1>1, <1>3, <2>1 DEF Types, NanoTypes
    <3>2. TranTypes' /\ NetTypes' /\ DbTypes'
      BY <1>1, <1>3, <1>e DEF Types, TranTypes, NetTypes, DbTypes, NoSend, net_vars, db_vars
    <3> QED
      BY <1>g, <3>1, <3>2 DEF Types
  <2>3. Only(p)
    BY <1>3, <1>e, <2>1 DEF Only, NoSend, net_vars
  <2>4. Still(p)
    BY <1>3 DEF Still, client_vars, NoSend, db_vars
  <2>5. SendP(p)'
    BY <1>3 DEF Inv, PipeInv, SendP, NoSend
  <2>6. rxmax > 0 => quota'[p] + Open(p)' <= quota[p] + Open(p)
    <3>1. InDown(p)' = InDown(p) /\ quota'[p] = quota[p] /\ toBroker'[p] = toBroker[p]
      BY <1>3, OpenParts DEF NoSend, net_vars
    <3>2. InQueue(p)' + InRx(p)' + 0 <= InQueue(p) + InRx(p)
      BY <1>d, <1>f, <1>j, <2>1
    <3>3. quota'[p] + InDown(p)' <= quota[p] + InDown(p) + 0
      BY <1>j, <3>1
    <3> QED
      BY <1>1, <2>2, <3>1, <3>2, <3>3, SendWindow
  <2> QED
    BY <1>h, <2>2, <2>3, <2>4, <2>5, <2>6, OnePipe
<1> QED
  BY <1>2, <1>3, <1>c DEF Answer

\* The callback ends without a send.
LEMMA RecvDoneStep ==
    ASSUME Inv, NEW p \in Pipe, rx[p] # Nothing, RecvDone(p), NoSend, rid' \in [Pipe -> Pid],
           UNCHANGED <<busy, rlmq, lk, pick, expired, s_pipes, connacked, closed, cap, prov, ctx,
                       tmr, client_vars, app_vars>>
    PROVE  Inv'
<1>1. Types
  BY DEF Inv
<1>a. /\ rx' \in [Pipe -> Up \union {Nothing}] /\ rx'[p] = Nothing
      /\ \A q \in Pipe \ {p} : rx'[q] = rx[q]
  BY <1>1 DEF RecvDone, Set, Types, TranTypes
<1>2. Types'
  <2>1. NanoTypes' /\ ThrTypes' /\ AppTypes'
    BY <1>1 DEF Types, NanoTypes, ThrTypes, AppTypes, client_vars, app_vars
  <2>2. TranTypes' /\ NetTypes' /\ DbTypes'
    BY <1>1, <1>a DEF Types, TranTypes, NetTypes, DbTypes, NoSend, net_vars, db_vars
  <2> QED
    BY <2>1, <2>2 DEF Types
<1>3. Only(p)
  BY <1>a DEF Only, NoSend, net_vars
<1>4. Still(p)
  BY DEF Still, client_vars, NoSend, db_vars
<1>5. SendP(p)'
  BY DEF Inv, PipeInv, SendP, NoSend
<1>6. rxmax > 0 => quota'[p] + Open(p)' <= quota[p] + Open(p)
  <2>1. /\ InDown(p)' = InDown(p) /\ quota'[p] = quota[p] /\ toBroker'[p] = toBroker[p]
        /\ InQueue(p)' = InQueue(p) /\ InRx(p)' = 0
    BY <1>a, OpenParts DEF NoSend, net_vars
  <2>2. InQueue(p) \in Nat /\ InDown(p) \in Nat /\ InRx(p) \in Nat /\ quota[p] \in Nat
    BY <1>1, OpenIs DEF Types, TranTypes
  <2>3. InQueue(p)' + InRx(p)' + 0 <= InQueue(p) + InRx(p)
    BY <2>1, <2>2
  <2>4. quota'[p] + InDown(p)' <= quota[p] + InDown(p) + 0
    BY <2>1, <2>2
  <2> QED
    BY <1>1, <1>2, <2>1, <2>3, <2>4, SendWindow
<1>7. p <= s_pipes
  BY Active
<1> QED
  BY <1>2, <1>3, <1>4, <1>5, <1>6, <1>7, OnePipe

\* With batch repeat, an acknowledgement looks for the next message at once.
LEMMA BatchPickStep ==
    ASSUME Inv, NEW p \in Pipe, NEW late, NEW old, NEW from \in Pid,
           rx[p] # Nothing, lk[p] = "free", ~busy[p],
           Pick(p, from, late, old, "rcv"), rid' \in [Pipe -> Pid],
           rx' = rx \/ RecvDone(p),
           UNCHANGED <<cache, tclosed, tx, quota, net_vars, busy, rlmq,
                       s_pipes, connacked, closed, cap, prov, ctx, tmr, client_vars, app_vars>>
    PROVE  Inv'
<1>1. Types
  BY DEF Inv
<1>a. /\ rx' \in [Pipe -> Up \union {Nothing}] /\ \A q \in Pipe \ {p} : rx'[q] = rx[q]
      /\ (rx'[p] = rx[p] \/ rx'[p] = Nothing)
  BY <1>1 DEF RecvDone, Set, Types, TranTypes
<1>d. /\ DbTypes' /\ holder' = holder /\ expired' \subseteq Msg
      /\ pick' \in [Pipe -> [m : Msg \union {None}, pid : 0..PidMax]]
      /\ lk' \in [Pipe -> {"free", "ctx", "tmr", "rcv"}]
      /\ \A q \in Pipe \ {p} : pick'[q] = pick[q] /\ lk'[q] = lk[q]
      /\ \/ lk'[p] = "rcv" /\ pick'[p].m \in Msg /\ pick'[p].pid \in Pid
         \/ UNCHANGED <<pick, lk>>
  BY <1>1, PickFacts
<1>2. Types'
  <2>1. NanoTypes'
    BY <1>1, <1>d DEF Types, NanoTypes
  <2>2. ThrTypes'
    BY <1>1, <1>d DEF Types, ThrTypes
  <2>3. TranTypes' /\ NetTypes' /\ AppTypes'
    BY <1>1, <1>a, <1>d DEF Types, TranTypes, NetTypes, AppTypes, net_vars, client_vars, app_vars
  <2> QED
    BY <1>d, <2>1, <2>2, <2>3 DEF Types
<1>3. Only(p)
  BY <1>a, <1>d DEF Only, net_vars
<1>4. Still(p)
  BY <1>d DEF Still, client_vars
<1>5. SendP(p)'
  BY <1>d DEF Inv, PipeInv, SendP
<1>6. rxmax > 0 => quota'[p] + Open(p)' <= quota[p] + Open(p)
  <2>1. /\ InDown(p)' = InDown(p) /\ quota'[p] = quota[p] /\ toBroker'[p] = toBroker[p]
        /\ InQueue(p)' = InQueue(p)
    BY OpenParts DEF net_vars
  <2>2. InRx(p)' = 0 \/ InRx(p)' = InRx(p)
    BY <1>a, OpenParts
  <2>3. InQueue(p) \in Nat /\ InDown(p) \in Nat /\ InRx(p) \in Nat /\ quota[p] \in Nat
    BY <1>1, OpenIs DEF Types, TranTypes
  <2>4. InQueue(p)' + InRx(p)' + 0 <= InQueue(p) + InRx(p)
    BY <2>1, <2>2, <2>3
  <2>5. quota'[p] + InDown(p)' <= quota[p] + InDown(p) + 0
    BY <2>1, <2>3
  <2> QED
    BY <1>1, <1>2, <2>1, <2>4, <2>5, SendWindow
<1>7. p <= s_pipes
  BY Active
<1> QED
  BY <1>2, <1>3, <1>4, <1>5, <1>6, <1>7, OnePipe

LEMMA nano_pipe_recv_cbStep ==
    ASSUME Inv, NEW p \in Pipe, NEW late, NEW old, nano_pipe_recv_cb(p, late, old)
    PROVE  Inv'
<1>a. rx[p] # Nothing /\ lk[p] = "free"
  BY DEF nano_pipe_recv_cb
<1>b. UNCHANGED <<s_pipes, connacked, closed, cap, prov, ctx, tmr, client_vars, app_vars>>
  BY DEF nano_pipe_recv_cb
<1>c. rid \in [Pipe -> Pid] /\ rx \in [Pipe -> Up \union {Nothing}]
  BY DEF Inv, Types, NanoTypes, TranTypes
<1>1. CASE RecvDone(p) /\ NoSend /\ UNCHANGED <<busy, rid, rlmq, lk, pick, expired>>
  <2>1. rid' \in [Pipe -> Pid]
    BY <1>1, <1>c
  <2> QED
    BY <1>1, <1>a, <1>b, <2>1, RecvDoneStep
<1>2. CASE /\ rx[p].t = "rec" /\ RecvDone(p) /\ Answer(p, Rel(rx[p].pid))
           /\ UNCHANGED <<rid, lk, pick, expired>>
  BY <1>2, <1>a, <1>b, AnswerStep
<1>3. CASE /\ rx[p].t \in {"ack", "comp"} /\ rid' = Set(rid, p, Rid(rx[p].pid))
           /\ IF Batch /\ ~busy[p]
              THEN /\ Pick(p, rid'[p], late, old, "rcv")
                   /\ IF lk'[p] = "rcv" THEN rx' = rx ELSE RecvDone(p)
                   /\ UNCHANGED <<cache, tclosed, tx, quota, net_vars>>
              ELSE RecvDone(p) /\ NoSend /\ UNCHANGED <<pick, lk, expired>>
           /\ UNCHANGED <<busy, rlmq>>
  <2>1. rx[p].pid \in Pid
    BY <1>3, <1>c DEF Up, Nothing, Packet
  <2>2. PICK from \in Pid : from = Rid(rx[p].pid)
    BY <2>1, RidType
  <2>3. rid' \in [Pipe -> Pid] /\ rid'[p] = from
    BY <1>3, <1>c, <2>2 DEF Set
  <2>4. CASE Batch /\ ~busy[p]
    <3>1. Pick(p, from, late, old, "rcv") /\ (rx' = rx \/ RecvDone(p))
          /\ UNCHANGED <<cache, tclosed, tx, quota, net_vars>>
      BY <1>3, <2>3, <2>4
    <3> QED
      BY <1>3, <1>a, <1>b, <2>3, <2>4, <3>1, BatchPickStep
  <2>5. CASE ~(Batch /\ ~busy[p])
    <3>1. RecvDone(p) /\ NoSend /\ UNCHANGED <<pick, lk, expired>>
      BY <1>3, <2>5
    <3> QED
      BY <1>3, <1>a, <1>b, <2>3, <3>1, RecvDoneStep
  <2> QED
    BY <2>4, <2>5
<1> QED
  BY <1>1, <1>2, <1>3 DEF nano_pipe_recv_cb

-----------------------------------------------------------------------------
(* The invariant, and what follows from it.                                *)

LEMMA InitInv == Init => Inv
<1> SUFFICES ASSUME Init PROVE Inv
  OBVIOUS
<1> USE SizesAssumption, ChoicesAssumption
<1>1. Types
  <2>0. \A S : <<>> \in Seq(S)
    OBVIOUS
  <2>1. NanoTypes
    BY <2>0 DEF Init, All, NanoTypes, Pid, None
  <2>2. ThrTypes
    BY DEF Init, All, ThrTypes, None
  <2>3. TranTypes
    BY <2>0 DEF Init, All, TranTypes
  <2>4. DbTypes
    BY DEF Init, DbTypes, None
  <2>5. NetTypes
    BY <2>0 DEF Init, All, NetTypes
  <2>6. AppTypes
    BY DEF Init, AppTypes
  <2> QED
    BY <2>1, <2>2, <2>3, <2>4, <2>5, <2>6 DEF Types
<1>2. Moves
  BY DEF Init, Moves, All, None, Pipe
<1>3. ASSUME NEW p \in Pipe PROVE PipeInv(p)
  <2>1. YoungP(p)
    BY DEF Init, All, YoungP
  <2>2. SendP(p)
    <3>1. Len(<<>>) <= 1
      OBVIOUS
    <3> QED
      BY <3>1 DEF Init, All, SendP, None, Pipe
  <2>3. WindowP(p)
    <3>1. toClient[p] = <<>> /\ toBroker[p] = <<>> /\ rlmq[p] = <<>> /\ rx[p] = Nothing
          /\ quota[p] = rxmax /\ rxmax \in Nat
      BY DEF Init, All
    <3>2. InDown(p) = 0 /\ InUp(p) = 0 /\ InQueue(p) = 0 /\ InRx(p) = 0
      BY <3>1, CountEmpty DEF InDown, InUp, InQueue, InRx, One, Nothing, Packet
    <3>3. Open(p) = 0
      BY <1>1, <3>2, OpenIs
    <3> QED
      BY <3>1, <3>3 DEF WindowP
  <2> QED
    BY <2>1, <2>2, <2>3 DEF PipeInv
<1> QED
  BY <1>1, <1>2, <1>3 DEF Inv

LEMMA StutterInv == ASSUME Inv, UNCHANGED vars PROVE Inv'
<1> USE DEF vars, nano_vars, thr_vars, tran_vars, db_vars, net_vars, client_vars, app_vars
<1>1. Types'
  BY DEF Inv, Types, NanoTypes, ThrTypes, TranTypes, DbTypes, NetTypes, AppTypes
<1>2. Moves'
  BY DEF Inv, Moves
<1>3. ASSUME NEW p \in Pipe PROVE PipeInv(p)'
  BY DEF Inv, PipeInv, YoungP, SendP, WindowP, Open
<1> QED
  BY <1>1, <1>2, <1>3 DEF Inv

LEMMA StepInv == Inv /\ [Next]_vars => Inv'
<1> SUFFICES ASSUME Inv, [Next]_vars PROVE Inv'
  OBVIOUS
<1>1. CASE nano_ctx_send
  BY <1>1, nano_ctx_sendStep
<1>2. CASE \E m \in Msg : Publish(m)
  BY <1>2, PublishStep
<1>3. ASSUME NEW p \in Pipe,
             SendConnack(p) \/ nano_pipe_send_cb(p)
             \/ TimerTest(p) \/ TimerSkip(p) \/ TimerKick(p) \/ TimerResend(p)
             \/ TranRecv(p) \/ BatchResend(p)
      PROVE  Inv'
  BY <1>3, SendConnackStep, nano_pipe_send_cbStep, TimerTestStep, TimerSkipStep, TimerKickStep,
     TimerResendStep, TranRecvStep, BatchResendStep
<1>4. ASSUME NEW p \in Pipe, NEW late \in SUBSET Expiring, NEW old \in BOOLEAN,
             TimerPick(p, late, old) \/ nano_pipe_recv_cb(p, late, old)
      PROVE  Inv'
  BY <1>4, TimerPickStep, nano_pipe_recv_cbStep
<1>5. ASSUME NEW p \in Pipe,
             Drop(p) \/ PipeLost(p) \/ nano_pipe_start(p) \/ CloseOld(p) \/ ClientRecv(p)
      PROVE  Inv'
  BY <1>5, DropStep, PipeLostStep, nano_pipe_startStep, CloseOldStep, ClientRecvStep
<1>6. CASE UNCHANGED vars
  BY <1>6, StutterInv
<1> QED
  BY <1>1, <1>2, <1>3, <1>4, <1>5, <1>6 DEF Next

LEMMA Invariance == Spec => []Inv
BY InitInv, StepInv, PTL DEF Spec

\* Every variable keeps its type: among others, no quota falls below zero, and
\* no packet id is 0 or above PidMax where one is needed.
THEOREM TypeCorrect == Spec => []TypeOK
<1>1. Inv => TypeOK
  <2> SUFFICES ASSUME Inv PROVE TypeOK
    OBVIOUS
  <2>1. Waiting \subseteq Items /\ Down \subseteq Items /\ Up \subseteq Items /\ Offered \subseteq Items
        /\ Nothing \in Items
    BY OfferedItems DEF Waiting, Down, Up, Offered
  <2>2. /\ rlmq \in [Pipe -> Seq(Items)] /\ rx \in [Pipe -> Items]
        /\ toClient \in [Pipe -> Seq(Items)] /\ toBroker \in [Pipe -> Seq(Items)]
    <3>1. \A S, T : S \subseteq T => Seq(S) \subseteq Seq(T)
      OBVIOUS
    <3>2. rlmq \in [Pipe -> Seq(Waiting)] /\ toClient \in [Pipe -> Seq(Down)]
          /\ toBroker \in [Pipe -> Seq(Up)] /\ rx \in [Pipe -> Up \union {Nothing}]
      BY DEF Inv, Types, NanoTypes, TranTypes, NetTypes
    <3>3. /\ Seq(Waiting) \subseteq Seq(Items) /\ Seq(Down) \subseteq Seq(Items)
          /\ Seq(Up) \subseteq Seq(Items) /\ (Up \union {Nothing}) \subseteq Items
      BY <2>1, <3>1
    <3>4. \A R, S, T, f : S \subseteq T /\ f \in [R -> S] => f \in [R -> T]
      OBVIOUS
    <3> QED
      BY <3>2, <3>3, <3>4
  <2>3. ctx \in [it : Items, p : 0..NPipes]
    BY <2>1 DEF Inv, Types, ThrTypes
  <2> QED
    BY <2>2, <2>3 DEF Inv, Types, NanoTypes, ThrTypes, TranTypes, DbTypes, NetTypes, AppTypes,
                      TypeOK
<1> QED
  BY <1>1, Invariance, PTL

\* The handle aio_send of a pipe is never started while a send is in progress,
\* whichever of its five callers come in whichever order, for any number of
\* connections and messages; and an open pipe is not left busy.
THEOREM OneSendHolds == Spec => []OneSend
<1>1. Inv => OneSend
  BY DEF Inv, PipeInv, SendP, OneSend
<1> QED
  BY <1>1, Invariance, PTL

\* An MQTT 5 client never has more open exchanges than the receive maximum it
\* announced, for every receive maximum, number of messages and packet ids.
THEOREM WindowKeptHolds == Spec => []WindowKept
<1>1. Inv => WindowKept
  <2> SUFFICES ASSUME Inv, NEW p \in Pipe, rxmax > 0 PROVE Open(p) <= rxmax
    BY DEF WindowKept
  <2>1. Types
    BY DEF Inv
  <2>2. quota[p] + Open(p) <= rxmax
    BY DEF Inv, PipeInv, WindowP
  <2>3. quota[p] \in Nat /\ rxmax \in Nat
    BY <2>1, ChoicesAssumption DEF Types, TranTypes, AppTypes
  <2>4. Open(p) \in Nat
    BY <2>1, OpenIs
  <2> QED
    BY <2>2, <2>3, <2>4
<1> QED
  BY <1>1, Invariance, PTL

-----------------------------------------------------------------------------
(* What packet ids mean.                                                   *)

\* The packets of a sequence.
On(s) == {s[k] : k \in 1..Len(s)}

\* Packet x, which has an id, is on its way over pipe p or is about to be.
Carries(p, x) ==
    /\ x \in Items /\ x.t # "connack" /\ x.pid # 0
    /\ \/ x \in On(toClient[p]) \/ x \in On(toBroker[p]) \/ x \in On(rlmq[p])
       \/ x = rx[p] /\ x.t = "rec"
       \/ lk[p] \in {"tmr", "rcv"} /\ x = Packet("pub", pick[p].m, pick[p].pid)

InUse(i) == nano_qos_db[i] # None \/ \E p \in Pipe, x \in Items : Carries(p, x) /\ x.pid = i

\* The hypothesis: no message is stored under an id that is in use.  The code takes
\* the next id of a counter and looks at neither the store nor the connections, so
\* this is so until the counter has come round to a message that is still waiting.
Unused == \A i \in Pid : nano_qos_db'[i] \notin {None, nano_qos_db[i]} => ~InUse(i)

\* A PUBLISH has the id of its own message, and what follows a PUBLISH in the
\* exchange the id of one that the client has, if the id is in the store at all.
Truthful(x) == nano_qos_db[x.pid] \in {None} \union (IF x.t = "pub" THEN {x.m} ELSE got)
Meaning == \A p \in Pipe, x \in Items : Carries(p, x) => Truthful(x)

\* The provider data of a handle that is free is cleared: a new message does not
\* take the id of the last one repeated.
Reset == \A p \in Pipe : busy[p] \/ prov[p] = 0

\* What every step does: ids leave the store with a message that the client has or
\* that expires, a message that is stored is in the store, and a new packet is
\* truthful and has an id that was in use or that the counter has just given.
Granted(x) == Truthful(x)' /\ (InUse(x.pid) \/ x.pid = packet_id')
Faithful ==
    /\ got \subseteq got' /\ expired \subseteq expired'
    /\ \A i \in Pid : nano_qos_db'[i] # None \/ nano_qos_db[i] \in {None} \union got' \union expired'
    /\ \A m \in stored' : m \in stored \/ \E i \in Pid : nano_qos_db'[i] = m
    /\ \A p \in Pipe, x \in Items : Carries(p, x)' => Carries(p, x) \/ Granted(x)

LEMMA Faithfully ==
    ASSUME Types, Types', Meaning, AtLeastOnce, Unused, Faithful
    PROVE  Meaning' /\ AtLeastOnce'
<1>1. Meaning'
  <2> SUFFICES ASSUME NEW p \in Pipe, NEW x \in Items, Carries(p, x)' PROVE Truthful(x)'
    BY DEF Meaning
  <2>1. CASE Carries(p, x)
    <3>1. x.pid \in Pid /\ Truthful(x)
      BY <2>1 DEF Meaning, Carries, Items, Pid
    <3>2. InUse(x.pid)
      BY <2>1 DEF InUse
    <3>3. nano_qos_db'[x.pid] \in {None, nano_qos_db[x.pid]}
      BY <3>1, <3>2 DEF Unused
    <3>4. got \subseteq got'
      BY DEF Faithful
    <3> QED
      BY <3>1, <3>3, <3>4 DEF Truthful
  <2>2. CASE ~Carries(p, x)
    BY <2>2 DEF Faithful, Granted
  <2> QED
    BY <2>1, <2>2
<1>2. AtLeastOnce'
  <2> SUFFICES ASSUME NEW m \in stored', m \notin got', m \notin expired'
               PROVE  \E i \in Pid : nano_qos_db'[i] = m
    BY DEF AtLeastOnce
  <2>1. CASE m \in stored
    <3>1. got \subseteq got' /\ expired \subseteq expired'
      BY DEF Faithful
    <3>2. PICK i \in Pid : nano_qos_db[i] = m
      BY <2>1, <3>1 DEF AtLeastOnce
    <3>3. m # None
      BY <2>1 DEF Types, DbTypes, Msg, None
    <3>4. nano_qos_db'[i] # None
      BY <3>2, <3>3 DEF Faithful
    <3>5. nano_qos_db'[i] \in {None, nano_qos_db[i]}
      BY <3>2, <3>3 DEF Unused, InUse
    <3> QED
      BY <3>2, <3>4, <3>5
  <2>2. CASE m \notin stored
    BY <2>2 DEF Faithful
  <2> QED
    BY <2>1, <2>2
<1> QED
  BY <1>1, <1>2

\* Pipe q has no packet it did not have before.
Less(q) ==
    /\ On(toClient'[q]) \subseteq On(toClient[q]) /\ On(toBroker'[q]) \subseteq On(toBroker[q])
    /\ On(rlmq'[q]) \subseteq On(rlmq[q]) /\ rx'[q] \in {rx[q], Nothing}
    /\ lk'[q] \in {"tmr", "rcv"} => lk'[q] = lk[q] /\ pick'[q] = pick[q]

LEMMA LessCarries ==
    ASSUME NEW q \in Pipe, Less(q), NEW x \in Items, Carries(q, x)'
    PROVE  Carries(q, x)
BY DEF Less, Carries, Nothing, Packet

\* A step that only loses packets.
LEMMA Quiet ==
    ASSUME UNCHANGED <<nano_qos_db, stored, got, expired>>, Types, \A q \in Pipe : Less(q)
    PROVE  Faithful
<1>1. \A p \in Pipe, x \in Items : Carries(p, x)' => Carries(p, x)
  BY LessCarries
<1>2. \A i \in Pid : nano_qos_db'[i] # None \/ nano_qos_db[i] = None
  OBVIOUS
<1> QED
  BY <1>1, <1>2 DEF Faithful

LEMMA OnFacts ==
    /\ On(<<>>) = {}
    /\ \A S : \A s \in Seq(S) :
         /\ \A x \in S : On(Append(s, x)) = On(s) \union {x}
         /\ s # <<>> => On(Tail(s)) \subseteq On(s) /\ Head(s) \in On(s)
         /\ On(s) \subseteq S
<1>1. On(<<>>) = {}
  BY DEF On
<1>2. ASSUME NEW S, NEW s \in Seq(S)
      PROVE  /\ \A x \in S : On(Append(s, x)) = On(s) \union {x}
             /\ s # <<>> => On(Tail(s)) \subseteq On(s) /\ Head(s) \in On(s)
             /\ On(s) \subseteq S
  <2>1. ASSUME NEW x \in S PROVE On(Append(s, x)) = On(s) \union {x}
    <3>1. Len(Append(s, x)) = Len(s) + 1 /\ Len(s) \in Nat /\ Append(s, x)[Len(s) + 1] = x
          /\ \A k \in 1..Len(s) : Append(s, x)[k] = s[k]
      OBVIOUS
    <3> QED
      BY <3>1 DEF On
  <2>2. ASSUME s # <<>> PROVE On(Tail(s)) \subseteq On(s) /\ Head(s) \in On(s)
    <3>1. Len(Tail(s)) = Len(s) - 1 /\ Len(s) \in Nat \ {0} /\ Head(s) = s[1]
          /\ \A k \in 1..(Len(s) - 1) : Tail(s)[k] = s[k + 1]
      BY <2>2
    <3> QED
      BY <3>1 DEF On
  <2>3. On(s) \subseteq S
    BY DEF On
  <2> QED
    BY <2>1, <2>2, <2>3
<1> QED
  BY <1>1, <1>2

\* A pipe of which nothing changes.
LEMMA Same ==
    ASSUME NEW q \in Pipe, toClient'[q] = toClient[q], toBroker'[q] = toBroker[q],
           rlmq'[q] = rlmq[q], rx'[q] = rx[q], lk'[q] = lk[q], pick'[q] = pick[q]
    PROVE  Less(q)
BY DEF Less

\* The types used of what carries packets.
CarrierTypes ==
    /\ busy \in [Pipe -> BOOLEAN] /\ prov \in [Pipe -> 0..PidMax]
    /\ toClient \in [Pipe -> Seq(Down)] /\ toBroker \in [Pipe -> Seq(Up)]
    /\ rlmq \in [Pipe -> Seq(Waiting)] /\ rx \in [Pipe -> Up \union {Nothing}]
    /\ lk \in [Pipe -> {"free", "ctx", "tmr", "rcv"}]
    /\ pick \in [Pipe -> [m : Msg \union {None}, pid : 0..PidMax]]

LEMMA Carriers == Inv => Types /\ CarrierTypes
BY DEF Inv, Types, NanoTypes, ThrTypes, TranTypes, NetTypes, CarrierTypes

\* The steps that begin or skip something, and those that lose packets.
LEMMA CtxLookupFaithful ==
    ASSUME Inv, Reset, NEW it, CtxLookup(it),
           UNCHANGED <<busy, prov, rlmq, pick, tran_vars, db_vars, net_vars, client_vars, expired>>
    PROVE  Faithful /\ Reset'
<1>1. Types /\ CarrierTypes
  BY Carriers
<1>2. ASSUME NEW q \in Pipe PROVE Less(q)
  <2>1. lk' = Set(lk, s_pipes, "ctx")
    BY DEF CtxLookup
  <2>2. lk'[q] = lk[q] \/ lk'[q] = "ctx"
    BY <1>1, <2>1 DEF CarrierTypes, Set
  <2> QED
    BY <2>2 DEF Less, tran_vars, net_vars
<1>3. Faithful
  BY <1>1, <1>2, Quiet DEF db_vars, client_vars
<1> QED
  BY <1>3 DEF Reset

LEMMA StillFaithful ==
    ASSUME Inv, Reset, UNCHANGED <<nano_vars, pick, tran_vars, db_vars, net_vars, client_vars, expired>>
    PROVE  Faithful /\ Reset'
<1>1. Types
  BY DEF Inv
<1>2. ASSUME NEW q \in Pipe PROVE Less(q)
  BY Same DEF nano_vars, tran_vars, net_vars
<1>3. Faithful
  BY <1>1, <1>2, Quiet DEF db_vars, client_vars
<1> QED
  BY <1>3 DEF Reset, nano_vars

LEMMA LosesFaithful ==
    ASSUME Inv, Reset, NEW p \in Pipe,
           \/ Closes(p) \/ Keep(p)
           \/ Lost(p) /\ rlmq' = rlmq
           \/ rlmq' = Set(rlmq, p, <<>>) /\ UNCHANGED <<toClient, toBroker>>
           \/ UNCHANGED <<rlmq, toClient, toBroker>>,
           UNCHANGED <<busy, prov, rx, lk, pick, nano_qos_db, stored, got, expired>>
    PROVE  Faithful /\ Reset'
<1>1. Types /\ CarrierTypes
  BY Carriers
<1>2. ASSUME NEW q \in Pipe
      PROVE  /\ toClient'[q] = toClient[q] \/ toClient'[q] = <<>>
             /\ toBroker'[q] = toBroker[q] \/ toBroker'[q] = <<>>
             /\ rlmq'[q] = rlmq[q] \/ rlmq'[q] = <<>>
  BY <1>1 DEF CarrierTypes, Set, Closes, Keep, Lost, net_vars
<1>3. ASSUME NEW q \in Pipe PROVE Less(q)
  BY <1>2, OnFacts DEF Less
<1>4. Faithful
  BY <1>1, <1>3, Quiet
<1> QED
  BY <1>4 DEF Reset

LEMMA LosingSteps ==
    ASSUME Inv, Reset, NEW p \in Pipe,
           \/ TimerKick(p) \/ Drop(p) \/ PipeLost(p) \/ CloseOld(p) \/ nano_pipe_start(p)
    PROVE  Faithful /\ Reset'
<1> USE DEF nano_vars, thr_vars, tran_vars, db_vars, net_vars, client_vars
<1>1. CASE TimerKick(p)
  BY <1>1, LosesFaithful DEF TimerKick, Closes
<1>2. CASE Drop(p)
  BY <1>2, LosesFaithful DEF Drop
<1>3. CASE PipeLost(p)
  BY <1>3, LosesFaithful DEF PipeLost
<1>4. CASE CloseOld(p)
  BY <1>4, LosesFaithful DEF CloseOld
<1>5. CASE nano_pipe_start(p)
  BY <1>5, LosesFaithful DEF nano_pipe_start
<1> QED
  BY <1>1, <1>2, <1>3, <1>4, <1>5

LEMMA BeginningSteps ==
    ASSUME Inv, Reset,
           \/ \E m \in Msg : Publish(m)
           \/ \E p \in Pipe : SendConnack(p) \/ TimerTest(p) \/ TimerSkip(p)
           \/ UNCHANGED vars
    PROVE  Faithful /\ Reset'
<1>1. CASE \E m \in Msg : Publish(m)
  BY <1>1, CtxLookupFaithful DEF Publish
<1>2. CASE \E p \in Pipe : SendConnack(p)
  BY <1>2, CtxLookupFaithful DEF SendConnack
<1>3. CASE \E p \in Pipe : TimerTest(p) \/ TimerSkip(p)
  BY <1>3, StillFaithful DEF TimerTest, TimerSkip
<1>4. CASE UNCHANGED vars
  BY <1>4, StillFaithful DEF vars, thr_vars
<1> QED
  BY <1>1, <1>2, <1>3, <1>4

\* What a send adds: the packet it sends, with the id it is given or the new id
\* that it is stored under.
Sent(x, it, pid) ==
    \/ x = it /\ ~IsPub(it)
    \/ /\ IsPub(it) /\ x.t = "pub" /\ x.m = it.m /\ x.pid \in Pid
       /\ IF pid # 0 THEN x = Packet("pub", it.m, pid) ELSE nano_qos_db'[x.pid] = it.m /\ x.pid = packet_id'

LEMMA SendAdds ==
    ASSUME Types, NEW p \in Pipe, NEW it \in Waiting, NEW pid \in 0..PidMax,
           NEW others, tcptran_pipe_send(p, it, pid, others)
    PROVE  /\ \A q \in Pipe \ {p} : toClient'[q] = toClient[q]
           /\ \A x \in On(toClient'[p]) : x \in On(toClient[p]) \/ Sent(x, it, pid)
           /\ toBroker' = toBroker
           /\ \A i \in Pid : nano_qos_db'[i] = nano_qos_db[i] \/ nano_qos_db'[i] # None
           /\ \A m \in stored' : m \in stored \/ \E i \in Pid : nano_qos_db'[i] = m
<1>0. toBroker' = toBroker
  BY DEF tcptran_pipe_send
<1>1. /\ toClient \in [Pipe -> Seq(Down)] /\ nano_qos_db \in [Pid -> Msg \union {None}]
      /\ packet_id \in 0..PidMax
  BY DEF Types, NetTypes, DbTypes
<1>2. IncPacketid \in Pid
  BY <1>1, SizesAssumption DEF IncPacketid, Pid
<1>3. ASSUME NoStore
      PROVE  /\ \A i \in Pid : nano_qos_db'[i] = nano_qos_db[i] \/ nano_qos_db'[i] # None
             /\ \A m \in stored' : m \in stored \/ \E i \in Pid : nano_qos_db'[i] = m
  BY <1>3 DEF NoStore
<1>4. ASSUME IsPub(it), Store(it.m)
      PROVE  /\ \A i \in Pid : nano_qos_db'[i] = nano_qos_db[i] \/ nano_qos_db'[i] # None
             /\ \A m \in stored' : m \in stored \/ \E i \in Pid : nano_qos_db'[i] = m
             /\ nano_qos_db'[IncPacketid] = it.m /\ packet_id' = IncPacketid
  <2>1. it.m \in Msg /\ it.m # None
    BY <1>4 DEF Waiting, IsPub, Msg, None
  <2>2. /\ nano_qos_db' = Set(nano_qos_db, IncPacketid, it.m) /\ stored' = stored \union {it.m}
        /\ packet_id' = IncPacketid
    BY <1>4 DEF Store
  <2>3. nano_qos_db'[IncPacketid] = it.m
        /\ \A i \in Pid \ {IncPacketid} : nano_qos_db'[i] = nano_qos_db[i]
    BY <1>1, <1>2, <2>2 DEF Set
  <2> QED
    BY <1>2, <2>1, <2>2, <2>3
<1>5. CASE tclosed[p]
  <2>1. NoStore /\ toClient' = toClient
    BY <1>5 DEF tcptran_pipe_send
  <2> QED
    BY <1>0, <1>3, <2>1
<1>6. CASE ~tclosed[p] /\ cache[p]
  <2>1. SendCached(p, it, others)
    BY <1>6 DEF tcptran_pipe_send
  <2>2. toClient' = toClient /\ ((IsPub(it) /\ Store(it.m)) \/ NoStore)
    BY <2>1 DEF SendCached
  <2> QED
    BY <1>0, <1>3, <1>4, <2>2
<1>7. CASE ~tclosed[p] /\ ~cache[p]
  <2> DEFINE skip == IsPub(it) /\ WindowFull(p)
  <2>1. SendStart(p, it, pid, others)
    BY <1>7 DEF tcptran_pipe_send
  <2>2. PICK out : out = IF ~IsPub(it) THEN it
                         ELSE Packet("pub", it.m, IF pid # 0 THEN pid ELSE IncPacketid)
    OBVIOUS
  <2>3. /\ IF IsPub(it) /\ pid = 0 /\ ~skip THEN Store(it.m) ELSE NoStore
        /\ toClient' = IF conn[p] /\ ~skip THEN Set(toClient, p, Append(toClient[p], out))
                       ELSE toClient
    BY <2>1, <2>2 DEF SendStart
  <2>4. CASE toClient' = toClient
    BY <1>0, <1>3, <1>4, <2>3, <2>4
  <2>5. CASE ~skip /\ toClient' = Set(toClient, p, Append(toClient[p], out))
    <3>1. out \in Down
      <4>1. CASE IsPub(it)
        <5>1. it.m \in Msg
          BY <4>1 DEF Waiting, IsPub
        <5>2. PICK i \in Pid : i = IF pid # 0 THEN pid ELSE IncPacketid
          BY <1>2, SizesAssumption DEF Pid
        <5> QED
          BY <2>2, <4>1, <5>1, <5>2 DEF Down, Items, Packet, Pid
      <4>2. CASE ~IsPub(it)
        BY <2>2, <4>2 DEF Down, Waiting, IsPub
      <4> QED
        BY <4>1, <4>2
    <3>2. /\ \A q \in Pipe \ {p} : toClient'[q] = toClient[q]
          /\ toClient'[p] = Append(toClient[p], out) /\ toClient[p] \in Seq(Down)
      BY <1>1, <2>5 DEF Set
    <3>3. On(toClient'[p]) = On(toClient[p]) \union {out}
      BY <3>1, <3>2, OnFacts
    <3>4. Sent(out, it, pid)
      <4>1. CASE ~IsPub(it)
        BY <2>2, <4>1 DEF Sent
      <4>2. CASE IsPub(it) /\ pid # 0
        BY <2>2, <4>2 DEF Sent, Packet, Pid
      <4>3. CASE IsPub(it) /\ pid = 0
        <5>1. nano_qos_db'[IncPacketid] = it.m /\ packet_id' = IncPacketid
          BY <1>4, <2>3, <2>5, <4>3
        <5>2. out = Packet("pub", it.m, IncPacketid)
          BY <2>2, <4>3
        <5>3. out.t = "pub" /\ out.m = it.m /\ out.pid = IncPacketid
          BY <5>2 DEF Packet
        <5> QED
          BY <1>2, <4>3, <5>1, <5>3 DEF Sent
      <4> QED
        BY <4>1, <4>2, <4>3
    <3>5. \A x \in On(toClient'[p]) : x \in On(toClient[p]) \/ Sent(x, it, pid)
      BY <3>3, <3>4
    <3>6. (IsPub(it) /\ Store(it.m)) \/ NoStore
      BY <2>3
    <3> QED
      BY <1>0, <1>3, <1>4, <3>2, <3>5, <3>6
  <2> QED
    BY <2>3, <2>4, <2>5
<1> QED
  BY <1>5, <1>6, <1>7

\* A step that sends it over p, after which what was sent is truthful.
LEMMA SendFaithful ==
    ASSUME Types, NEW p \in Pipe, NEW it \in Waiting, NEW pid \in 0..PidMax,
           NEW others, tcptran_pipe_send(p, it, pid, others),
           UNCHANGED <<got, expired>>,
           \A q \in Pipe : /\ On(rlmq'[q]) \subseteq On(rlmq[q]) /\ rx'[q] \in {rx[q], Nothing}
                           /\ lk'[q] \in {"tmr", "rcv"} => lk'[q] = lk[q] /\ pick'[q] = pick[q],
           \A x \in Items : Sent(x, it, pid) /\ x.t # "connack" => Carries(p, x) \/ Granted(x)
    PROVE  Faithful
<1>1. /\ \A q \in Pipe \ {p} : toClient'[q] = toClient[q]
      /\ \A x \in On(toClient'[p]) : x \in On(toClient[p]) \/ Sent(x, it, pid)
      /\ toBroker' = toBroker
      /\ \A i \in Pid : nano_qos_db'[i] = nano_qos_db[i] \/ nano_qos_db'[i] # None
      /\ \A m \in stored' : m \in stored \/ \E i \in Pid : nano_qos_db'[i] = m
  BY SendAdds
<1>2. ASSUME NEW q \in Pipe, NEW x \in Items, Carries(q, x)'
      PROVE  Carries(q, x) \/ Granted(x)
  <2>1. CASE q # p
    <3>1. Less(q)
      BY <1>1, <2>1 DEF Less
    <3> QED
      BY <1>2, <3>1, LessCarries
  <2>2. CASE q = p /\ x \in On(toClient'[p]) /\ x \notin On(toClient[p])
    <3>1. Sent(x, it, pid) /\ x.t # "connack"
      BY <1>1, <1>2, <2>2 DEF Carries
    <3> QED
      BY <2>2, <3>1
  <2>3. CASE q = p /\ (x \notin On(toClient'[p]) \/ x \in On(toClient[p]))
    <3>1. Carries(p, x)
      BY <1>1, <1>2, <2>3 DEF Carries, Nothing, Packet
    <3> QED
      BY <2>3, <3>1
  <2> QED
    BY <2>1, <2>2, <2>3
<1>3. \A i \in Pid : nano_qos_db'[i] # None \/ nano_qos_db[i] = None
  BY <1>1
<1> QED
  BY <1>1, <1>2, <1>3 DEF Faithful

\* A new message, which is sent with no id: it is stored under the one it gets.
LEMMA SentNew ==
    ASSUME NEW it \in Offered, NEW x \in Items, Sent(x, it, 0), x.t # "connack"
    PROVE  Granted(x)
BY DEF Sent, Offered, IsPub, Truthful, Granted

LEMMA nano_ctx_sendFaithful == ASSUME Inv, Reset, nano_ctx_send PROVE Faithful /\ Reset'
<1>1. Types /\ CarrierTypes
  BY Carriers
<1>2. PICK p \in Pipe : p = ctx.p
  BY <1>1 DEF nano_ctx_send, Types, ThrTypes, Pipe, None
<1>3. PICK it \in Offered : it = ctx.it
  BY <1>1, <1>2 DEF Inv, Moves, Types, ThrTypes, nano_ctx_send, Pipe, None
<1>4. /\ lk' = Set(lk, p, "free") /\ UNCHANGED <<prov, pick, rx, client_vars, expired>>
      /\ \/ /\ ~busy[p] /\ busy' = Set(busy, p, TRUE)
            /\ tcptran_pipe_send(p, it, prov[p], tx[p]) /\ rlmq' = rlmq
         \/ Enqueue(p, it) /\ NoSend /\ busy' = busy
  BY <1>2, <1>3 DEF nano_ctx_send
<1>5. \A q \in Pipe : lk'[q] \in {"tmr", "rcv"} => lk'[q] = lk[q] /\ pick'[q] = pick[q]
  BY <1>1, <1>4 DEF CarrierTypes, Set
<1>6. CASE /\ ~busy[p] /\ busy' = Set(busy, p, TRUE)
           /\ tcptran_pipe_send(p, it, prov[p], tx[p]) /\ rlmq' = rlmq
  <2>1. prov[p] = 0 /\ 0 \in 0..PidMax
    BY <1>6, SizesAssumption DEF Reset
  <2>2. it \in Waiting /\ tcptran_pipe_send(p, it, 0, tx[p])
    BY <1>6, <2>1 DEF Offered, Waiting
  <2>3. \A x \in Items : Sent(x, it, 0) /\ x.t # "connack" => Carries(p, x) \/ Granted(x)
    BY SentNew
  <2>4. Faithful
    BY <1>1, <1>4, <1>5, <1>6, <2>1, <2>2, <2>3, SendFaithful DEF client_vars
  <2>5. Reset'
    BY <1>1, <1>4, <1>6 DEF Reset, CarrierTypes, Set
  <2> QED
    BY <2>4, <2>5
<1>7. CASE Enqueue(p, it) /\ NoSend /\ busy' = busy
  <2>1. \A q \in Pipe \ {p} : rlmq'[q] = rlmq[q]
    BY <1>1, <1>7 DEF Enqueue, CarrierTypes, Set
  <2>2. On(rlmq'[p]) \subseteq On(rlmq[p]) \union {it}
    <3>1. it \in Waiting
      BY DEF Offered, Waiting
    <3>2. rlmq'[p] = rlmq[p] \/ rlmq'[p] = Append(rlmq[p], it)
      BY <1>1, <1>7 DEF Enqueue, CarrierTypes, Set
    <3>3. rlmq[p] \in Seq(Waiting)
      BY <1>1 DEF CarrierTypes
    <3>4. On(Append(rlmq[p], it)) = On(rlmq[p]) \union {it}
      BY <3>1, <3>3, OnFacts
    <3> QED
      BY <3>2, <3>4
  <2>3. \A x \in Items : x.t # "connack" /\ x.pid # 0 => x # it
    BY DEF Offered
  <2>4. UNCHANGED <<toClient, toBroker, nano_qos_db, stored>>
    BY <1>7 DEF NoSend, net_vars, db_vars
  <2>5. \A q \in Pipe, x \in Items : Carries(q, x)' => Carries(q, x)
    <3> SUFFICES ASSUME NEW q \in Pipe, NEW x \in Items, Carries(q, x)' PROVE Carries(q, x)
      OBVIOUS
    <3>1. x \in On(rlmq'[q]) => x \in On(rlmq[q])
      BY <2>1, <2>2, <2>3 DEF Carries
    <3> QED
      BY <1>4, <1>5, <2>4, <3>1 DEF Carries
  <2>6. Faithful
    BY <1>4, <2>4, <2>5 DEF Faithful, client_vars
  <2> QED
    BY <1>4, <1>7, <2>6 DEF Reset
<1> QED
  BY <1>4, <1>6, <1>7

LEMMA nano_pipe_send_cbFaithful ==
    ASSUME Inv, Reset, NEW p \in Pipe, nano_pipe_send_cb(p)
    PROVE  Faithful /\ Reset'
<1>1. Types /\ CarrierTypes
  BY Carriers
<1>2. UNCHANGED <<lk, pick, rx, got, expired>>
  BY DEF nano_pipe_send_cb, thr_vars, client_vars
<1>3. CASE /\ rlmq[p] # <<>> /\ prov' = ProvReset(p) /\ rlmq' = Set(rlmq, p, Tail(rlmq[p]))
           /\ tcptran_pipe_send(p, Head(rlmq[p]), prov'[p], Tail(tx[p]))
           /\ busy' = busy
  <2>1. prov'[p] = 0 /\ 0 \in 0..PidMax /\ \A q \in Pipe \ {p} : prov'[q] = prov[q]
    BY <1>1, <1>3, SizesAssumption DEF ProvReset, Set, CarrierTypes
  <2>2. rlmq[p] \in Seq(Waiting)
    BY <1>1 DEF CarrierTypes
  <2>3. PICK it \in Waiting : it = Head(rlmq[p]) /\ it \in On(rlmq[p])
    BY <1>3, <2>2, OnFacts
  <2>4. tcptran_pipe_send(p, it, 0, Tail(tx[p]))
    BY <1>3, <2>1, <2>3
  <2>5. \A q \in Pipe : On(rlmq'[q]) \subseteq On(rlmq[q])
    BY <1>1, <1>3, <2>2, OnFacts DEF Set, CarrierTypes
  <2>6. \A x \in Items : Sent(x, it, 0) /\ x.t # "connack" => Carries(p, x) \/ Granted(x)
    <3> SUFFICES ASSUME NEW x \in Items, Sent(x, it, 0), x.t # "connack"
                 PROVE  Carries(p, x) \/ Granted(x)
      OBVIOUS
    <3>1. CASE it \in Offered
      BY <3>1, SentNew
    <3>2. CASE it \notin Offered
      <4>1. it.t = "rel" /\ it.pid \in Pid
        BY <3>2 DEF Waiting, Offered
      <4>2. x = it
        BY <4>1 DEF Sent, IsPub
      <4> QED
        BY <2>3, <4>1, <4>2 DEF Carries, Pid
    <3> QED
      BY <3>1, <3>2
  <2>7. Faithful
    BY <1>1, <1>2, <2>1, <2>4, <2>5, <2>6, SendFaithful
  <2> QED
    BY <1>3, <2>1, <2>7 DEF Reset
<1>4. CASE /\ prov' = ProvReset(p) /\ busy' = NotBusy(p)
           /\ UNCHANGED <<rlmq, cache, tclosed, quota, db_vars, net_vars>>
  <2>1. \A q \in Pipe : Less(q)
    BY <1>2, <1>4 DEF Less, net_vars
  <2>2. Faithful
    BY <1>1, <1>2, <1>4, <2>1, Quiet DEF db_vars
  <2>3. Reset'
    BY <1>1, <1>4 DEF Reset, ProvReset, NotBusy, Set, CarrierTypes
  <2> QED
    BY <2>2, <2>3
<1>5. CASE Closes(p) /\ UNCHANGED <<busy, prov, tclosed, quota, db_vars>>
  BY <1>2, <1>5, LosesFaithful DEF db_vars
<1> QED
  BY <1>3, <1>4, <1>5 DEF nano_pipe_send_cb, Closes

\* A message that is repeated is sent under the id it was found under.
LEMMA ResendFaithful ==
    ASSUME Inv, Reset, NEW p \in Pipe, NEW who \in {"tmr", "rcv"}, Resend(p, who),
           rx' = rx \/ rx' = Set(rx, p, Nothing)
    PROVE  Faithful /\ Reset'
<1>1. Types /\ CarrierTypes
  BY Carriers
<1>2. /\ lk[p] = who /\ busy' = Set(busy, p, TRUE) /\ prov' = Set(prov, p, pick[p].pid)
      /\ tcptran_pipe_send(p, Pub(pick[p].m), pick[p].pid, tx[p])
      /\ lk' = Set(lk, p, "free") /\ pick' = Set(pick, p, [m |-> None, pid |-> 0])
      /\ UNCHANGED <<rlmq, client_vars, expired>>
  BY DEF Resend
<1>3. PICK m \in Msg, pid \in Pid : m = pick[p].m /\ pid = pick[p].pid
  BY <1>2 DEF Inv, PipeInv, SendP
<1>4. Pub(m) \in Waiting /\ pid \in 0..PidMax /\ pid # 0 /\ Pub(m).m = m /\ IsPub(Pub(m))
  BY SizesAssumption DEF Pub, Packet, Waiting, Items, Pid, IsPub
<1>5. tcptran_pipe_send(p, Pub(m), pid, tx[p])
  BY <1>2, <1>3
<1>6. \A q \in Pipe : /\ On(rlmq'[q]) \subseteq On(rlmq[q]) /\ rx'[q] \in {rx[q], Nothing}
                      /\ lk'[q] \in {"tmr", "rcv"} => lk'[q] = lk[q] /\ pick'[q] = pick[q]
  BY <1>1, <1>2 DEF CarrierTypes, Set
<1>7. \A x \in Items : Sent(x, Pub(m), pid) /\ x.t # "connack" => Carries(p, x) \/ Granted(x)
  <2> SUFFICES ASSUME NEW x \in Items, Sent(x, Pub(m), pid) PROVE Carries(p, x)
    OBVIOUS
  <2>1. x = Packet("pub", m, pid)
    BY <1>4 DEF Sent
  <2>2. x.t = "pub" /\ x.pid = pid
    BY <2>1 DEF Packet
  <2> QED
    BY <1>2, <1>3, <1>4, <2>1, <2>2 DEF Carries
<1>8. Faithful
  BY <1>1, <1>2, <1>4, <1>5, <1>6, <1>7, SendFaithful DEF client_vars
<1>9. Reset'
  BY <1>1, <1>2 DEF Reset, CarrierTypes, Set
<1> QED
  BY <1>8, <1>9

\* What is found to be repeated is in the store under its id, and stays there.
LEMMA PickTruth ==
    ASSUME Types, NEW p \in Pipe, NEW from \in Pid, NEW late, NEW old,
           NEW who \in {"tmr", "rcv"}, Pick(p, from, late, old, who)
    PROVE  /\ expired \subseteq expired' /\ stored' = stored
           /\ \A i \in Pid : nano_qos_db'[i] # None \/ nano_qos_db[i] \in {None} \union expired'
           /\ \A q \in Pipe \ {p} : pick'[q] = pick[q] /\ lk'[q] = lk[q]
           /\ \/ UNCHANGED <<pick, lk>>
              \/ pick'[p].pid \in Pid /\ nano_qos_db'[pick'[p].pid] = pick'[p].m /\ InUse(pick'[p].pid)
<1>1. nano_qos_db \in [Pid -> Msg \union {None}]
      /\ pick \in [Pipe -> [m : Msg \union {None}, pid : 0..PidMax]]
      /\ lk \in [Pipe -> {"free", "ctx", "tmr", "rcv"}]
  BY DEF Types, DbTypes, ThrTypes, NanoTypes
<1>2. \A i \in Held(p) : Db(p)[i] = nano_qos_db[i]
  BY <1>1 DEF Held, Db
<1>3. /\ Fresh(p, late) \subseteq Held(p) /\ Held(p) \subseteq Pid
      /\ Passed(p, from, late) \subseteq Held(p) \ Fresh(p, late)
  BY DEF Passed, Fresh, Held
<1>4. /\ nano_qos_db' = [i \in Pid |-> IF i \in Passed(p, from, late) THEN None ELSE nano_qos_db[i]]
      /\ expired' = expired \union {nano_qos_db[i] : i \in Passed(p, from, late)}
      /\ stored' = stored
  BY DEF Pick
<1>5. \A i \in Pid : nano_qos_db'[i] # None \/ nano_qos_db[i] \in {None} \union expired'
  <2> SUFFICES ASSUME NEW i \in Pid
               PROVE  nano_qos_db'[i] # None \/ nano_qos_db[i] \in {None} \union expired'
    OBVIOUS
  <2>1. CASE i \in Passed(p, from, late)
    BY <1>4, <2>1
  <2>2. CASE i \notin Passed(p, from, late)
    BY <1>4, <2>2
  <2> QED
    BY <2>1, <2>2
<1>6. CASE old /\ Fresh(p, late) # {}
  <2>1. PICK F : F = Fresh(p, late)
    OBVIOUS
  <2>2. F \in SUBSET Pid /\ F # {}
    BY <1>3, <1>6, <2>1
  <2>3. PICK i \in F : i = First(p, from, late)
    BY <2>1, <2>2, NearestIn DEF First
  <2>4. pick' = Set(pick, p, [m |-> Db(p)[i], pid |-> i]) /\ lk' = Set(lk, p, who)
    BY <1>6, <2>3 DEF Pick
  <2>5. i \in Pid /\ Db(p)[i] = nano_qos_db[i] /\ nano_qos_db'[i] = nano_qos_db[i]
    BY <1>2, <1>3, <1>4, <2>1, <2>3
  <2>6. PICK y : y = nano_qos_db[i]
    OBVIOUS
  <2>7. pick' = Set(pick, p, [m |-> y, pid |-> i])
    BY <2>4, <2>5, <2>6
  <2>8. pick'[p].pid = i /\ pick'[p].m = y /\ \A q \in Pipe \ {p} : pick'[q] = pick[q]
    BY <1>1, <2>7 DEF Set
  <2>9. \A q \in Pipe \ {p} : lk'[q] = lk[q]
    BY <1>1, <2>4 DEF Set
  <2>10. InUse(i)
    BY <2>1, <2>3, <2>5 DEF InUse, Fresh, Held
  <2> QED
    BY <1>4, <1>5, <2>5, <2>6, <2>8, <2>9, <2>10
<1>7. CASE ~(old /\ Fresh(p, late) # {})
  <2>1. UNCHANGED <<pick, lk>>
    BY <1>7 DEF Pick
  <2> QED
    BY <1>4, <1>5, <2>1
<1> QED
  BY <1>6, <1>7

LEMMA PickFaithful ==
    ASSUME Types, NEW p \in Pipe, NEW from \in Pid, NEW late, NEW old,
           NEW who \in {"tmr", "rcv"}, Pick(p, from, late, old, who),
           UNCHANGED <<toClient, toBroker, rlmq, got>>,
           \A q \in Pipe : rx'[q] \in {rx[q], Nothing}
    PROVE  Faithful
<1>1. /\ expired \subseteq expired' /\ stored' = stored
      /\ \A i \in Pid : nano_qos_db'[i] # None \/ nano_qos_db[i] \in {None} \union expired'
      /\ \A q \in Pipe \ {p} : pick'[q] = pick[q] /\ lk'[q] = lk[q]
      /\ \/ UNCHANGED <<pick, lk>>
         \/ pick'[p].pid \in Pid /\ nano_qos_db'[pick'[p].pid] = pick'[p].m /\ InUse(pick'[p].pid)
  BY PickTruth
<1>2. ASSUME NEW q \in Pipe, NEW x \in Items, Carries(q, x)'
      PROVE  Carries(q, x) \/ Granted(x)
  <2>1. CASE pick'[q] = pick[q] /\ lk'[q] = lk[q]
    <3>1. Less(q)
      BY <2>1 DEF Less
    <3> QED
      BY <1>2, <3>1, LessCarries
  <2>2. CASE /\ q = p /\ pick'[p].pid \in Pid /\ nano_qos_db'[pick'[p].pid] = pick'[p].m
             /\ InUse(pick'[p].pid)
    <3>1. CASE x = Packet("pub", pick'[p].m, pick'[p].pid)
      <4>1. x.t = "pub" /\ x.m = pick'[p].m /\ x.pid = pick'[p].pid
        BY <3>1 DEF Packet
      <4> QED
        BY <2>2, <4>1 DEF Truthful, Granted
    <3>2. CASE x # Packet("pub", pick'[p].m, pick'[p].pid)
      <4>1. Carries(p, x)
        BY <1>2, <2>2, <3>2 DEF Carries, Nothing, Packet
      <4> QED
        BY <2>2, <4>1
    <3> QED
      BY <3>1, <3>2
  <2> QED
    BY <1>1, <2>1, <2>2
<1> QED
  BY <1>1, <1>2 DEF Faithful

LEMMA TimerPickFaithful ==
    ASSUME Inv, Reset, NEW p \in Pipe, NEW late, NEW old, TimerPick(p, late, old)
    PROVE  Faithful /\ Reset'
<1>1. Types /\ CarrierTypes
  BY Carriers
<1>2. PICK from \in Pid : from = rid[p]
  BY <1>1 DEF Types, NanoTypes
<1>3. Pick(p, from, late, old, "tmr") /\ UNCHANGED <<busy, prov, rlmq, tran_vars, net_vars, got>>
  BY <1>2 DEF TimerPick, client_vars
<1>4. Faithful
  BY <1>1, <1>3, PickFaithful DEF tran_vars, net_vars
<1> QED
  BY <1>3, <1>4 DEF Reset

\* The answer to a PUBREC is the PUBREL of the same message.
LEMMA AnswerFaithful ==
    ASSUME Inv, Meaning, Reset, Unused, NEW p \in Pipe, rx[p].t = "rec", RecvDone(p),
           Answer(p, Rel(rx[p].pid)), UNCHANGED <<lk, pick, prov, got, expired>>
    PROVE  Faithful /\ Reset'
<1>1. Types /\ CarrierTypes
  BY Carriers
<1>2. rx[p] \in Up
  BY <1>1 DEF CarrierTypes, Nothing, Packet
<1>3. PICK pid \in Pid : pid = rx[p].pid
  BY <1>2 DEF Up
<1>4. PICK it \in Waiting : it = Rel(pid) /\ it.t = "rel" /\ it.pid = pid /\ ~IsPub(it)
  <2>1. Rel(pid).t = "rel" /\ Rel(pid).pid = pid /\ Rel(pid) \in Items
    BY SizesAssumption DEF Rel, Packet, Items, Pid, None
  <2> QED
    BY <2>1 DEF Waiting, IsPub
<1>5. Answer(p, it)
  BY <1>3, <1>4
<1>6. Carries(p, rx[p])
  BY <1>2, <1>3 DEF Carries, Up, Pid
<1>7. Granted(it)
  <2>1. nano_qos_db[pid] \in {None} \union got
    BY <1>2, <1>3, <1>6 DEF Meaning, Truthful, Up
  <2>2. InUse(pid)
    BY <1>2, <1>3, <1>6 DEF InUse, Up
  <2>3. nano_qos_db'[pid] \in {None, nano_qos_db[pid]}
    BY <2>2 DEF Unused
  <2> QED
    BY <1>4, <2>1, <2>2, <2>3 DEF Truthful, Granted
<1>8. \A q \in Pipe : rx'[q] \in {rx[q], Nothing}
  BY <1>1 DEF RecvDone, Set, CarrierTypes
<1>9. CASE /\ busy' = Set(busy, p, TRUE) /\ rlmq' = rlmq
           /\ tcptran_pipe_send(p, it, prov[p], tx[p])
  <2>1. PICK k \in 0..PidMax : k = prov[p]
    BY <1>1 DEF CarrierTypes
  <2>2. \A x \in Items : Sent(x, it, k) => Granted(x)
    BY <1>4, <1>7 DEF Sent
  <2>3. tcptran_pipe_send(p, it, k, tx[p])
    BY <1>9, <2>1
  <2>4. Faithful
    BY <1>1, <1>8, <1>9, <2>2, <2>3, SendFaithful
  <2> QED
    BY <1>1, <1>9, <2>4 DEF Reset, CarrierTypes, Set
<1>10. CASE /\ NoSend /\ busy' = busy
            /\ rlmq' = IF Len(rlmq[p]) < cap[p] THEN Set(rlmq, p, Append(rlmq[p], it)) ELSE rlmq
  <2>1. \A q \in Pipe \ {p} : rlmq'[q] = rlmq[q]
    BY <1>1, <1>10 DEF CarrierTypes, Set
  <2>2. On(rlmq'[p]) \subseteq On(rlmq[p]) \union {it}
    <3>1. rlmq'[p] = rlmq[p] \/ rlmq'[p] = Append(rlmq[p], it)
      BY <1>1, <1>10 DEF CarrierTypes, Set
    <3>2. rlmq[p] \in Seq(Waiting)
      BY <1>1 DEF CarrierTypes
    <3>3. On(Append(rlmq[p], it)) = On(rlmq[p]) \union {it}
      BY <3>2, OnFacts
    <3> QED
      BY <3>1, <3>3
  <2>3. UNCHANGED <<toClient, toBroker, nano_qos_db, stored>>
    BY <1>10 DEF NoSend, net_vars, db_vars
  <2>4. ASSUME NEW q \in Pipe, NEW x \in Items, Carries(q, x)' PROVE Carries(q, x) \/ x = it
    <3>1. x \in On(rlmq'[q]) => x \in On(rlmq[q]) \/ x = it
      BY <2>1, <2>2
    <3>2. x = rx'[q] /\ x.t = "rec" => x = rx[q]
      BY <1>8 DEF Nothing, Packet
    <3> QED
      BY <2>3, <2>4, <3>1, <3>2 DEF Carries
  <2>5. Faithful
    BY <1>7, <2>3, <2>4 DEF Faithful
  <2> QED
    BY <1>10, <2>5 DEF Reset
<1> QED
  BY <1>5, <1>9, <1>10 DEF Answer

LEMMA nano_pipe_recv_cbFaithful ==
    ASSUME Inv, Meaning, Reset, Unused, NEW p \in Pipe, NEW late, NEW old,
           nano_pipe_recv_cb(p, late, old)
    PROVE  Faithful /\ Reset'
<1>1. Types /\ CarrierTypes
  BY Carriers
<1>2. UNCHANGED <<prov, got>>
  BY DEF nano_pipe_recv_cb, client_vars
<1>3. CASE RecvDone(p) /\ NoSend /\ UNCHANGED <<busy, rlmq, lk, pick, expired>>
  <2>1. \A q \in Pipe : Less(q)
    BY <1>1, <1>3 DEF Less, NoSend, net_vars, RecvDone, Set, CarrierTypes
  <2>2. Faithful
    BY <1>1, <1>2, <1>3, <2>1, Quiet DEF NoSend, db_vars
  <2> QED
    BY <1>2, <1>3, <2>2 DEF Reset
<1>4. CASE /\ rx[p].t = "rec" /\ RecvDone(p) /\ Answer(p, Rel(rx[p].pid))
           /\ UNCHANGED <<rid, lk, pick, expired>>
  BY <1>2, <1>4, AnswerFaithful
<1>5. CASE /\ rx[p].t \in {"ack", "comp"} /\ rid' = Set(rid, p, Rid(rx[p].pid))
           /\ Pick(p, rid'[p], late, old, "rcv") /\ (rx' = rx \/ RecvDone(p))
           /\ UNCHANGED <<net_vars, busy, rlmq>>
  <2>1. rx[p].pid \in Pid
    BY <1>1, <1>5 DEF CarrierTypes, Up, Nothing, Packet
  <2>2. PICK from \in Pid : from = Rid(rx[p].pid)
    BY <2>1, RidType
  <2>3. rid'[p] = from
    BY <1>1, <1>5, <2>2 DEF Types, NanoTypes, Set
  <2>4. \A q \in Pipe : rx'[q] \in {rx[q], Nothing}
    BY <1>1, <1>5 DEF RecvDone, Set, CarrierTypes
  <2>5. Faithful
    BY <1>1, <1>2, <1>5, <2>3, <2>4, PickFaithful DEF net_vars
  <2> QED
    BY <1>2, <1>5, <2>5 DEF Reset
<1> QED
  BY <1>3, <1>4, <1>5 DEF nano_pipe_recv_cb

\* An acknowledgement ends a message that the client has.
LEMMA TranRecvFaithful ==
    ASSUME Inv, Meaning, Reset, NEW p \in Pipe, TranRecv(p)
    PROVE  Faithful /\ Reset'
<1>1. Types /\ CarrierTypes
  BY Carriers
<1>2. /\ toBroker[p] # <<>> /\ toBroker' = Set(toBroker, p, Tail(toBroker[p]))
      /\ UNCHANGED <<busy, prov, rlmq, lk, pick, toClient, stored, got, expired>>
  BY DEF TranRecv, nano_vars, thr_vars, client_vars
<1>3. toBroker[p] \in Seq(Up)
  BY <1>1 DEF CarrierTypes
<1>4. PICK pkt \in Up : pkt = Head(toBroker[p]) /\ pkt \in On(toBroker[p])
  BY <1>2, <1>3, OnFacts
<1>5. \/ /\ pkt.t \in {"ack", "comp"} /\ rx' = Set(rx, p, pkt) /\ Db(p)[pkt.pid] # None
         /\ nano_qos_db' = Set(nano_qos_db, pkt.pid, None)
      \/ UNCHANGED <<nano_qos_db, rx>>
      \/ pkt.t = "rec" /\ rx' = Set(rx, p, pkt) /\ nano_qos_db' = nano_qos_db
  BY <1>4 DEF TranRecv
<1>6. Carries(p, pkt) /\ pkt.pid \in Pid /\ pkt \in Items
  BY <1>4 DEF Carries, Up, Pid
<1>7. \A q \in Pipe : On(toBroker'[q]) \subseteq On(toBroker[q])
  BY <1>1, <1>2, <1>3, OnFacts DEF CarrierTypes, Set
<1>8. ASSUME NEW q \in Pipe, NEW x \in Items, Carries(q, x)' PROVE Carries(q, x)
  <2>a. PICK S : rx \in [Pipe -> S]
    BY <1>1 DEF CarrierTypes
  <2>b. rx' = rx \/ rx' = Set(rx, p, pkt)
    BY <1>5
  <2>1. rx'[q] = rx[q] \/ (q = p /\ rx'[q] = pkt)
    BY <2>a, <2>b DEF Set
  <2> QED
    BY <1>2, <1>6, <1>7, <1>8, <2>1 DEF Carries
<1>9. \A i \in Pid : nano_qos_db'[i] # None \/ nano_qos_db[i] \in {None} \union got
  <2>1. pkt.t # "pub" => nano_qos_db[pkt.pid] \in {None} \union got
    BY <1>6 DEF Meaning, Truthful
  <2>2. \A i \in Pid : nano_qos_db'[i] = nano_qos_db[i] \/ i = pkt.pid
    BY <1>1, <1>5 DEF Types, DbTypes, Set
  <2>3. pkt.t # "pub"
    BY DEF Up
  <2> QED
    BY <2>1, <2>2, <2>3
<1>10. Faithful
  BY <1>2, <1>8, <1>9 DEF Faithful
<1> QED
  BY <1>2, <1>10 DEF Reset

\* The client answers a PUBLISH once it has the message.
LEMMA ClientRecvFaithful ==
    ASSUME Inv, Meaning, Reset, NEW p \in Pipe, ClientRecv(p)
    PROVE  Faithful /\ Reset'
<1>1. Types /\ CarrierTypes
  BY Carriers
<1>2. /\ toClient[p] # <<>> /\ toClient' = Set(toClient, p, Tail(toClient[p]))
      /\ UNCHANGED <<busy, prov, rlmq, rx, lk, pick, nano_qos_db, stored, expired>>
  BY DEF ClientRecv, nano_vars, thr_vars, tran_vars, db_vars
<1>3. toClient[p] \in Seq(Down) /\ toBroker[p] \in Seq(Up)
  BY <1>1 DEF CarrierTypes
<1>4. PICK pkt \in Down : pkt = Head(toClient[p]) /\ pkt \in On(toClient[p])
  BY <1>2, <1>3, OnFacts
<1>5. \/ UNCHANGED <<toBroker, got>>
      \/ /\ pkt.t \in {"pub", "rel"} /\ got' = IF pkt.t = "pub" THEN got \union {pkt.m} ELSE got
         /\ \E t \in {"ack", "rec", "comp"} :
              toBroker' = Set(toBroker, p, Append(toBroker[p], Packet(t, None, pkt.pid)))
  BY <1>4 DEF ClientRecv
<1>6. \A q \in Pipe : On(toClient'[q]) \subseteq On(toClient[q])
  BY <1>1, <1>2, <1>3, OnFacts DEF CarrierTypes, Set
<1>7. CASE UNCHANGED <<toBroker, got>>
  <2>1. \A q \in Pipe : Less(q)
    BY <1>2, <1>6, <1>7 DEF Less
  <2>2. Faithful
    BY <1>1, <1>2, <1>7, <2>1, Quiet
  <2> QED
    BY <1>2, <2>2 DEF Reset
<1>8. ASSUME pkt.t \in {"pub", "rel"}, got' = IF pkt.t = "pub" THEN got \union {pkt.m} ELSE got,
             NEW t \in {"ack", "rec", "comp"},
             toBroker' = Set(toBroker, p, Append(toBroker[p], Packet(t, None, pkt.pid)))
      PROVE  Faithful /\ Reset'
  <2>1. pkt.pid \in Pid /\ pkt \in Items
    BY <1>8 DEF Down
  <2>2. PICK re \in Up : re = Packet(t, None, pkt.pid) /\ re.t = t /\ re.pid = pkt.pid
    <3>1. PICK i \in Pid : i = pkt.pid
      BY <2>1
    <3>2. Packet(t, None, i).t = t /\ Packet(t, None, i).pid = i
      BY DEF Packet
    <3>3. Packet(t, None, i) \in Items
      BY DEF Packet, Items, Pid
    <3> QED
      BY <3>1, <3>2, <3>3 DEF Up
  <2>3. /\ \A q \in Pipe \ {p} : toBroker'[q] = toBroker[q]
        /\ toBroker'[p] = Append(toBroker[p], re)
    BY <1>1, <1>8, <2>2 DEF CarrierTypes, Set
  <2>4. On(toBroker'[p]) = On(toBroker[p]) \union {re}
    BY <1>3, <2>3, OnFacts
  <2>5. ASSUME NEW q \in Pipe, NEW x \in Items, Carries(q, x)' PROVE Carries(q, x) \/ x = re
    BY <1>2, <1>6, <2>3, <2>4, <2>5 DEF Carries
  <2>6. Granted(re)
    <3>1. Carries(p, pkt)
      BY <1>4, <1>8, <2>1 DEF Carries, Pid
    <3>2. nano_qos_db[pkt.pid] \in {None} \union (IF pkt.t = "pub" THEN {pkt.m} ELSE got)
      BY <2>1, <3>1 DEF Meaning, Truthful
    <3>3. nano_qos_db[pkt.pid] \in {None} \union got'
      BY <1>8, <3>2
    <3>4. InUse(pkt.pid)
      BY <2>1, <3>1 DEF InUse
    <3> QED
      BY <1>2, <2>2, <3>3, <3>4 DEF Truthful, Granted
  <2>7. got \subseteq got'
    BY <1>8
  <2>8. Faithful
    BY <1>2, <2>5, <2>6, <2>7 DEF Faithful
  <2> QED
    BY <1>2, <2>8 DEF Reset
<1> QED
  BY <1>5, <1>7, <1>8

-----------------------------------------------------------------------------
(* The store.                                                              *)

\* The inductive invariant under the hypothesis.
StoreInv == Inv /\ Meaning /\ Reset /\ AtLeastOnce

LEMMA InitStore == Init => StoreInv
<1> SUFFICES ASSUME Init PROVE StoreInv
  OBVIOUS
<1>1. Inv
  BY InitInv
<1>2. Meaning
  <2>1. \A p \in Pipe : /\ toClient[p] = <<>> /\ toBroker[p] = <<>> /\ rlmq[p] = <<>>
                        /\ rx[p] = Nothing /\ lk[p] = "free"
    BY DEF Init, All
  <2>2. \A p \in Pipe, x \in Items : ~Carries(p, x)
    BY <2>1, OnFacts DEF Carries, Nothing, Packet
  <2> QED
    BY <2>2 DEF Meaning
<1>3. Reset
  BY DEF Init, All, Reset
<1>4. AtLeastOnce
  BY DEF Init, AtLeastOnce
<1> QED
  BY <1>1, <1>2, <1>3, <1>4 DEF StoreInv

LEMMA StepFaithful ==
    ASSUME Inv, Meaning, Reset, Unused, [Next]_vars
    PROVE  Faithful /\ Reset'
<1>1. CASE nano_ctx_send
  BY <1>1, nano_ctx_sendFaithful
<1>2. CASE (\E m \in Msg : Publish(m)) \/ UNCHANGED vars
  BY <1>2, BeginningSteps
<1>3. ASSUME NEW p \in Pipe, SendConnack(p) \/ TimerTest(p) \/ TimerSkip(p)
      PROVE  Faithful /\ Reset'
  BY <1>3, BeginningSteps
<1>4. ASSUME NEW p \in Pipe,
             TimerKick(p) \/ Drop(p) \/ PipeLost(p) \/ CloseOld(p) \/ nano_pipe_start(p)
      PROVE  Faithful /\ Reset'
  BY <1>4, LosingSteps
<1>5. ASSUME NEW p \in Pipe, TimerResend(p) PROVE Faithful /\ Reset'
  BY <1>5, ResendFaithful DEF TimerResend
<1>6. ASSUME NEW p \in Pipe, BatchResend(p) PROVE Faithful /\ Reset'
  BY <1>6, ResendFaithful DEF BatchResend
<1>7. ASSUME NEW p \in Pipe, nano_pipe_send_cb(p) \/ TranRecv(p) \/ ClientRecv(p)
      PROVE  Faithful /\ Reset'
  BY <1>7, nano_pipe_send_cbFaithful, TranRecvFaithful, ClientRecvFaithful
<1>8. ASSUME NEW p \in Pipe, NEW late \in SUBSET Expiring, NEW old \in BOOLEAN,
             TimerPick(p, late, old) \/ nano_pipe_recv_cb(p, late, old)
      PROVE  Faithful /\ Reset'
  BY <1>8, TimerPickFaithful, nano_pipe_recv_cbFaithful
<1> QED
  BY <1>1, <1>2, <1>3, <1>4, <1>5, <1>6, <1>7, <1>8 DEF Next

LEMMA StepStore == StoreInv /\ [Next]_vars /\ [Unused]_vars => StoreInv'
<1> SUFFICES ASSUME StoreInv, [Next]_vars, [Unused]_vars PROVE StoreInv'
  OBVIOUS
<1>1. Inv /\ Meaning /\ Reset /\ AtLeastOnce
  BY DEF StoreInv
<1>2. Inv'
  BY <1>1, StepInv
<1>3. Unused
  BY DEF Unused, vars, db_vars
<1>4. Faithful /\ Reset'
  BY <1>1, <1>3, StepFaithful
<1>5. Meaning' /\ AtLeastOnce'
  BY <1>1, <1>2, <1>3, <1>4, Faithfully DEF Inv
<1> QED
  BY <1>2, <1>4, <1>5 DEF StoreInv

LEMMA StoreInvariance == Spec /\ [][Unused]_vars => []StoreInv
BY InitStore, StepStore, PTL DEF Spec

LEMMA StoreMeans == StoreInv => PidMeansMessage
<1> SUFFICES ASSUME StoreInv, NEW p \in Pipe, NEW i \in 1..Len(toClient[p]),
                    toClient[p][i].t = "pub"
             PROVE  nano_qos_db[toClient[p][i].pid] \in {None, toClient[p][i].m}
  BY DEF PidMeansMessage
<1>1. toClient[p] \in Seq(Down)
  BY Carriers DEF StoreInv, CarrierTypes
<1>2. PICK x \in Down : x = toClient[p][i] /\ x \in On(toClient[p])
  BY <1>1 DEF On
<1>3. x \in Items /\ x.t = "pub" /\ x.pid \in Pid
  BY <1>2 DEF Down
<1>4. Carries(p, x)
  BY <1>2, <1>3 DEF Carries, Pid
<1>5. Truthful(x)
  BY <1>3, <1>4 DEF StoreInv, Meaning
<1> QED
  BY <1>2, <1>3, <1>5 DEF Truthful

\* As long as no message is stored under an id that is in use (Unused), a PUBLISH on
\* its way to the client has the id of its own message, over repeated sends, sends
\* of several callers that share the handle's provider data, and sessions that move
\* to a new connection; the counter may come round any number of times.
THEOREM PidMeansMessageHolds == Spec /\ [][Unused]_vars => []PidMeansMessage
<1>1. StoreInv => PidMeansMessage
  BY StoreMeans
<1> QED
  BY <1>1, StoreInvariance, PTL

\* Under the same hypothesis a message that the broker has stored for a session stays
\* in the store until the client has it or it expires: no acknowledgement ends the
\* message of another id, and no connection that breaks, no session that moves and no
\* repeated send loses one.
THEOREM AtLeastOnceHolds == Spec /\ [][Unused]_vars => []AtLeastOnce
<1>1. StoreInv => AtLeastOnce
  BY DEF StoreInv
<1> QED
  BY <1>1, StoreInvariance, PTL

-----------------------------------------------------------------------------
(* Until the counter comes round.                                          *)

\* A step leaves the store or loses from it, or it stores under the next id.
Numbered ==
    \/ packet_id' = packet_id /\ \A i \in Pid : nano_qos_db'[i] \in {None, nano_qos_db[i]}
    \/ /\ packet_id' = IncPacketid
       /\ \A i \in Pid : nano_qos_db'[i] \in {None, nano_qos_db[i]} \/ i = packet_id'

LEMMA SendNumbered ==
    ASSUME Types, NEW p, NEW it, NEW pid, NEW others, tcptran_pipe_send(p, it, pid, others)
    PROVE  Numbered
<1>1. nano_qos_db \in [Pid -> Msg \union {None}]
  BY DEF Types, DbTypes
<1>2. CASE NoStore
  BY <1>2 DEF NoStore, Numbered
<1>3. CASE Store(it.m)
  BY <1>1, <1>3 DEF Store, Set, Numbered
<1> QED
  BY <1>2, <1>3 DEF tcptran_pipe_send, SendCached, SendStart

LEMMA StepNumbered == ASSUME Types, [Next]_vars PROVE Numbered
<1>0. nano_qos_db \in [Pid -> Msg \union {None}]
  BY DEF Types, DbTypes
<1>1. ASSUME UNCHANGED <<nano_qos_db, packet_id>> PROVE Numbered
  BY <1>1 DEF Numbered
<1>2. CASE nano_ctx_send
  BY <1>1, <1>2, SendNumbered DEF nano_ctx_send, NoSend, db_vars
<1>3. CASE (\E m \in Msg : Publish(m)) \/ UNCHANGED vars
  BY <1>1, <1>3 DEF Publish, vars, db_vars
<1>4. ASSUME NEW p \in Pipe, nano_pipe_send_cb(p) PROVE Numbered
  BY <1>1, <1>4, SendNumbered DEF nano_pipe_send_cb, db_vars
<1>5. ASSUME NEW p \in Pipe, TimerResend(p) \/ BatchResend(p) PROVE Numbered
  BY <1>5, SendNumbered DEF TimerResend, BatchResend, Resend
<1>6. ASSUME NEW p, NEW from, NEW late, NEW old, NEW who, Pick(p, from, late, old, who)
      PROVE  Numbered
  BY <1>6 DEF Pick, Numbered
<1>7. ASSUME NEW p \in Pipe, NEW late, NEW old, TimerPick(p, late, old) PROVE Numbered
  BY <1>6, <1>7 DEF TimerPick
<1>8. ASSUME NEW p \in Pipe, NEW late, NEW old, nano_pipe_recv_cb(p, late, old) PROVE Numbered
  <2>1. CASE NoSend
    BY <1>1, <2>1 DEF NoSend, db_vars
  <2>2. CASE Answer(p, Rel(rx[p].pid))
    BY <1>1, <2>2, SendNumbered DEF Answer, NoSend, db_vars
  <2>3. CASE Pick(p, rid'[p], late, old, "rcv")
    BY <1>6, <2>3
  <2> QED
    BY <1>8, <2>1, <2>2, <2>3 DEF nano_pipe_recv_cb
<1>9. ASSUME NEW p \in Pipe, TranRecv(p) PROVE Numbered
  <2>1. packet_id' = packet_id
    BY <1>9 DEF TranRecv
  <2>2. nano_qos_db' = nano_qos_db \/ \E i : nano_qos_db' = Set(nano_qos_db, i, None)
    BY <1>9 DEF TranRecv
  <2>3. \A i \in Pid : nano_qos_db'[i] \in {None, nano_qos_db[i]}
    BY <1>0, <2>2 DEF Set
  <2> QED
    BY <2>1, <2>3 DEF Numbered
<1>10. ASSUME NEW p \in Pipe,
              \/ SendConnack(p) \/ TimerTest(p) \/ TimerSkip(p) \/ TimerKick(p) \/ ClientRecv(p)
              \/ Drop(p) \/ PipeLost(p) \/ nano_pipe_start(p) \/ CloseOld(p)
       PROVE  Numbered
  <2>1. UNCHANGED <<nano_qos_db, packet_id>>
    BY <1>10 DEF SendConnack, TimerTest, TimerSkip, TimerKick, ClientRecv, Drop, PipeLost,
                 nano_pipe_start, CloseOld, db_vars
  <2> QED
    BY <1>1, <2>1
<1> QED
  BY <1>2, <1>3, <1>4, <1>5, <1>7, <1>8, <1>9, <1>10 DEF Next

\* No id above the counter is in use.
Below == \A i \in Pid : InUse(i) => i <= packet_id

LEMMA InitBelow == Init => Below
<1> SUFFICES ASSUME Init, NEW i \in Pid PROVE ~InUse(i)
  BY DEF Below
<1>1. \A p \in Pipe : /\ toClient[p] = <<>> /\ toBroker[p] = <<>> /\ rlmq[p] = <<>>
                      /\ rx[p] = Nothing /\ lk[p] = "free"
  BY DEF Init, All
<1>2. \A p \in Pipe, x \in Items : ~Carries(p, x)
  BY <1>1, OnFacts DEF Carries, Nothing, Packet
<1> QED
  BY <1>2 DEF Init, InUse

\* The counter does not come round in this step.
Onward == packet_id <= packet_id'

LEMMA OnwardUnused ==
    ASSUME PidMax > 1, Types, Below, Onward, Numbered
    PROVE  Unused
<1> SUFFICES ASSUME NEW i \in Pid, nano_qos_db'[i] \notin {None, nano_qos_db[i]} PROVE ~InUse(i)
  BY DEF Unused
<1>1. i = IncPacketid /\ packet_id' = IncPacketid
  BY DEF Numbered
<1>2. packet_id \in 0..PidMax /\ PidMax \in Nat
  BY SizesAssumption DEF Types, DbTypes
<1>3. packet_id # packet_id'
  BY <1>1, <1>2 DEF IncPacketid
<1>4. i > packet_id
  BY <1>1, <1>2, <1>3 DEF Onward, IncPacketid
<1> QED
  BY <1>2, <1>4 DEF Below, Pid

LEMMA BelowStep ==
    ASSUME Types, Types', Below, Onward, Numbered, Faithful
    PROVE  Below'
<1> SUFFICES ASSUME NEW i \in Pid, InUse(i)' PROVE i <= packet_id'
  BY DEF Below
<1>1. packet_id \in 0..PidMax /\ packet_id' \in 0..PidMax /\ i \in Nat /\ packet_id <= packet_id'
  BY DEF Types, DbTypes, Onward, Pid
<1>2. CASE InUse(i) \/ i = packet_id'
  BY <1>1, <1>2 DEF Below
<1>3. ASSUME nano_qos_db'[i] # None PROVE InUse(i) \/ i = packet_id'
  BY <1>3 DEF Numbered, InUse
<1>4. ASSUME NEW p \in Pipe, NEW x \in Items, Carries(p, x)', x.pid = i
      PROVE  InUse(i) \/ i = packet_id'
  <2>1. Carries(p, x) \/ Granted(x)
    BY <1>4 DEF Faithful
  <2> QED
    BY <1>4, <2>1 DEF Granted, InUse
<1> QED
  BY <1>2, <1>3, <1>4 DEF InUse

LEMMA StepOnward ==
    ASSUME PidMax > 1
    PROVE  StoreInv /\ Below /\ [Next]_vars /\ [Onward]_vars => StoreInv' /\ Below'
<1> SUFFICES ASSUME StoreInv, Below, [Next]_vars, [Onward]_vars PROVE StoreInv' /\ Below'
  OBVIOUS
<1>1. Inv /\ Meaning /\ Reset /\ Types
  BY DEF StoreInv, Inv
<1>2. Inv' /\ Types'
  BY <1>1, StepInv DEF Inv
<1>3. Numbered
  BY <1>1, StepNumbered
<1>4. Onward
  <2>1. packet_id \in 0..PidMax
    BY <1>1 DEF Types, DbTypes
  <2> QED
    BY <2>1 DEF Onward, vars, db_vars
<1>5. Unused
  BY <1>1, <1>3, <1>4, OnwardUnused
<1>6. StoreInv'
  BY <1>5, StepStore
<1>7. Faithful
  BY <1>1, <1>5, StepFaithful
<1> QED
  BY <1>1, <1>2, <1>3, <1>4, <1>6, <1>7, BelowStep

\* Until the packet id counter comes round, whatever connections break, whatever is
\* repeated and whenever the session moves, a PUBLISH has the id of its own message
\* and no stored message is lost.  Nothing is assumed of the store or of how many
\* messages there are: the counter of nni_pipe_inc_packetid alone keeps ids apart.
THEOREM FirstRoundHolds ==
    ASSUME PidMax > 1
    PROVE  Spec /\ [][Onward]_vars => [](PidMeansMessage /\ AtLeastOnce)
<1>1. StoreInv => PidMeansMessage /\ AtLeastOnce
  BY StoreMeans DEF StoreInv
<1>2. Spec /\ [][Onward]_vars => [](StoreInv /\ Below)
  BY InitStore, InitBelow, StepOnward, PTL DEF Spec
<1> QED
  BY <1>1, <1>2, PTL

=============================================================================
