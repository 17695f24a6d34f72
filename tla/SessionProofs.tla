---------------------------- MODULE SessionProofs ----------------------------
(***************************************************************************)
(* Proofs about the pipes of an MQTT client: for any number of connections *)
(* nothing refers to a pipe that the reaper has freed, a pipe is reaped    *)
(* once, the session that is kept is intact, and the end of a pipe is told *)
(* once and never for a session that goes on.                              *)
(*                                                                         *)
(* The invariant has three layers: what a thread has in hand (Locals) and  *)
(* the counts that follow from it (Mutex, Refs); who may close a pipe      *)
(* (Tokens); and what is known of each pipe by itself (PipeInv).  A step   *)
(* of a thread touches one pipe, or two if it takes a session over, so it  *)
(* is enough to look at those (StepFrame).                                 *)
(***************************************************************************)
EXTENDS Session, TLAPS

Acc(p) == <<"acc", p>>
Tmr(p) == <<"tmr", p>>
Rcv(p) == <<"rcv", p>>
One(b) == IF b THEN 1 ELSE 0

-----------------------------------------------------------------------------
(* Where the threads are, and what they have in hand.                      *)

AccPlaces == ClosePlaces \union
    {"none", "kick", "rele", "init", "added", "start", "recv", "pass", "started", "refuse",
     "drop", "done"}
TmrPlaces == ClosePlaces \union {"idle", "kept?", "session", "alive"}
RcvPlaces == ClosePlaces \union {"idle", "recv", "pass", "passlast"}

\* A thread at a place closes its own pipe, or the older one that it kicks out
\* and has a reference to.
Local(t, place, pipe, back, older) ==
    /\ t[1] = "acc" => place \in AccPlaces
    /\ t[1] = "tmr" => place \in TmrPlaces
    /\ t[1] = "rcv" => place \in RcvPlaces
    /\ pipe # None <=> place \in ClosePlaces
    /\ t[1] # "acc" => back = "idle"
    /\ place \in ClosePlaces => pipe = IF t[1] = "acc" /\ back = "rele" THEN older ELSE Owner(t)
    /\ t[1] = "acc" /\ place \in ClosePlaces => back \in {"rele", "drop"}
    /\ t[1] = "acc" /\ place \in {"recv", "pass"} => back \in {"refuse", "started"}
    /\ t[1] = "acc" => (older # None <=> place \in {"kick", "rele"}
                                         \/ (place \in ClosePlaces /\ back = "rele"))
Locals == \A t \in Thread : Local(t, pc[t], tgt[t], ret[t], held[Owner(t)])

\* An accepting thread that kicks an older pipe out; that holds s_mx; that holds
\* a reference to its own pipe.
Kicking(t) == pc[t] \in {"kick", "rele"} \/ (pc[t] \in ClosePlaces /\ ret[t] = "rele")
Creating(t) == pc[t] = "init" \/ Kicking(t)
Alive(t) == pc[t] \notin {"none", "done"}

\* The lock of the socket serialises the kicks, so that p_ref is exact.
Mutex == \A p \in Pipe : s_mx = p <=> Creating(Acc(p))
HeldNow == IF s_mx = None THEN None ELSE held[s_mx]
Refs == \A p \in Pipe : p_ref[p] = One(Alive(Acc(p))) + One(HeldNow = p)

-----------------------------------------------------------------------------
(* Who closes a pipe.                                                      *)

\* Whoever swaps p_closed has the pipe to himself until he keeps it or hands it
\* to the reaper.
TokenPlaces == {"cached?", "reopen", "close", "gone"}
Tokens == \A t \in Thread : pc[t] \in TokenPlaces =>
    /\ p_closed[tgt[t]] /\ tgt[t] \notin reaping /\ victim # tgt[t]
    /\ \A u \in Thread : pc[u] \in TokenPlaces /\ tgt[u] = tgt[t] => u = t
    /\ pc[t] \in {"close", "gone"} => ~cache[tgt[t]]
    /\ pc[t] = "gone" => s_pipes # tgt[t]

-----------------------------------------------------------------------------
(* What is known of a pipe.                                                *)

Quieted(p) == timer[p] = "off" /\ pc[Tmr(p)] = "idle" /\ pc[Rcv(p)] = "idle"

\* Not accepted yet, or not entered in the lists: nobody else knows of it.
Fresh(p) == pc[Acc(p)] = "none" \/ Creating(Acc(p))
YoungP(p) == Fresh(p) =>
    /\ Quieted(p) /\ recv[p] = "off"
    /\ ~p_closed[p] /\ ~cache[p] /\ ~freed[p] /\ ~closed[p]
    /\ p \notin reaping /\ victim # p /\ s_pipes # p /\ cached_sessions # p
    /\ p \notin taken /\ notified[p] = 0 /\ HeldNow # p
    /\ pc[Acc(p)] = "none" => pipes # p

\* With the reaper: closed for good.
ListedP(p) == p \in reaping \/ victim = p =>
    p_closed[p] /\ ~cache[p] /\ s_pipes # p /\ (p \in reaping => victim # p)

\* What close_pipe has done stays with the reaper.
Leaving(p) == \E t \in Thread : pc[t] = "gone" /\ tgt[t] = p
EndedP(p) == closed[p] \/ notified[p] # 0 => p \in reaping \/ victim = p \/ Leaving(p)

\* Freed: no reference is left, and none can be made.
GoneP(p) == freed[p] =>
    /\ p_ref[p] = 0 /\ Quieted(p) /\ recv[p] = "off" /\ ~cache[p]
    /\ p \notin reaping /\ victim # p /\ pipes # p /\ s_pipes # p

\* Kept as the session: at most once, because keeping it sets clean_start.
KeptP(p) ==
    /\ cached_sessions = p => cache[p] /\ ~event[p] /\ p \notin taken
    /\ cache[p] \/ p \in taken => clean_start[p] = 1
    /\ p \in taken => ~event[p] /\ notified[p] = 0
    /\ notified[p] <= 1

PipeInv(p) == YoungP(p) /\ ListedP(p) /\ EndedP(p) /\ GoneP(p) /\ KeptP(p)

\* The pipe the reaper is at.
Reaper ==
    /\ rpc = "idle" <=> victim = None
    /\ victim # None =>
         /\ pipes # victim
         /\ rpc \in {"stop", "wait", "fini"} => p_ref[victim] = 0
         /\ rpc \in {"wait", "fini"} => tstop[victim] /\ rstop[victim]
         /\ rpc = "fini" => Quieted(victim) /\ recv[victim] \in {"off", "parked"}

-----------------------------------------------------------------------------
(* Types, in parts.                                                        *)

ThrTypes ==
    /\ pc \in [Thread -> Places] /\ ret \in [Thread -> Places]
    /\ tgt \in [Thread -> Pipe \union {None}] /\ held \in [Pipe -> Pipe \union {None}]
MapTypes ==
    /\ pipes \in Pipe \union {None} /\ s_pipes \in Pipe \union {None}
    /\ cached_sessions \in Pipe \union {None} /\ s_mx \in Pipe \union {None}
    /\ victim \in Pipe \union {None} /\ reaping \subseteq Pipe /\ taken \subseteq Pipe
    /\ rpc \in {"idle", "drain", "stop", "wait", "fini"}
PipeTypes ==
    /\ p_closed \in [Pipe -> BOOLEAN] /\ cache \in [Pipe -> BOOLEAN]
    /\ freed \in [Pipe -> BOOLEAN] /\ event \in [Pipe -> BOOLEAN]
    /\ closed \in [Pipe -> BOOLEAN] /\ clean_start \in [Pipe -> {0, 1}]
    /\ notified \in [Pipe -> Nat] /\ p_ref \in [Pipe -> Nat]
AioTypes ==
    /\ timer \in [Pipe -> {"off", "armed", "due", "kicked", "stopped"}]
    /\ recv \in [Pipe -> {"off", "pending", "failed", "parked"}]
    /\ tstop \in [Pipe -> BOOLEAN] /\ rstop \in [Pipe -> BOOLEAN] /\ conn \in [Pipe -> BOOLEAN]
Types == ThrTypes /\ MapTypes /\ PipeTypes /\ AioTypes

LEMMA TypesOK == TypeOK <=> Types
BY DEF TypeOK, Types, ThrTypes, MapTypes, PipeTypes, AioTypes

\* The inductive invariant.
Inv == /\ Types /\ Locals /\ Mutex /\ Refs /\ Tokens /\ Reaper
       /\ \A p \in Pipe : PipeInv(p)

-----------------------------------------------------------------------------
(* The threads of a pipe.                                                  *)

LEMMA ThreadFacts ==
    /\ \A p \in Pipe : /\ Acc(p) \in Thread /\ Tmr(p) \in Thread /\ Rcv(p) \in Thread
                       /\ Owner(Acc(p)) = p /\ Owner(Tmr(p)) = p /\ Owner(Rcv(p)) = p
                       /\ Acc(p)[1] = "acc" /\ Tmr(p)[1] = "tmr" /\ Rcv(p)[1] = "rcv"
    /\ \A t \in Thread : /\ Owner(t) \in Pipe /\ t[1] \in {"acc", "tmr", "rcv"}
                         /\ t[1] = "acc" => t = Acc(Owner(t))
                         /\ t[1] = "tmr" => t = Tmr(Owner(t))
                         /\ t[1] = "rcv" => t = Rcv(Owner(t))
BY DEF Thread, Owner, Acc, Tmr, Rcv

LEMMA NoneIsNoPipe == None \notin Pipe
BY PipesAssumption DEF None, Pipe

\* A step of one thread, as far as the threads are concerned.
Only(t) ==
    /\ ThrTypes'
    /\ \A u \in Thread : u # t => pc'[u] = pc[u] /\ tgt'[u] = tgt[u] /\ ret'[u] = ret[u]
    /\ \A p \in Pipe : t[1] # "acc" \/ p # Owner(t) => held'[p] = held[p]
At(t, place, pipe, back) ==
    Only(t) /\ pc'[t] = place /\ tgt'[t] = pipe /\ ret'[t] = back /\ held' = held

LEMMA GotoAt ==
    ASSUME ThrTypes, NEW t \in Thread, NEW place \in Places, Goto(t, place)
    PROVE  At(t, place, tgt[t], ret[t])
BY DEF ThrTypes, Goto, Set, At, Only

LEMMA CloseAt ==
    ASSUME ThrTypes, NEW t \in Thread, NEW p \in Pipe, NEW back \in Places, Close(t, p, back)
    PROVE  At(t, "swap", p, back)
<1>1. "swap" \in Places
  BY DEF Places, ClosePlaces
<1> QED
  BY <1>1 DEF ThrTypes, Close, Set, At, Only

LEMMA ReturnAt ==
    ASSUME ThrTypes, NEW t \in Thread, Return(t)
    PROVE  At(t, ret[t], None, "idle")
<1>1. "idle" \in Places
  BY DEF Places
<1> QED
  BY <1>1 DEF ThrTypes, Return, Set, At, Only

LEMMA LocalsAt ==
    ASSUME Locals, NEW t \in Thread, Only(t),
           Local(t, pc'[t], tgt'[t], ret'[t], held'[Owner(t)])
    PROVE  Locals'
<1>1. ASSUME NEW u \in Thread, u # t
      PROVE  Local(u, pc[u], tgt[u], ret[u], held[Owner(u)])
             /\ (u[1] = "acc" => held'[Owner(u)] = held[Owner(u)])
  BY <1>1, ThreadFacts DEF Locals, Only
<1>2. ASSUME NEW u \in Thread
      PROVE  Local(u, pc'[u], tgt'[u], ret'[u], held'[Owner(u)])
  BY <1>1 DEF Only, Local
<1> QED
  BY <1>2 DEF Locals

\* The accepting threads that hold the lock, the older pipe and their own pipe.
LEMMA LockHolder ==
    ASSUME Inv, NEW p \in Pipe
    PROVE  /\ Kicking(Acc(p)) => s_mx = p /\ HeldNow = held[p] /\ held[p] \in Pipe
           /\ HeldNow = p => p_ref[p] >= 1
           /\ Alive(Acc(p)) => p_ref[p] >= 1
           /\ Creating(Acc(p)) => Alive(Acc(p))
<1>1. Kicking(Acc(p)) => s_mx = p
  BY DEF Inv, Mutex, Creating
<1>2. Kicking(Acc(p)) => held[p] \in Pipe
  BY ThreadFacts DEF Inv, Locals, Local, Kicking, Types, ThrTypes
<1>3. Kicking(Acc(p)) => HeldNow = held[p]
  BY <1>1, NoneIsNoPipe DEF HeldNow
<1>4. p_ref[p] = One(Alive(Acc(p))) + One(HeldNow = p)
  BY DEF Inv, Refs
<1>5. HeldNow = p => p_ref[p] >= 1
  BY <1>4 DEF One
<1>6. Alive(Acc(p)) => p_ref[p] >= 1
  BY <1>4 DEF One
<1>7. Creating(Acc(p)) => Alive(Acc(p))
  BY DEF Creating, Kicking, Alive, ClosePlaces
<1> QED
  BY <1>1, <1>2, <1>3, <1>5, <1>6, <1>7

\* A pipe that a step may touch: known to somebody, and not past the reaper.
Touchable(p) == ~Fresh(p) /\ ~freed[p] /\ (victim = p => rpc # "fini")

LEMMA ReferenceTouches ==
    ASSUME Inv, NEW p \in Pipe, p_ref[p] >= 1, ~Fresh(p)
    PROVE  Touchable(p)
<1>1. ~freed[p]
  BY DEF Inv, PipeInv, GoneP
<1>2. victim = p => rpc # "fini"
  BY NoneIsNoPipe DEF Inv, Reaper
<1> QED
  BY <1>1, <1>2 DEF Touchable

\* The owner of a thread that is under way, and the pipe it closes.
LEMMA OwnerTouches ==
    ASSUME Inv, NEW t \in Thread, pc[t] \notin {"none", "done", "idle"}, ~Creating(t)
    PROVE  Touchable(Owner(t))
<1> DEFINE p == Owner(t)
<1>1. p \in Pipe /\ t[1] \in {"acc", "tmr", "rcv"}
  BY ThreadFacts
<1>2. CASE t[1] = "acc"
  <2>1. t = Acc(p)
    BY <1>2, ThreadFacts
  <2>2. ~Fresh(p) /\ Alive(Acc(p))
    BY <2>1 DEF Fresh, Alive
  <2> QED
    BY <1>1, <2>2, LockHolder, ReferenceTouches
<1>3. CASE t[1] # "acc"
  <2>1. t = Tmr(p) \/ t = Rcv(p)
    BY <1>1, <1>3, ThreadFacts
  <2>2. ~Quieted(p)
    BY <2>1 DEF Quieted
  <2> QED
    BY <1>1, <2>2, NoneIsNoPipe DEF Touchable, Inv, PipeInv, YoungP, GoneP, Reaper
<1> QED
  BY <1>2, <1>3

LEMMA TargetTouches ==
    ASSUME Inv, NEW t \in Thread, pc[t] \in ClosePlaces
    PROVE  tgt[t] \in Pipe /\ Touchable(tgt[t])
<1>1. Local(t, pc[t], tgt[t], ret[t], held[Owner(t)]) /\ Owner(t) \in Pipe
  BY ThreadFacts DEF Inv, Locals
<1>2. tgt[t] \in Pipe
  BY <1>1 DEF Inv, Types, ThrTypes, Local
<1>3. pc[t] \notin {"none", "done", "idle", "init", "kick", "rele"}
  BY DEF ClosePlaces
<1>4. CASE t[1] = "acc" /\ ret[t] = "rele"
  <2> DEFINE q == Owner(t)
  <2>1. tgt[t] = held[q] /\ t = Acc(q) /\ Kicking(t)
    BY <1>1, <1>4, ThreadFacts DEF Local, Kicking
  <2>2. HeldNow = tgt[t]
    BY <1>1, <2>1, LockHolder
  <2>3. p_ref[tgt[t]] >= 1
    BY <1>2, <2>2, LockHolder
  <2>4. ~Fresh(tgt[t])
    BY <1>2, <2>2 DEF Inv, PipeInv, YoungP
  <2> QED
    BY <1>2, <2>3, <2>4, ReferenceTouches
<1>5. CASE ~(t[1] = "acc" /\ ret[t] = "rele")
  <2>1. tgt[t] = Owner(t)
    BY <1>1, <1>5 DEF Local
  <2>2. ~Creating(t)
    BY <1>1, <1>3, <1>5 DEF Creating, Kicking, Local
  <2> QED
    BY <1>2, <1>3, <2>1, <2>2, OwnerTouches
<1> QED
  BY <1>4, <1>5

-----------------------------------------------------------------------------
(* Steps that touch few pipes.                                             *)

\* Nothing about the pipe changes but its handles; nothing at all.
SameCore(p) ==
    /\ p_closed'[p] = p_closed[p] /\ cache'[p] = cache[p] /\ closed'[p] = closed[p]
    /\ event'[p] = event[p] /\ clean_start'[p] = clean_start[p] /\ notified'[p] = notified[p]
    /\ (p \in reaping' <=> p \in reaping) /\ (p \in taken' <=> p \in taken)
    /\ (s_pipes' = p <=> s_pipes = p) /\ (cached_sessions' = p <=> cached_sessions = p)
SameHandles(p) ==
    timer'[p] = timer[p] /\ recv'[p] = recv[p] /\ tstop'[p] = tstop[p] /\ rstop'[p] = rstop[p]

\* The accepting thread stays on its side of the lock and of its reference.
Steady(t) ==
    /\ Creating(t)' <=> Creating(t)
    /\ Alive(t)' <=> Alive(t)
    /\ pc'[t] = "none" <=> pc[t] = "none"

\* Thread t takes a step and touches the pipes X.
Step(t, X) ==
    /\ Only(t) /\ held' = held /\ X \subseteq Pipe /\ \A x \in X : Touchable(x)
    /\ t[1] = "acc" => Steady(t)
    /\ t[1] # "acc" => Owner(t) \in X
    /\ tgt[t] \in X \union {None} /\ tgt'[t] \in X \union {None}
    /\ UNCHANGED <<s_mx, p_ref, victim, rpc, freed, pipes>>
    /\ \A p \in Pipe \ X : SameCore(p) /\ SameHandles(p)
    /\ \A x \in X : (tstop[x] => tstop'[x]) /\ (rstop[x] => rstop'[x])

LEMMA StepPlaces ==
    ASSUME Inv, NEW t \in Thread, NEW X, Step(t, X), NEW p \in Pipe
    PROVE  /\ Creating(Acc(p))' <=> Creating(Acc(p))
           /\ Alive(Acc(p))' <=> Alive(Acc(p))
           /\ pc'[Acc(p)] = "none" <=> pc[Acc(p)] = "none"
           /\ p \notin X => pc'[Tmr(p)] = pc[Tmr(p)] /\ pc'[Rcv(p)] = pc[Rcv(p)]
           /\ p \notin X => (Leaving(p)' <=> Leaving(p))
<1>1. CASE Acc(p) = t
  <2>1. t[1] = "acc"
    BY <1>1, ThreadFacts
  <2> QED
    BY <1>1, <2>1, ThreadFacts, NoneIsNoPipe DEF Step, Steady, Only, Leaving
<1>2. CASE Acc(p) # t
  <2>1. pc'[Acc(p)] = pc[Acc(p)] /\ ret'[Acc(p)] = ret[Acc(p)]
    BY <1>2, ThreadFacts DEF Step, Only
  <2>2. p \notin X => Tmr(p) # t /\ Rcv(p) # t
    BY ThreadFacts DEF Step
  <2>3. p \notin X => pc'[Tmr(p)] = pc[Tmr(p)] /\ pc'[Rcv(p)] = pc[Rcv(p)]
    BY <2>2, ThreadFacts DEF Step, Only
  <2>4. p \notin X => (Leaving(p)' <=> Leaving(p))
    BY NoneIsNoPipe DEF Step, Only, Leaving
  <2> QED
    BY <2>1, <2>3, <2>4 DEF Creating, Kicking, Alive
<1> QED
  BY <1>1, <1>2

LEMMA StepFrame ==
    ASSUME Inv, NEW t \in Thread, NEW X, Step(t, X)
    PROVE  /\ Mutex' /\ Refs' /\ Reaper'
           /\ \A p \in Pipe : YoungP(p)' /\ GoneP(p)'
           /\ \A p \in Pipe \ X : PipeInv(p)'
<1> USE StepPlaces
<1>1. HeldNow' = HeldNow
  BY DEF Step, HeldNow
<1>2. Mutex'
  BY DEF Step, Inv, Mutex
<1>3. Refs'
  BY <1>1 DEF Step, Inv, Refs, One
<1>4. ASSUME NEW p \in Pipe
      PROVE  YoungP(p)' /\ GoneP(p)'
  <2>1. CASE p \in X
    <3>1. ~Fresh(p) /\ ~freed[p]
      BY <2>1 DEF Step, Touchable
    <3>2. ~Fresh(p)' /\ ~freed'[p]
      BY <3>1 DEF Step, Fresh
    <3> QED
      BY <3>2 DEF YoungP, GoneP
  <2>2. CASE p \notin X
    <3>1. SameCore(p) /\ SameHandles(p)
      BY <2>2 DEF Step
    <3>2. YoungP(p) /\ GoneP(p)
      BY DEF Inv, PipeInv
    <3>3. /\ Fresh(p)' <=> Fresh(p)
          /\ Quieted(p)' <=> Quieted(p)
          /\ UNCHANGED <<victim, pipes, p_ref>> /\ freed' = freed
      BY <2>2, <3>1 DEF Fresh, Quieted, SameHandles, Step
    <3>4. YoungP(p)'
      BY <1>1, <3>1, <3>2, <3>3 DEF YoungP, SameCore, SameHandles
    <3>5. GoneP(p)'
      BY <3>1, <3>2, <3>3 DEF GoneP, SameCore, SameHandles
    <3> QED
      BY <3>4, <3>5
  <2> QED
    BY <2>1, <2>2
<1>5. ASSUME NEW p \in Pipe \ X
      PROVE  PipeInv(p)'
  <2>1. SameCore(p)
    BY DEF Step
  <2>2. ListedP(p) /\ EndedP(p) /\ KeptP(p)
    BY DEF Inv, PipeInv
  <2>3. ListedP(p)' /\ EndedP(p)' /\ KeptP(p)'
    BY <2>1, <2>2 DEF ListedP, EndedP, KeptP, SameCore, Step
  <2> QED
    BY <1>4, <2>3 DEF PipeInv
<1>6. Reaper'
  <2>1. Reaper /\ victim \in Pipe \union {None}
    BY DEF Inv, Types, MapTypes
  <2>2. CASE victim \in X
    BY <2>1, <2>2 DEF Step, Reaper, Touchable
  <2>3. CASE victim \in Pipe \ X
    <3>1. SameHandles(victim) /\ (Quieted(victim) => Quieted(victim)')
      BY <2>3 DEF Step, SameHandles, Quieted
    <3> QED
      BY <2>1, <2>3, <3>1 DEF Step, Reaper, SameHandles
  <2>4. CASE victim = None
    BY <2>1, <2>4 DEF Step, Reaper
  <2> QED
    BY <2>1, <2>2, <2>3, <2>4
<1> QED
  BY <1>2, <1>3, <1>4, <1>5, <1>6

\* No token is made: the others' tokens stay good.
LEMMA TokensKept ==
    ASSUME Inv, NEW t \in Thread, Only(t), pc'[t] \notin TokenPlaces, victim' = victim,
           \A p \in Pipe : (\E u \in Thread : u # t /\ pc[u] \in TokenPlaces /\ tgt[u] = p) =>
               /\ p_closed'[p] /\ p \notin reaping'
               /\ (cache'[p] => cache[p]) /\ (s_pipes' = p => s_pipes = p)
    PROVE  Tokens'
<1> SUFFICES ASSUME NEW u \in Thread, pc'[u] \in TokenPlaces
             PROVE  /\ p_closed'[tgt'[u]] /\ tgt'[u] \notin reaping' /\ victim' # tgt'[u]
                    /\ \A v \in Thread : pc'[v] \in TokenPlaces /\ tgt'[v] = tgt'[u] => v = u
                    /\ pc'[u] \in {"close", "gone"} => ~cache'[tgt'[u]]
                    /\ pc'[u] = "gone" => s_pipes' # tgt'[u]
  BY DEF Tokens
<1>1. u # t /\ pc'[u] = pc[u] /\ tgt'[u] = tgt[u]
  BY DEF Only
<1>2. tgt[u] \in Pipe
  BY <1>1, TargetTouches DEF TokenPlaces, ClosePlaces
<1>3. \A v \in Thread : pc'[v] \in TokenPlaces => v # t /\ pc'[v] = pc[v] /\ tgt'[v] = tgt[v]
  BY DEF Only
<1> QED
  BY <1>1, <1>2, <1>3 DEF Inv, Tokens

\* A step that moves a thread and the handles of one pipe.
LEMMA QuietStep ==
    ASSUME Inv, NEW t \in Thread, NEW x \in Pipe, Step(t, {x}), AioTypes',
           Local(t, pc'[t], tgt'[t], ret'[t], held'[Owner(t)]),
           pc[t] # "gone", pc'[t] \notin TokenPlaces,
           UNCHANGED <<map_vars, core_vars, reap_vars, s_mx, nano_vars, hist_vars>>
    PROVE  Inv'
<1> USE DEF map_vars, core_vars, reap_vars, nano_vars, hist_vars
<1>1. Types'
  BY DEF Step, Only, Inv, Types, MapTypes, PipeTypes
<1>2. Locals'
  BY LocalsAt DEF Inv, Step
<1>3. Tokens'
  <2>1. Only(t)
    BY DEF Step
  <2>2. \A p \in Pipe : (\E u \in Thread : u # t /\ pc[u] \in TokenPlaces /\ tgt[u] = p) =>
               p_closed[p] /\ p \notin reaping
    BY DEF Inv, Tokens
  <2> QED
    BY <2>1, <2>2, TokensKept
<1>4. Leaving(x)' <=> Leaving(x)
  BY DEF Leaving, Step, Only, TokenPlaces
<1>5. ListedP(x)' /\ EndedP(x)' /\ KeptP(x)'
  BY <1>4 DEF Inv, PipeInv, ListedP, EndedP, KeptP
<1>6. /\ Mutex' /\ Refs' /\ Reaper'
      /\ \A p \in Pipe : YoungP(p)' /\ GoneP(p)'
      /\ \A p \in Pipe \ {x} : PipeInv(p)'
  BY StepFrame
<1>7. \A p \in Pipe : PipeInv(p)'
  BY <1>5, <1>6 DEF PipeInv
<1> QED
  BY <1>1, <1>2, <1>3, <1>6, <1>7 DEF Inv

-----------------------------------------------------------------------------
(* Steps that move a thread, and change no more than the handles of the    *)
(* pipe it is at.                                                          *)

\* Whether an accepting thread at a place holds the lock of the socket.
Locked(place, back) ==
    place \in {"init", "kick", "rele"} \/ (place \in ClosePlaces /\ back = "rele")

\* The accepting thread stays on its side of the lock and of its reference.
Stays(t, place, back) ==
    /\ pc[t] \notin {"none", "done"} /\ place \notin {"none", "done"}
    /\ Locked(place, back) <=> Locked(pc[t], ret[t])

LEMMA StaysSteady ==
    ASSUME NEW t \in Thread, NEW place, NEW pipe, NEW back, At(t, place, pipe, back),
           Stays(t, place, back)
    PROVE  Steady(t)
BY DEF At, Stays, Steady, Locked, Creating, Kicking, Alive

LEMMA MoveStep ==
    ASSUME NEW t \in Thread, NEW X, X \subseteq Pipe, \A x \in X : Touchable(x),
           NEW place, NEW pipe, NEW back, At(t, place, pipe, back),
           {tgt[t], pipe} \subseteq X \union {None},
           t[1] # "acc" => Owner(t) \in X, t[1] = "acc" => Stays(t, place, back),
           UNCHANGED <<s_mx, p_ref, victim, rpc, freed, pipes>>,
           \A p \in Pipe \ X : SameCore(p) /\ SameHandles(p),
           \A x \in X : (tstop[x] => tstop'[x]) /\ (rstop[x] => rstop'[x])
    PROVE  Step(t, X)
<1>1. t[1] = "acc" => Steady(t)
  BY StaysSteady
<1>2. Only(t) /\ held' = held /\ tgt'[t] = pipe
  BY DEF At
<1> QED
  BY <1>1, <1>2 DEF Step

LEMMA QuietMove ==
    ASSUME Inv, NEW t \in Thread, NEW x \in Pipe, Touchable(x),
           NEW place, NEW pipe, NEW back, At(t, place, pipe, back),
           Local(t, place, pipe, back, held[Owner(t)]),
           pc[t] # "gone", place \notin TokenPlaces, {tgt[t], pipe} \subseteq {x, None},
           t[1] # "acc" => Owner(t) = x, t[1] = "acc" => Stays(t, place, back),
           AioTypes', \A p \in Pipe \ {x} : SameHandles(p), UNCHANGED <<tstop, rstop>>,
           UNCHANGED <<map_vars, core_vars, reap_vars, s_mx, nano_vars, hist_vars>>
    PROVE  Inv'
<1>1. \A p \in Pipe : SameCore(p)
  BY DEF SameCore, map_vars, core_vars, reap_vars, nano_vars, hist_vars
<1>2. Step(t, {x})
  <2>1. UNCHANGED <<s_mx, p_ref, victim, rpc, freed, pipes>>
    BY DEF map_vars, core_vars, reap_vars
  <2>2. {x} \subseteq Pipe /\ (\A y \in {x} : Touchable(y)) /\ {tgt[t], pipe} \subseteq {x} \union {None}
    OBVIOUS
  <2>3. \A p \in Pipe \ {x} : SameCore(p) /\ SameHandles(p)
    BY <1>1
  <2>4. (t[1] # "acc" => Owner(t) \in {x})
        /\ \A y \in {x} : (tstop[y] => tstop'[y]) /\ (rstop[y] => rstop'[y])
    OBVIOUS
  <2> QED
    BY <2>1, <2>2, <2>3, <2>4, MoveStep
<1>3. Local(t, pc'[t], tgt'[t], ret'[t], held'[Owner(t)]) /\ pc'[t] \notin TokenPlaces
  BY DEF At
<1> QED
  BY <1>2, <1>3, QuietStep

\* Only the handles of x change, and they keep their types.
HandleStep(x) ==
    /\ AioTypes' /\ (\A p \in Pipe \ {x} : SameHandles(p)) /\ UNCHANGED <<tstop, rstop>>

LEMMA NoHandleStep ==
    ASSUME AioTypes, UNCHANGED aio_vars, NEW x \in Pipe
    PROVE  HandleStep(x)
BY DEF HandleStep, AioTypes, aio_vars, SameHandles

LEMMA TimerStep ==
    ASSUME AioTypes, NEW x \in Pipe, NEW s \in {"off", "armed", "due", "kicked", "stopped"},
           timer' = Set(timer, x, s), UNCHANGED <<recv, tstop, rstop, conn>>
    PROVE  HandleStep(x)
BY DEF HandleStep, AioTypes, SameHandles, Set

LEMMA RecvStep ==
    ASSUME AioTypes, NEW x \in Pipe, NEW s \in {"off", "pending", "failed", "parked"},
           recv' = Set(recv, x, s), conn' \in [Pipe -> BOOLEAN], UNCHANGED <<timer, tstop, rstop>>
    PROVE  HandleStep(x)
BY DEF HandleStep, AioTypes, SameHandles, Set

LEMMA HandleResults ==
    ASSUME AioTypes, NEW p \in Pipe
    PROVE  /\ {Sleeping(p), Aborted(p), Stopped(p)} \subseteq {"off", "armed", "due", "kicked", "stopped"}
           /\ {Receiving(p), RecvFailed(p), Unparked(p)} \subseteq {"off", "pending", "failed", "parked"}
BY DEF AioTypes, Sleeping, Aborted, Stopped, Receiving, RecvFailed, Unparked

\* A thread that is at work on its own pipe, and not closing it.
OwnPlaces == {"added", "start", "recv", "pass", "passlast", "started", "refuse", "drop",
              "kept?", "session", "alive"}

LEMMA OwnPlace ==
    ASSUME Inv, NEW t \in Thread, pc[t] \in OwnPlaces
    PROVE  /\ Owner(t) \in Pipe /\ Touchable(Owner(t)) /\ tgt[t] = None
           /\ t[1] = "acc" => held[Owner(t)] = None /\ ~Locked(pc[t], ret[t])
           /\ Local(t, pc[t], tgt[t], ret[t], held[Owner(t)])
           /\ t[1] \in {"acc", "tmr", "rcv"} /\ pc[t] \notin {"gone", "none", "done"}
           /\ ThrTypes /\ AioTypes
<1>1. Local(t, pc[t], tgt[t], ret[t], held[Owner(t)])
  BY DEF Inv, Locals
<1>2. pc[t] \notin ClosePlaces /\ pc[t] \notin {"gone", "none", "done", "idle", "init", "kick", "rele"}
  BY DEF OwnPlaces, ClosePlaces
<1>3. ~Creating(t) /\ ~Locked(pc[t], ret[t])
  BY <1>2 DEF Creating, Kicking, Locked
<1>4. Touchable(Owner(t))
  BY <1>2, <1>3, OwnerTouches
<1>5. tgt[t] = None /\ (t[1] = "acc" => held[Owner(t)] = None)
  BY <1>1, <1>2 DEF Local
<1> QED
  BY <1>1, <1>2, <1>3, <1>4, <1>5, ThreadFacts DEF Inv, Types

\* It goes on to another such place, or starts to close its pipe.
LEMMA OwnGoto ==
    ASSUME Inv, NEW t \in Thread, pc[t] \in OwnPlaces, NEW place \in OwnPlaces \union {"idle"},
           Goto(t, place), HandleStep(Owner(t)),
           Local(t, place, None, ret[t], held[Owner(t)]),
           UNCHANGED <<map_vars, core_vars, reap_vars, s_mx, nano_vars, hist_vars>>
    PROVE  Inv'
<1> USE OwnPlace
<1>1. place \in Places /\ place \notin TokenPlaces \union {"none", "done", "init", "kick", "rele"}
      /\ place \notin ClosePlaces
  BY DEF OwnPlaces, Places, TokenPlaces, ClosePlaces
<1>2. At(t, place, None, ret[t])
  BY <1>1, GotoAt
<1>3. t[1] = "acc" => Stays(t, place, ret[t])
  BY <1>1 DEF Stays, Locked
<1> QED
  BY <1>1, <1>2, <1>3, QuietMove DEF HandleStep

LEMMA OwnReturn ==
    ASSUME Inv, NEW t \in Thread, pc[t] \in OwnPlaces, t[1] = "acc" => pc[t] \in {"recv", "pass"},
           Return(t), HandleStep(Owner(t)),
           UNCHANGED <<map_vars, core_vars, reap_vars, s_mx, nano_vars, hist_vars>>
    PROVE  Inv'
<1> USE OwnPlace
<1>1. At(t, ret[t], None, "idle")
  BY ReturnAt
<1>2. ret[t] \in {"refuse", "started", "idle"} /\ (t[1] = "acc" <=> ret[t] # "idle")
  BY DEF Local
<1>3. Local(t, ret[t], None, "idle", held[Owner(t)])
  BY <1>2 DEF Local, ClosePlaces, AccPlaces, TmrPlaces, RcvPlaces
<1>4. t[1] = "acc" => Stays(t, ret[t], "idle")
  BY <1>2 DEF Stays, Locked, ClosePlaces
<1>5. ret[t] \notin TokenPlaces
  BY <1>2 DEF TokenPlaces
<1> QED
  BY <1>1, <1>3, <1>4, <1>5, QuietMove DEF HandleStep

LEMMA OwnClose ==
    ASSUME Inv, NEW t \in Thread, pc[t] \in OwnPlaces,
           NEW back \in {"drop", "idle"}, t[1] = "acc" <=> back = "drop",
           Close(t, Owner(t), back), HandleStep(Owner(t)),
           UNCHANGED <<map_vars, core_vars, reap_vars, s_mx, nano_vars, hist_vars>>
    PROVE  Inv'
<1> USE OwnPlace
<1>1. back \in Places /\ "swap" \in ClosePlaces /\ "swap" \notin TokenPlaces
  BY DEF Places, ClosePlaces, TokenPlaces
<1>2. At(t, "swap", Owner(t), back)
  BY <1>1, CloseAt
<1>3. Local(t, "swap", Owner(t), back, held[Owner(t)])
  BY <1>1, NoneIsNoPipe DEF Local, AccPlaces, TmrPlaces, RcvPlaces
<1>4. t[1] = "acc" => Stays(t, "swap", back)
  BY <1>1 DEF Stays, Locked
<1> QED
  BY <1>1, <1>2, <1>3, <1>4, QuietMove DEF HandleStep

LEMMA AuthenticateInv ==
    ASSUME Inv, NEW t \in Thread, Authenticate(t)
    PROVE  Inv'
<1>1. pc[t] \in OwnPlaces /\ "start" \in OwnPlaces
  BY DEF Authenticate, OwnPlaces
<1>2. t[1] = "acc"
  BY <1>1, OwnPlace DEF Authenticate, Local, TmrPlaces, RcvPlaces, ClosePlaces
<1>3. HandleStep(Owner(t))
  BY <1>1, OwnPlace, NoHandleStep DEF Authenticate
<1>4. Local(t, "start", None, ret[t], held[Owner(t)])
  BY <1>1, <1>2, OwnPlace DEF Local, AccPlaces, ClosePlaces
<1> QED
  BY <1>1, <1>3, <1>4, OwnGoto DEF Authenticate

LEMMA RecvOpenInv ==
    ASSUME Inv, NEW t \in Thread, RecvOpen(t)
    PROVE  Inv'
<1>1. pc[t] \in OwnPlaces /\ "pass" \in OwnPlaces
  BY DEF RecvOpen, OwnPlaces
<1>2. t[1] # "tmr"
  BY <1>1, OwnPlace DEF RecvOpen, Local, TmrPlaces, ClosePlaces
<1>3. HandleStep(Owner(t))
  BY <1>1, OwnPlace, NoHandleStep DEF RecvOpen
<1>4. Local(t, "pass", None, ret[t], held[Owner(t)])
  BY <1>1, <1>2, OwnPlace DEF RecvOpen, Local, AccPlaces, RcvPlaces, ClosePlaces
<1> QED
  BY <1>1, <1>3, <1>4, OwnGoto DEF RecvOpen

LEMMA RecvReturnInv ==
    ASSUME Inv, NEW t \in Thread, RecvClosed(t) \/ RecvPass(t) \/ RecvPark(t)
    PROVE  Inv'
<1>1. pc[t] \in {"recv", "pass", "passlast"} /\ pc[t] \in OwnPlaces
  BY DEF RecvClosed, RecvPass, RecvPark, OwnPlaces
<1>2. t[1] = "acc" => pc[t] \in {"recv", "pass"}
  BY <1>1, OwnPlace DEF Local, AccPlaces, ClosePlaces
<1>3. HandleStep(Owner(t))
  <2> USE <1>1, OwnPlace, HandleResults
  <2>0. conn \in [Pipe -> BOOLEAN]
    BY DEF AioTypes
  <2>1. CASE RecvClosed(t)
    BY <2>1, NoHandleStep DEF RecvClosed
  <2>2. CASE RecvPass(t)
    BY <2>0, <2>2, RecvStep DEF RecvPass
  <2>3. CASE RecvPark(t)
    BY <2>0, <2>3, RecvStep DEF RecvPark
  <2> QED
    BY <2>1, <2>2, <2>3
<1>4. Return(t) /\ UNCHANGED <<map_vars, core_vars, reap_vars, s_mx, nano_vars, hist_vars>>
  BY DEF RecvClosed, RecvPass, RecvPark
<1> QED
  BY <1>1, <1>2, <1>3, <1>4, OwnReturn

LEMMA OwnCloseInv ==
    ASSUME Inv, NEW t \in Thread, RecvPassLast(t) \/ TimerSilent(t)
    PROVE  Inv'
<1>1. pc[t] \in {"passlast", "alive"} /\ pc[t] \in OwnPlaces
  BY DEF RecvPassLast, TimerSilent, OwnPlaces
<1>2. t[1] # "acc"
  BY <1>1, OwnPlace DEF Local, AccPlaces, ClosePlaces
<1>3. HandleStep(Owner(t))
  BY <1>1, OwnPlace, NoHandleStep DEF RecvPassLast, TimerSilent
<1> QED
  BY <1>1, <1>2, <1>3, OwnClose DEF RecvPassLast, TimerSilent

LEMMA TimerGotoInv ==
    ASSUME Inv, NEW t \in Thread,
           TimerCached(t) \/ TimerKeep(t) \/ TimerClosed(t) \/ TimerAlive(t)
    PROVE  Inv'
<1>1. pc[t] \in {"kept?", "session", "alive"} /\ pc[t] \in OwnPlaces
  BY DEF TimerCached, TimerKeep, TimerClosed, TimerAlive, OwnPlaces
<1>2. t[1] = "tmr"
  BY <1>1, OwnPlace DEF Local, AccPlaces, RcvPlaces, ClosePlaces
<1>3. HandleStep(Owner(t))
  <2> USE <1>1, OwnPlace, HandleResults
  <2>1. CASE TimerCached(t) \/ TimerClosed(t)
    BY <2>1, NoHandleStep DEF TimerCached, TimerClosed
  <2>2. CASE TimerKeep(t) \/ TimerAlive(t)
    BY <2>2, TimerStep DEF TimerKeep, TimerAlive, Sleep
  <2> QED
    BY <2>1, <2>2
<1>4. \E place \in {"session", "alive", "idle"} : Goto(t, place)
  BY DEF TimerCached, TimerKeep, TimerClosed, TimerAlive
<1>5. PICK place \in {"session", "alive", "idle"} : Goto(t, place)
  BY <1>4
<1>6. place \in OwnPlaces \union {"idle"} /\ Local(t, place, None, ret[t], held[Owner(t)])
  BY <1>1, <1>2, OwnPlace DEF OwnPlaces, Local, TmrPlaces, ClosePlaces
<1>7. UNCHANGED <<map_vars, core_vars, reap_vars, s_mx, nano_vars, hist_vars>>
  BY DEF TimerCached, TimerKeep, TimerClosed, TimerAlive
<1> QED
  BY <1>1, <1>3, <1>5, <1>6, <1>7, OwnGoto

LEMMA StartRefusedInv ==
    ASSUME Inv, NEW t \in Thread, StartRefused(t)
    PROVE  Inv'
<1>1. pc[t] \in OwnPlaces
  BY DEF StartRefused, OwnPlaces
<1> USE <1>1, OwnPlace
<1>2. t[1] = "acc"
  BY DEF StartRefused, Local, TmrPlaces, RcvPlaces, ClosePlaces
<1>3. HandleStep(Owner(t))
  BY NoHandleStep DEF StartRefused
<1>4. At(t, "recv", None, "refuse")
  BY DEF StartRefused, ThrTypes, Set, At, Only, Places
<1>5. Local(t, "recv", None, "refuse", held[Owner(t)])
  BY <1>2 DEF Local, AccPlaces, ClosePlaces
<1>6. Stays(t, "recv", "refuse") /\ "recv" \notin TokenPlaces
  BY <1>2 DEF Stays, Locked, ClosePlaces, TokenPlaces
<1> QED
  BY <1>2, <1>3, <1>4, <1>5, <1>6, QuietMove DEF HandleStep, StartRefused

\* The accepting thread turns to the older pipe.
LEMMA KickInv ==
    ASSUME Inv, NEW t \in Thread, Kick(t)
    PROVE  Inv'
<1> DEFINE p == Owner(t)
           old == held[p]
<1>1. Local(t, pc[t], tgt[t], ret[t], held[p]) /\ p \in Pipe /\ pc[t] = "kick"
  BY ThreadFacts DEF Inv, Locals, Kick
<1>2. t = Acc(p) /\ t[1] = "acc" /\ tgt[t] = None /\ Kicking(t)
  BY <1>1, ThreadFacts DEF Local, TmrPlaces, RcvPlaces, ClosePlaces, Kicking
<1>3. old \in Pipe /\ HeldNow = old
  BY <1>1, <1>2, LockHolder
<1>4. Touchable(old)
  <2>1. p_ref[old] >= 1
    BY <1>3, LockHolder
  <2>2. ~Fresh(old)
    BY <1>3 DEF Inv, PipeInv, YoungP
  <2> QED
    BY <1>3, <2>1, <2>2, ReferenceTouches
<1>5. ThrTypes /\ AioTypes /\ "rele" \in Places /\ "rele" \notin TokenPlaces
      /\ "swap" \in ClosePlaces /\ "swap" \notin TokenPlaces
      /\ "rele" \notin ClosePlaces
  BY DEF Inv, Types, Places, ClosePlaces, TokenPlaces
<1>6. HandleStep(old)
  BY <1>3, <1>5, NoHandleStep DEF Kick
<1>7. UNCHANGED <<map_vars, core_vars, reap_vars, s_mx, nano_vars, hist_vars>>
  BY DEF Kick
<1>8. CASE cache[old]
  <2>1. At(t, "rele", None, ret[t])
    BY <1>2, <1>5, <1>8, GotoAt DEF Kick
  <2>2. Local(t, "rele", None, ret[t], old) /\ Stays(t, "rele", ret[t])
    BY <1>1, <1>2, <1>3, <1>5, NoneIsNoPipe DEF Local, AccPlaces, Stays, Locked
  <2> QED
    BY <1>1, <1>2, <1>3, <1>4, <1>5, <1>6, <1>7, <2>1, <2>2, QuietMove DEF HandleStep
<1>9. CASE ~cache[old]
  <2>1. At(t, "swap", old, "rele")
    BY <1>3, <1>5, <1>9, CloseAt DEF Kick
  <2>2. Local(t, "swap", old, "rele", old) /\ Stays(t, "swap", "rele")
    BY <1>1, <1>2, <1>3, <1>5, NoneIsNoPipe DEF Local, AccPlaces, Stays, Locked
  <2> QED
    BY <1>1, <1>2, <1>3, <1>4, <1>5, <1>6, <1>7, <2>1, <2>2, QuietMove DEF HandleStep
<1> QED
  BY <1>8, <1>9

\* A thread that is closing a pipe: where it is, and where it goes on.
LEMMA ClosePlace ==
    ASSUME Inv, NEW t \in Thread, pc[t] \in ClosePlaces
    PROVE  /\ tgt[t] \in Pipe /\ Touchable(tgt[t]) /\ t[1] \in {"acc", "tmr", "rcv"}
           /\ t[1] # "acc" => tgt[t] = Owner(t) /\ ret[t] = "idle"
           /\ t[1] = "acc" => ret[t] \in {"rele", "drop"}
           /\ \A place \in ClosePlaces : Local(t, place, tgt[t], ret[t], held[Owner(t)])
                                         /\ (t[1] = "acc" => Stays(t, place, ret[t]))
           /\ Local(t, ret[t], None, "idle", held[Owner(t)])
           /\ t[1] = "acc" => Stays(t, ret[t], "idle")
           /\ ret[t] \notin TokenPlaces
           /\ ThrTypes /\ AioTypes
<1>1. Local(t, pc[t], tgt[t], ret[t], held[Owner(t)]) /\ t[1] \in {"acc", "tmr", "rcv"}
  BY ThreadFacts DEF Inv, Locals
<1>2. tgt[t] \in Pipe /\ Touchable(tgt[t])
  BY TargetTouches
<1>3. /\ t[1] # "acc" => tgt[t] = Owner(t) /\ ret[t] = "idle"
      /\ t[1] = "acc" => ret[t] \in {"rele", "drop"}
  BY <1>1 DEF Local
<1>4. \A place \in ClosePlaces : Local(t, place, tgt[t], ret[t], held[Owner(t)])
                                 /\ (t[1] = "acc" => Stays(t, place, ret[t]))
  <2> TAKE place \in ClosePlaces
  <2>1. /\ place \notin {"none", "done", "init", "kick", "rele", "recv", "pass"}
        /\ pc[t] \notin {"none", "done", "init", "kick", "rele"}
    BY DEF ClosePlaces
  <2>2. place \in AccPlaces /\ place \in TmrPlaces /\ place \in RcvPlaces
    BY DEF AccPlaces, TmrPlaces, RcvPlaces
  <2>3. Local(t, place, tgt[t], ret[t], held[Owner(t)])
    BY <1>1, <2>1, <2>2 DEF Local
  <2>4. Stays(t, place, ret[t])
    BY <2>1 DEF Stays, Locked
  <2> QED
    BY <2>3, <2>4
<1>5. ret[t] \notin ClosePlaces /\ ret[t] \notin TokenPlaces
  BY <1>3 DEF ClosePlaces, TokenPlaces
<1>6. Local(t, ret[t], None, "idle", held[Owner(t)])
  <2>1. (t[1] = "acc" => ret[t] \in AccPlaces) /\ (t[1] # "acc" => ret[t] \in TmrPlaces /\ ret[t] \in RcvPlaces)
    BY <1>3 DEF AccPlaces, TmrPlaces, RcvPlaces
  <2>2. pc[t] \notin {"kick", "rele"}
    BY DEF ClosePlaces
  <2>3. t[1] = "acc" => (held[Owner(t)] # None <=> ret[t] = "rele")
    BY <1>1, <2>2 DEF Local
  <2> QED
    BY <1>1, <1>3, <1>5, <2>1, <2>3 DEF Local
<1>7. t[1] = "acc" => Stays(t, ret[t], "idle")
  <2>1. pc[t] \notin {"none", "done", "init", "kick", "rele"}
    BY DEF ClosePlaces
  <2> QED
    BY <1>3, <1>5, <2>1 DEF Stays, Locked
<1> QED
  BY <1>1, <1>2, <1>3, <1>4, <1>5, <1>6, <1>7 DEF Inv, Types

LEMMA CloseTranKeptInv ==
    ASSUME Inv, NEW t \in Thread, CloseTranKept(t)
    PROVE  Inv'
<1>1. pc[t] \in ClosePlaces /\ pc[t] # "gone"
  BY DEF CloseTranKept, ClosePlaces
<1> USE <1>1, ClosePlace
<1>2. HandleStep(tgt[t])
  <2>1. conn' \in [Pipe -> BOOLEAN]
    BY DEF CloseTranKept, AioTypes, Set
  <2> QED
    BY <2>1, HandleResults, RecvStep DEF CloseTranKept
<1>3. At(t, ret[t], None, "idle")
  BY ReturnAt DEF CloseTranKept
<1> QED
  BY <1>2, <1>3, QuietMove DEF HandleStep, CloseTranKept

\* A step of a handle of a pipe, with no thread.
LEMMA HandleOnly ==
    ASSUME Inv, NEW x \in Pipe, ~Fresh(x), ~freed[x], HandleStep(x),
           victim = x /\ rpc = "fini" => timer'[x] = "off" /\ recv'[x] \in {"off", "parked"},
           UNCHANGED <<map_vars, core_vars, reap_vars, s_mx, nano_vars, hist_vars, thr_vars>>
    PROVE  Inv'
<1> USE DEF map_vars, core_vars, reap_vars, nano_vars, hist_vars, thr_vars
<1>1. Types'
  BY DEF HandleStep, Inv, Types, ThrTypes, MapTypes, PipeTypes
<1>2. Locals' /\ Mutex' /\ Refs' /\ Tokens'
  BY DEF Inv, Locals, Mutex, Creating, Kicking, Refs, Alive, HeldNow, Tokens
<1>3. Reaper'
  <2>1. Reaper /\ victim \in Pipe \union {None}
    BY DEF Inv, Types, MapTypes
  <2>2. CASE victim = x
    BY <2>1, <2>2 DEF Reaper, HandleStep, Quieted
  <2>3. CASE victim # x
    BY <2>1, <2>3, NoneIsNoPipe DEF Reaper, HandleStep, Quieted, SameHandles
  <2> QED
    BY <2>2, <2>3
<1>4. ASSUME NEW p \in Pipe
      PROVE  PipeInv(p)'
  <2>1. YoungP(p) /\ GoneP(p) /\ ListedP(p) /\ EndedP(p) /\ KeptP(p)
    BY DEF Inv, PipeInv
  <2>2. ListedP(p)' /\ EndedP(p)' /\ KeptP(p)'
    BY <2>1 DEF ListedP, EndedP, KeptP, Leaving
  <2>3. Fresh(p)' = Fresh(p) /\ HeldNow' = HeldNow
    BY DEF Fresh, Creating, Kicking, HeldNow
  <2>4. YoungP(p)' /\ GoneP(p)'
    <3>1. CASE p = x
      BY <2>3, <3>1 DEF YoungP, GoneP
    <3>2. CASE p # x
      <4>1. SameHandles(p) /\ (Quieted(p) => Quieted(p)')
        BY <3>2 DEF HandleStep, SameHandles, Quieted
      <4> QED
        BY <2>1, <2>3, <4>1 DEF YoungP, GoneP, SameHandles
    <3> QED
      BY <3>1, <3>2
  <2> QED
    BY <2>2, <2>4 DEF PipeInv
<1> QED
  BY <1>1, <1>2, <1>3, <1>4 DEF Inv

\* A handle that is not at rest belongs to a pipe that is there.
LEMMA HandleTouches ==
    ASSUME Inv, NEW p \in Pipe, timer[p] # "off" \/ recv[p] # "off"
    PROVE  /\ ~Fresh(p) /\ ~freed[p] /\ AioTypes /\ ThrTypes
           /\ timer[p] # "off" \/ recv[p] # "parked" => Touchable(p)
           /\ victim = p /\ rpc = "fini" => rstop[p] /\ timer[p] = "off" /\ recv[p] = "parked"
<1>1. ~Fresh(p) /\ ~freed[p]
  BY DEF Inv, PipeInv, YoungP, GoneP, Quieted
<1>2. victim = p /\ rpc = "fini" => rstop[p] /\ timer[p] = "off" /\ recv[p] = "parked"
  BY NoneIsNoPipe DEF Inv, Reaper, Quieted
<1> QED
  BY <1>1, <1>2 DEF Touchable, Inv, Types

LEMMA TimerDueInv ==
    ASSUME Inv, NEW p \in Pipe, TimerDue(p)
    PROVE  Inv'
<1>1. timer[p] # "off"
  BY DEF TimerDue
<1>2. HandleStep(p)
  BY <1>1, HandleTouches, TimerStep DEF TimerDue
<1> QED
  BY <1>1, <1>2, HandleTouches, HandleOnly DEF TimerDue

LEMMA PeerGoneInv ==
    ASSUME Inv, NEW p \in Pipe, PeerGone(p)
    PROVE  Inv'
<1>1. recv[p] # "off" /\ recv[p] # "parked"
  BY DEF PeerGone
<1>2. HandleStep(p)
  BY <1>1, HandleTouches, RecvStep DEF PeerGone, AioTypes
<1> QED
  BY <1>1, <1>2, HandleTouches, HandleOnly DEF PeerGone

LEMMA CtxRecvInv ==
    ASSUME Inv, NEW p \in Pipe, nano_ctx_recv(p)
    PROVE  Inv'
<1>1. recv[p] # "off"
  BY DEF nano_ctx_recv
<1>2. HandleStep(p)
  <2>1. conn' \in [Pipe -> BOOLEAN]
    BY <1>1, HandleTouches DEF nano_ctx_recv, AioTypes
  <2> QED
    BY <1>1, <2>1, HandleTouches, HandleResults, RecvStep DEF nano_ctx_recv
<1>3. victim = p /\ rpc = "fini" => timer'[p] = "off" /\ recv'[p] \in {"off", "parked"}
  BY <1>1, HandleTouches DEF nano_ctx_recv, Receiving, Set, AioTypes
<1> QED
  BY <1>1, <1>2, <1>3, HandleTouches, HandleOnly DEF nano_ctx_recv

\* A callback that starts.
LEMMA CallbackStarts ==
    ASSUME Inv, NEW t \in Thread, t[1] # "acc", pc[t] = "idle", Touchable(Owner(t)),
           NEW place \in {"recv", "kept?", "swap"}, NEW pipe \in {None, Owner(t)},
           At(t, place, pipe, "idle"), place = "swap" <=> pipe = Owner(t),
           place = "recv" => t[1] = "rcv", place = "kept?" => t[1] = "tmr",
           HandleStep(Owner(t)),
           UNCHANGED <<map_vars, core_vars, reap_vars, s_mx, nano_vars, hist_vars>>
    PROVE  Inv'
<1>1. Owner(t) \in Pipe /\ t[1] \in {"tmr", "rcv"}
  BY ThreadFacts
<1>2. Local(t, pc[t], tgt[t], ret[t], held[Owner(t)])
  BY DEF Inv, Locals
<1>3. tgt[t] = None
  BY <1>2 DEF Local, ClosePlaces
<1>4. Local(t, place, pipe, "idle", held[Owner(t)]) /\ place \notin TokenPlaces
  BY <1>1, NoneIsNoPipe DEF Local, ClosePlaces, TmrPlaces, RcvPlaces, TokenPlaces
<1> QED
  BY <1>1, <1>3, <1>4, QuietMove DEF HandleStep

LEMMA RecvStartInv ==
    ASSUME Inv, NEW t \in Thread, RecvMsg(t) \/ RecvError(t)
    PROVE  Inv'
<1> DEFINE p == Owner(t)
<1>1. p \in Pipe /\ t[1] = "rcv" /\ pc[t] = "idle" /\ recv[p] \notin {"off", "parked"}
  BY ThreadFacts DEF RecvMsg, RecvError
<1>2. Touchable(p) /\ AioTypes /\ ThrTypes /\ "recv" \in Places /\ "idle" \in Places
  BY <1>1, HandleTouches DEF Places
<1>3. HandleStep(p)
  BY <1>1, <1>2, RecvStep DEF RecvMsg, RecvError, AioTypes
<1>4. Local(t, pc[t], tgt[t], ret[t], held[p])
  BY DEF Inv, Locals
<1>5. tgt[t] = None /\ ret[t] = "idle"
  BY <1>1, <1>4 DEF Local, ClosePlaces
<1>6. UNCHANGED <<map_vars, core_vars, reap_vars, s_mx, nano_vars, hist_vars>>
  BY DEF RecvMsg, RecvError
<1>7. CASE RecvMsg(t)
  <2>1. At(t, "recv", None, "idle")
    BY <1>2, <1>5, <1>7, GotoAt DEF RecvMsg
  <2> QED
    BY <1>1, <1>2, <1>3, <1>6, <2>1, NoneIsNoPipe, CallbackStarts
<1>8. CASE RecvError(t)
  <2>1. At(t, "swap", p, "idle")
    BY <1>1, <1>2, <1>8, CloseAt DEF RecvError
  <2> QED
    BY <1>1, <1>2, <1>3, <1>6, <2>1, NoneIsNoPipe, CallbackStarts
<1> QED
  BY <1>7, <1>8

LEMMA TimerResultInv ==
    ASSUME Inv, NEW t \in Thread, TimerResult(t)
    PROVE  Inv'
<1> DEFINE p == Owner(t)
<1>1. p \in Pipe /\ t[1] = "tmr" /\ pc[t] = "idle" /\ timer[p] \in {"due", "kicked", "stopped"}
  BY ThreadFacts DEF TimerResult
<1>2. Touchable(p) /\ AioTypes /\ ThrTypes /\ "kept?" \in Places /\ "idle" \in Places
  BY <1>1, HandleTouches DEF Places
<1>3. HandleStep(p)
  BY <1>1, <1>2, TimerStep DEF TimerResult
<1>4. Local(t, pc[t], tgt[t], ret[t], held[p])
  BY DEF Inv, Locals
<1>5. tgt[t] = None /\ ret[t] = "idle"
  BY <1>1, <1>4 DEF Local, ClosePlaces
<1>6. UNCHANGED <<map_vars, core_vars, reap_vars, s_mx, nano_vars, hist_vars>>
  BY DEF TimerResult
<1>7. CASE timer[p] = "due"
  <2>1. Goto(t, "kept?")
    BY <1>7 DEF TimerResult
  <2>2. At(t, "kept?", None, "idle")
    BY <1>2, <1>5, <2>1, GotoAt
  <2> QED
    BY <1>1, <1>2, <1>3, <1>6, <2>2, NoneIsNoPipe, CallbackStarts
<1>8. CASE timer[p] = "kicked"
  <2>1. Close(t, p, "idle")
    BY <1>8 DEF TimerResult
  <2>2. At(t, "swap", p, "idle")
    BY <1>1, <1>2, <2>1, CloseAt
  <2> QED
    BY <1>1, <1>2, <1>3, <1>6, <2>2, NoneIsNoPipe, CallbackStarts
<1>9. CASE timer[p] = "stopped"
  <2>1. UNCHANGED thr_vars
    BY <1>9 DEF TimerResult
  <2> QED
    BY <1>1, <1>2, <1>3, <1>6, <2>1, HandleOnly DEF Touchable
<1> QED
  BY <1>1, <1>7, <1>8, <1>9

-----------------------------------------------------------------------------
(* Steps that change the state of the pipes they touch.                    *)

\* Only the pipes X change, and everything keeps its type.
Touches(X) ==
    /\ X \subseteq Pipe /\ \A x \in X : Touchable(x)
    /\ UNCHANGED <<s_mx, p_ref, victim, rpc, freed, pipes>>
    /\ \A p \in Pipe \ X : SameCore(p) /\ SameHandles(p)
    /\ \A x \in X : (tstop[x] => tstop'[x]) /\ (rstop[x] => rstop'[x])
    /\ MapTypes' /\ PipeTypes' /\ AioTypes'

LEMMA TouchInv ==
    ASSUME Inv, NEW t \in Thread, NEW X, Touches(X),
           NEW place, NEW pipe, NEW back, At(t, place, pipe, back),
           Local(t, place, pipe, back, held[Owner(t)]),
           {tgt[t], pipe} \subseteq X \union {None},
           t[1] # "acc" => Owner(t) \in X, t[1] = "acc" => Stays(t, place, back),
           Tokens', \A x \in X : ListedP(x)' /\ EndedP(x)' /\ KeptP(x)'
    PROVE  Inv'
<1>1. Step(t, X)
  BY MoveStep DEF Touches
<1>2. Types'
  BY DEF At, Only, Types, Touches
<1>3. Locals'
  BY LocalsAt DEF Inv, At
<1>4. /\ Mutex' /\ Refs' /\ Reaper'
      /\ \A p \in Pipe : YoungP(p)' /\ GoneP(p)'
      /\ \A p \in Pipe \ X : PipeInv(p)'
  BY <1>1, StepFrame
<1>5. \A p \in Pipe : PipeInv(p)'
  BY <1>4 DEF PipeInv
<1> QED
  BY <1>2, <1>3, <1>4, <1>5 DEF Inv

\* A thread that goes on closing its pipe p.
LEMMA ClosingInv ==
    ASSUME Inv, NEW t \in Thread, pc[t] \in ClosePlaces, NEW X, Touches(X),
           NEW place \in ClosePlaces, Goto(t, place), tgt[t] \in X,
           Tokens', \A x \in X : ListedP(x)' /\ EndedP(x)' /\ KeptP(x)'
    PROVE  Inv'
<1> USE ClosePlace
<1>1. place \in Places
  BY DEF Places
<1>2. At(t, place, tgt[t], ret[t])
  BY <1>1, GotoAt
<1>3. {tgt[t], tgt[t]} \subseteq X \union {None}
  OBVIOUS
<1> QED
  BY <1>2, <1>3, TouchInv

\* The pipe of the session, and the pipe that gets the messages.
LEMMA SessionTouches ==
    ASSUME Inv, NEW q \in Pipe, q = cached_sessions \/ q = s_pipes \/ cache[q]
    PROVE  /\ Touchable(q) /\ q \notin reaping /\ victim # q
           /\ cache[q] => ~Leaving(q) /\ ~closed[q] /\ notified[q] = 0
<1>1. YoungP(q) /\ ListedP(q) /\ EndedP(q) /\ GoneP(q) /\ KeptP(q)
  BY DEF Inv, PipeInv
<1>2. Touchable(q) /\ q \notin reaping /\ victim # q
  BY <1>1 DEF YoungP, ListedP, GoneP, KeptP, Touchable
<1>3. cache[q] => ~Leaving(q)
  BY DEF Inv, Tokens, Leaving, TokenPlaces
<1> QED
  BY <1>1, <1>2, <1>3 DEF EndedP

LEMMA LeavingSame ==
    ASSUME NEW t \in Thread, Only(t), pc[t] # "gone", pc'[t] # "gone", NEW p \in Pipe
    PROVE  Leaving(p)' <=> Leaving(p)
BY DEF Leaving, Only

\* A token holder that keeps its token, or a thread that takes one on a pipe
\* that was not closed.
LEMMA TokenMoves ==
    ASSUME Inv, NEW t \in Thread, pc[t] \in ClosePlaces, Only(t), tgt'[t] = tgt[t],
           pc'[t] \in TokenPlaces, pc[t] \in TokenPlaces \/ ~p_closed[tgt[t]],
           p_closed'[tgt[t]], \A p \in Pipe : p_closed[p] => p_closed'[p],
           UNCHANGED <<cache, reaping, victim>>, s_pipes' \in {s_pipes, None},
           pc'[t] \in {"close", "gone"} => ~cache[tgt[t]],
           pc'[t] = "gone" => s_pipes' # tgt[t]
    PROVE  Tokens'
<1>1. \A u \in Thread : u # t => pc'[u] = pc[u] /\ tgt'[u] = tgt[u]
  BY DEF Only
<1>2. \A u \in Thread : pc[u] \in TokenPlaces => tgt[u] \in Pipe
  BY TargetTouches DEF TokenPlaces, ClosePlaces
<1>3. tgt[t] \in Pipe
  BY TargetTouches
<1>4. \A u \in Thread : u # t /\ pc[u] \in TokenPlaces => tgt[u] # tgt[t]
  BY DEF Inv, Tokens
<1>5. tgt[t] \notin reaping /\ victim # tgt[t]
  BY <1>3, NoneIsNoPipe DEF Inv, Tokens, PipeInv, ListedP
<1>6. ASSUME NEW u \in Thread, pc'[u] \in TokenPlaces
      PROVE  /\ p_closed'[tgt'[u]] /\ tgt'[u] \notin reaping' /\ victim' # tgt'[u]
             /\ pc'[u] \in {"close", "gone"} => ~cache'[tgt'[u]]
             /\ pc'[u] = "gone" => s_pipes' # tgt'[u]
  <2>1. CASE u = t
    BY <1>5, <2>1
  <2>2. CASE u # t
    BY <1>1, <1>2, <1>6, <2>2, NoneIsNoPipe DEF Inv, Tokens
  <2> QED
    BY <2>1, <2>2
<1>7. ASSUME NEW u \in Thread, NEW v \in Thread, pc'[u] \in TokenPlaces, pc'[v] \in TokenPlaces,
             tgt'[v] = tgt'[u]
      PROVE  v = u
  BY <1>1, <1>4, <1>7 DEF Inv, Tokens
<1> QED
  BY <1>6, <1>7 DEF Tokens

LEMMA TokenFacts ==
    ASSUME Inv, NEW t \in Thread, pc[t] \in TokenPlaces
    PROVE  /\ pc[t] \in ClosePlaces /\ tgt[t] \in Pipe
           /\ p_closed[tgt[t]] /\ tgt[t] \notin reaping /\ victim # tgt[t]
           /\ \A u \in Thread : u # t /\ pc[u] \in TokenPlaces => tgt[u] # tgt[t]
           /\ pc[t] # "gone" => ~Leaving(tgt[t]) /\ ~closed[tgt[t]] /\ notified[tgt[t]] = 0
<1>1. pc[t] \in ClosePlaces
  BY DEF TokenPlaces, ClosePlaces
<1>2. tgt[t] \in Pipe
  BY <1>1, TargetTouches
<1>3. /\ p_closed[tgt[t]] /\ tgt[t] \notin reaping /\ victim # tgt[t]
      /\ \A u \in Thread : u # t /\ pc[u] \in TokenPlaces => tgt[u] # tgt[t]
  BY DEF Inv, Tokens
<1>4. pc[t] # "gone" => ~Leaving(tgt[t])
  BY <1>3 DEF Leaving, TokenPlaces
<1>5. EndedP(tgt[t])
  BY <1>2 DEF Inv, PipeInv
<1> QED
  BY <1>1, <1>2, <1>3, <1>4, <1>5 DEF EndedP

LEMMA CloseSwapInv ==
    ASSUME Inv, NEW t \in Thread, CloseSwap(t)
    PROVE  Inv'
<1>1. /\ pc[t] \in ClosePlaces /\ pc[t] = "swap" /\ "cached?" \in ClosePlaces
      /\ "cached?" \in Places /\ "cached?" \in TokenPlaces
  BY DEF CloseSwap, ClosePlaces, Places, TokenPlaces
<1> USE <1>1, ClosePlace
<1>p. PICK p \in Pipe : p = tgt[t]
  OBVIOUS
<1>2. p_closed \in [Pipe -> BOOLEAN] /\ p_closed' = [p_closed EXCEPT ![p] = TRUE]
  BY <1>p DEF CloseSwap, Set, Inv, Types, PipeTypes
<1>3. CASE p_closed[p]
  <2>1. p_closed' = p_closed
    BY <1>2, <1>3
  <2>2. At(t, ret[t], None, "idle")
    BY <1>p, <1>3, ReturnAt DEF CloseSwap, Swapped
  <2>3. HandleStep(p)
    BY NoHandleStep DEF CloseSwap
  <2> QED
    BY <1>p, <2>1, <2>2, <2>3, QuietMove DEF CloseSwap, core_vars, HandleStep
<1>4. CASE ~p_closed[p]
  <2>1. Goto(t, "cached?")
    BY <1>p, <1>4 DEF CloseSwap, Swapped
  <2>2. Only(t) /\ pc'[t] = "cached?" /\ tgt'[t] = tgt[t]
    BY <2>1, GotoAt DEF At
  <2>3. Tokens'
    <3>2. p_closed'[p] /\ \A q \in Pipe : p_closed[q] => p_closed'[q]
      BY <1>2
    <3>3. UNCHANGED <<cache, reaping, victim>> /\ s_pipes' = s_pipes
      BY DEF CloseSwap, map_vars, reap_vars
    <3> QED
      BY <1>p, <1>4, <2>2, <3>2, <3>3, TokenMoves
  <2>4. ListedP(p)' /\ EndedP(p)' /\ KeptP(p)'
    <3>1. Leaving(p)' <=> Leaving(p)
      BY <2>2, LeavingSame
    <3>2. ListedP(p) /\ EndedP(p) /\ KeptP(p)
      BY DEF Inv, PipeInv
    <3> QED
      BY <1>4, <3>1, <3>2
      DEF ListedP, EndedP, KeptP, CloseSwap, map_vars, reap_vars, nano_vars, hist_vars
  <2>5. Touches({p})
    <3>1. \A q \in Pipe \ {p} : SameCore(q) /\ SameHandles(q)
      BY <1>2 DEF CloseSwap, SameCore, SameHandles, map_vars, reap_vars, nano_vars, aio_vars, hist_vars
    <3>2. MapTypes' /\ PipeTypes' /\ AioTypes'
      BY <1>2, ZenonT(60) DEF CloseSwap, Inv, Types, MapTypes, PipeTypes, AioTypes, map_vars, reap_vars,
                  nano_vars, aio_vars, hist_vars
    <3> QED
      BY <1>p, <3>1, <3>2 DEF Touches, CloseSwap, map_vars, reap_vars, aio_vars
  <2> QED
    BY <1>p, <2>1, <2>3, <2>4, <2>5, ClosingInv
<1> QED
  BY <1>3, <1>4

LEMMA CloseCachedInv ==
    ASSUME Inv, NEW t \in Thread, CloseCached(t)
    PROVE  Inv'
<1>p. PICK p \in Pipe : p = tgt[t]
  BY ClosePlace DEF CloseCached, ClosePlaces
<1>s. PICK s \in {"reopen", "close"} : Goto(t, s) /\ (s = "close" => ~cache[p])
  BY <1>p DEF CloseCached
<1>1. /\ pc[t] \in ClosePlaces /\ pc[t] = "cached?" /\ s \in ClosePlaces
      /\ s \in Places /\ {pc[t], s} \subseteq TokenPlaces
  BY DEF CloseCached, ClosePlaces, Places, TokenPlaces
<1> USE <1>1, ClosePlace, <1>p
<1>2. Only(t) /\ pc'[t] = s /\ tgt'[t] = tgt[t]
  BY <1>s, GotoAt DEF At
<1> USE DEF CloseCached, map_vars, core_vars, reap_vars, nano_vars, aio_vars, hist_vars
<1>3. Tokens'
  <2>1. p_closed[p]
    BY TokenFacts
  <2> QED
    BY <1>s, <1>2, <2>1, TokenMoves
<1>4. ListedP(p)' /\ EndedP(p)' /\ KeptP(p)'
  <2>1. Leaving(p)' <=> Leaving(p)
    BY <1>2, LeavingSame
  <2>2. ListedP(p) /\ EndedP(p) /\ KeptP(p)
    BY DEF Inv, PipeInv
  <2> QED
    BY <2>1, <2>2 DEF ListedP, EndedP, KeptP
<1>5. Touches({p})
  <2>1. \A q \in Pipe \ {p} : SameCore(q) /\ SameHandles(q)
    BY DEF SameCore, SameHandles
  <2>2. MapTypes' /\ PipeTypes' /\ AioTypes'
    BY DEF Inv, Types, MapTypes, PipeTypes, AioTypes
  <2> QED
    BY <2>1, <2>2 DEF Touches
<1> QED
  BY <1>s, <1>3, <1>4, <1>5, ClosingInv

LEMMA CloseAgainInv ==
    ASSUME Inv, NEW t \in Thread, CloseAgain(t)
    PROVE  Inv'
<1>1. /\ pc[t] \in ClosePlaces /\ pc[t] = "reopen" /\ "kept" \in ClosePlaces
      /\ "kept" \in Places /\ pc[t] \in TokenPlaces /\ "kept" \notin TokenPlaces
  BY DEF CloseAgain, ClosePlaces, Places, TokenPlaces
<1> USE <1>1, ClosePlace
<1>p. PICK p \in Pipe : p = tgt[t]
  OBVIOUS
<1>2. Only(t) /\ pc'[t] = "kept" /\ tgt'[t] = tgt[t]
  BY GotoAt DEF At, CloseAgain
<1>3. p_closed \in [Pipe -> BOOLEAN] /\ p_closed' = [p_closed EXCEPT ![p] = FALSE]
  BY <1>p DEF CloseAgain, Set, Inv, Types, PipeTypes
<1> USE <1>p DEF map_vars, reap_vars, nano_vars, aio_vars, hist_vars
<1>4. UNCHANGED <<map_vars, p_ref, cache, reap_vars, s_mx, nano_vars, aio_vars, hist_vars>>
  BY DEF CloseAgain
<1>5. Tokens'
  <2>1. \A q \in Pipe : (\E u \in Thread : u # t /\ pc[u] \in TokenPlaces /\ tgt[u] = q) =>
               p_closed'[q] /\ q \notin reaping
    BY <1>3, TokenFacts
  <2> QED
    BY <1>2, <1>4, <2>1, TokensKept
<1>6. ListedP(p)' /\ EndedP(p)' /\ KeptP(p)'
  <2>1. Leaving(p)' <=> Leaving(p)
    BY <1>2, LeavingSame
  <2>2. EndedP(p) /\ KeptP(p) /\ p \notin reaping /\ victim # p
    BY TokenFacts DEF Inv, PipeInv
  <2> QED
    BY <1>4, <2>1, <2>2 DEF ListedP, EndedP, KeptP
<1>7. Touches({p})
  <2>1. \A q \in Pipe \ {p} : SameCore(q) /\ SameHandles(q)
    BY <1>3, <1>4 DEF SameCore, SameHandles
  <2>2. MapTypes' /\ PipeTypes' /\ AioTypes'
    BY <1>3, <1>4 DEF Inv, Types, MapTypes, PipeTypes, AioTypes
  <2> QED
    BY <1>4, <2>1, <2>2 DEF Touches
<1> QED
  BY <1>5, <1>6, <1>7, ClosingInv DEF CloseAgain

LEMMA CloseKeepInv ==
    ASSUME Inv, NEW t \in Thread, CloseKeep(t)
    PROVE  Inv'
<1>1. /\ pc[t] \in ClosePlaces /\ pc[t] = "close" /\ "kept" \in ClosePlaces
      /\ "kept" \in Places /\ pc[t] \in TokenPlaces /\ "kept" \notin TokenPlaces
  BY DEF CloseKeep, ClosePlaces, Places, TokenPlaces
<1> USE <1>1, ClosePlace
<1>p. PICK p \in Pipe : p = tgt[t]
  OBVIOUS
<1>x. PICK X : X = {p} \union ({cached_sessions} \ {None})
  OBVIOUS
<1>2. Only(t) /\ pc'[t] = "kept" /\ tgt'[t] = tgt[t]
  BY GotoAt DEF At, CloseKeep
<1> USE <1>p DEF map_vars, reap_vars, nano_vars, hist_vars
<1>3. /\ p_closed' = [p_closed EXCEPT ![p] = FALSE] /\ cache' = [cache EXCEPT ![p] = TRUE]
      /\ event' = [event EXCEPT ![p] = FALSE] /\ clean_start' = [clean_start EXCEPT ![p] = 1]
      /\ recv' = [recv EXCEPT ![p] = Unparked(p)] /\ cached_sessions' = p
      /\ clean_start[p] = 0
  BY DEF CloseKeep, Set, KeptFlag, Kept
<1>4. UNCHANGED <<pipes, s_pipes, p_ref, reap_vars, s_mx, closed, timer, tstop, rstop,
                   conn, hist_vars>>
  BY DEF CloseKeep
<1>5. MapTypes /\ PipeTypes /\ AioTypes
  BY DEF Inv, Types
<1>6. Tokens'
  <2>1. \A q \in Pipe : (\E u \in Thread : u # t /\ pc[u] \in TokenPlaces /\ tgt[u] = q) =>
               q # p /\ p_closed[q] /\ q \notin reaping
    BY TokenFacts
  <2>2. \A q \in Pipe : q # p => p_closed'[q] = p_closed[q] /\ cache'[q] = cache[q]
    BY <1>3, <1>5 DEF PipeTypes
  <2> QED
    BY <1>2, <1>4, <2>1, <2>2, TokensKept
<1>7. ASSUME NEW x \in X
      PROVE  ListedP(x)' /\ EndedP(x)' /\ KeptP(x)'
  <2>0. x \in Pipe
    BY <1>x, <1>5 DEF MapTypes
  <2>1. Leaving(x)' <=> Leaving(x)
    BY <1>2, <2>0, LeavingSame
  <2>2. EndedP(x) /\ KeptP(x)
    BY <2>0 DEF Inv, PipeInv
  <2>3. x \notin reaping /\ victim # x
    BY <1>x, <1>7, <2>0, TokenFacts, SessionTouches
  <2>4. ListedP(x)' /\ EndedP(x)'
    BY <1>4, <2>1, <2>2, <2>3 DEF ListedP, EndedP
  <2>5. KeptP(x)'
    <3>1. CASE x = p
      <4>1. x \notin taken /\ notified[x] <= 1
        BY <1>3, <2>2, <3>1 DEF KeptP
      <4>2. cache'[x] /\ ~event'[x] /\ clean_start'[x] = 1
        BY <1>3, <1>5, <3>1 DEF PipeTypes
      <4> QED
        BY <1>4, <4>1, <4>2 DEF KeptP
    <3>2. CASE x # p
      <4>1. cache'[x] = cache[x] /\ event'[x] = event[x] /\ clean_start'[x] = clean_start[x]
        BY <1>3, <1>5, <2>0, <3>2 DEF PipeTypes
      <4> QED
        BY <1>3, <1>4, <2>2, <3>2, <4>1 DEF KeptP
    <3> QED
      BY <3>1, <3>2
  <2> QED
    BY <2>4, <2>5
<1>8. Touches(X)
  <2>1. \A q \in Pipe \ X : SameCore(q) /\ SameHandles(q)
    <3> TAKE q \in Pipe \ X
    <3>1. q # p /\ cached_sessions # q /\ q \in Pipe
      BY <1>x, NoneIsNoPipe
    <3>2. /\ p_closed'[q] = p_closed[q] /\ cache'[q] = cache[q] /\ event'[q] = event[q]
          /\ clean_start'[q] = clean_start[q]
      BY <1>3, <1>5, <3>1 DEF PipeTypes
    <3>3. SameCore(q)
      BY <1>3, <1>4, <3>1, <3>2 DEF SameCore
    <3>4. SameHandles(q)
      BY <1>3, <1>4, <1>5, <3>1 DEF SameHandles, AioTypes
    <3> QED
      BY <3>3, <3>4
  <2>2. MapTypes'
    BY <1>3, <1>4, <1>5 DEF MapTypes
  <2>3. PipeTypes'
    BY <1>3, <1>4, <1>5 DEF PipeTypes
  <2>4. AioTypes'
    BY <1>3, <1>4, <1>5, HandleResults DEF AioTypes
  <2>5. X \subseteq Pipe /\ \A x \in X : Touchable(x)
    BY <1>x, <1>5, SessionTouches DEF MapTypes
  <2> QED
    BY <1>4, <2>1, <2>2, <2>3, <2>4, <2>5 DEF Touches
<1> QED
  BY <1>x, <1>6, <1>7, <1>8, ClosingInv DEF CloseKeep

LEMMA CloseGoneInv ==
    ASSUME Inv, NEW t \in Thread, CloseGone(t)
    PROVE  Inv'
<1>1. /\ pc[t] \in ClosePlaces /\ pc[t] = "close" /\ "gone" \in ClosePlaces
      /\ "gone" \in Places /\ pc[t] \in TokenPlaces /\ "gone" \in TokenPlaces
  BY DEF CloseGone, ClosePlaces, Places, TokenPlaces
<1> USE <1>1, ClosePlace
<1>p. PICK p \in Pipe : p = tgt[t]
  OBVIOUS
<1>2. Only(t) /\ pc'[t] = "gone" /\ tgt'[t] = tgt[t]
  BY GotoAt DEF At, CloseGone
<1> USE <1>p DEF core_vars, reap_vars
<1>h. PICK ts \in {"off", "armed", "due", "kicked", "stopped"}, rs \in {"off", "pending", "failed", "parked"} :
         timer' = [timer EXCEPT ![p] = ts] /\ recv' = [recv EXCEPT ![p] = rs]
  <2>1. timer[p] \in {"off", "armed", "due", "kicked", "stopped"}
    BY DEF AioTypes
  <2> QED
    BY <2>1, HandleResults DEF CloseGone, Set
<1>b. PICK tb \in BOOLEAN, rb \in BOOLEAN :
         /\ tstop' = [tstop EXCEPT ![p] = tb] /\ rstop' = [rstop EXCEPT ![p] = rb]
         /\ (tstop[p] => tb) /\ (rstop[p] => rb)
  BY DEF CloseGone, Set, AioTypes
<1>3. /\ closed' = [closed EXCEPT ![p] = TRUE]
      /\ s_pipes' = (IF s_pipes = p THEN None ELSE s_pipes)
      /\ notified' = [notified EXCEPT ![p] = notified[p] + (IF event[p] THEN 1 ELSE 0)]
  BY DEF CloseGone, Set, Unmapped
<1>4. UNCHANGED <<pipes, cached_sessions, core_vars, reap_vars, s_mx, clean_start,
                      event, conn, taken>>
  BY DEF CloseGone
<1>5. MapTypes /\ PipeTypes /\ AioTypes
  BY DEF Inv, Types
<1>6. p_closed[p] /\ ~cache[p] /\ p \notin reaping /\ victim # p /\ notified[p] = 0
  BY TokenFacts DEF Inv, Tokens
<1>7. Tokens'
  <2>1. s_pipes' \in {s_pipes, None} /\ s_pipes' # p
    BY <1>3, NoneIsNoPipe
  <2> QED
    BY <1>2, <1>4, <1>6, <2>1, TokenMoves
<1>8. ListedP(p)' /\ EndedP(p)' /\ KeptP(p)'
  <2>1. Leaving(p)'
    BY <1>2 DEF Leaving
  <2>2. KeptP(p) /\ event[p] \in BOOLEAN
    BY <1>5 DEF Inv, PipeInv, PipeTypes
  <2>3. notified'[p] = IF event[p] THEN 1 ELSE 0
    BY <1>3, <1>5, <1>6 DEF PipeTypes
  <2>4. KeptP(p)'
    BY <1>4, <2>2, <2>3 DEF KeptP
  <2> QED
    BY <1>4, <1>6, <2>1, <2>4 DEF ListedP, EndedP
<1>9. Touches({p})
  <2>1. \A q \in Pipe \ {p} : SameCore(q) /\ SameHandles(q)
    <3> TAKE q \in Pipe \ {p}
    <3>1. closed'[q] = closed[q] /\ notified'[q] = notified[q] /\ (s_pipes' = q <=> s_pipes = q)
      BY <1>3, <1>5, NoneIsNoPipe DEF PipeTypes
    <3>2. SameCore(q)
      BY <1>4, <3>1 DEF SameCore
    <3>3. SameHandles(q)
      BY <1>h, <1>b, <1>5 DEF SameHandles, AioTypes
    <3> QED
      BY <3>2, <3>3
  <2>2. MapTypes'
    BY <1>3, <1>4, <1>5 DEF MapTypes
  <2>3. PipeTypes'
    BY <1>3, <1>4, <1>5 DEF PipeTypes
  <2>4. AioTypes'
    BY <1>h, <1>b, <1>4, <1>5 DEF AioTypes
  <2>5. \A x \in {p} : (tstop[x] => tstop'[x]) /\ (rstop[x] => rstop'[x])
    BY <1>b, <1>5 DEF AioTypes
  <2> QED
    BY <1>4, <2>1, <2>2, <2>3, <2>4, <2>5 DEF Touches
<1> QED
  BY <1>7, <1>8, <1>9, ClosingInv DEF CloseGone

LEMMA CloseTranGoneInv ==
    ASSUME Inv, NEW t \in Thread, CloseTranGone(t)
    PROVE  Inv'
<1>1. pc[t] \in ClosePlaces /\ pc[t] = "gone" /\ pc[t] \in TokenPlaces
  BY DEF CloseTranGone, ClosePlaces, TokenPlaces
<1> USE <1>1, ClosePlace
<1>p. PICK p \in Pipe : p = tgt[t]
  OBVIOUS
<1> USE <1>p DEF map_vars, core_vars, nano_vars, hist_vars
<1>2. At(t, ret[t], None, "idle")
  BY ReturnAt DEF CloseTranGone
<1>3. /\ conn' = [conn EXCEPT ![p] = FALSE] /\ recv' = [recv EXCEPT ![p] = RecvFailed(p)]
      /\ reaping' = reaping \union {p}
  BY DEF CloseTranGone, Set
<1>4. UNCHANGED <<map_vars, core_vars, victim, rpc, freed, s_mx, nano_vars, timer, tstop,
                   rstop, hist_vars>>
  BY DEF CloseTranGone
<1>5. MapTypes /\ PipeTypes /\ AioTypes
  BY DEF Inv, Types
<1>6. p_closed[p] /\ ~cache[p] /\ p \notin reaping /\ victim # p /\ s_pipes # p
  BY DEF Inv, Tokens
<1>7. Tokens'
  <2>1. \A q \in Pipe : (\E u \in Thread : u # t /\ pc[u] \in TokenPlaces /\ tgt[u] = q) =>
               q # p /\ p_closed[q] /\ q \notin reaping
    BY TokenFacts DEF Inv, Tokens
  <2> QED
    BY <1>2, <1>3, <1>4, <2>1, TokensKept DEF At
<1>8. ListedP(p)' /\ EndedP(p)' /\ KeptP(p)'
  <2>1. KeptP(p)
    BY DEF Inv, PipeInv
  <2> QED
    BY <1>3, <1>4, <1>6, <2>1 DEF ListedP, EndedP, KeptP
<1>9. Touches({p})
  <2>1. \A q \in Pipe \ {p} : SameCore(q) /\ SameHandles(q)
    BY <1>3, <1>4, <1>5 DEF SameCore, SameHandles, AioTypes
  <2>2. MapTypes' /\ PipeTypes'
    BY <1>3, <1>4, <1>5 DEF MapTypes, PipeTypes
  <2>3. AioTypes'
    BY <1>3, <1>4, <1>5, HandleResults DEF AioTypes
  <2> QED
    BY <1>4, <2>1, <2>2, <2>3 DEF Touches
<1>10. {tgt[t], None} \subseteq {p} \union {None} /\ (t[1] # "acc" => Owner(t) \in {p})
  OBVIOUS
<1> QED
  BY <1>2, <1>7, <1>8, <1>9, <1>10, TouchInv

\* The tokens stay good if p_closed stays, cache only falls, and s_pipes gets
\* no pipe that is closed.
LEMMA TokensStay ==
    ASSUME Inv, NEW t \in Thread, Only(t), pc'[t] \notin TokenPlaces,
           UNCHANGED <<victim, reaping, p_closed>>, \A p \in Pipe : cache'[p] => cache[p],
           \A p \in Pipe : s_pipes' = p => s_pipes = p \/ ~p_closed[p]
    PROVE  Tokens'
<1>1. \A p \in Pipe : (\E u \in Thread : u # t /\ pc[u] \in TokenPlaces /\ tgt[u] = p) =>
           p_closed[p] /\ p \notin reaping
  BY DEF Inv, Tokens
<1> QED
  BY <1>1, TokensKept

\* A thread at work on its own pipe, x, that starts to close it.
LEMMA OwnCloseTouch ==
    ASSUME Inv, NEW t \in Thread, pc[t] \in OwnPlaces,
           NEW back \in {"drop", "idle"}, t[1] = "acc" <=> back = "drop",
           Close(t, Owner(t), back), NEW X, Touches(X), Owner(t) \in X,
           UNCHANGED <<victim, reaping, p_closed, s_pipes>>, \A p \in Pipe : cache'[p] => cache[p],
           \A x \in X : (Leaving(x)' <=> Leaving(x)) => ListedP(x)' /\ EndedP(x)' /\ KeptP(x)'
    PROVE  Inv'
<1> USE OwnPlace
<1>1. /\ back \in Places /\ "swap" \in ClosePlaces /\ "swap" \notin TokenPlaces
      /\ pc[t] \notin TokenPlaces
  BY DEF Places, ClosePlaces, TokenPlaces, OwnPlaces
<1>2. At(t, "swap", Owner(t), back)
  BY <1>1, CloseAt
<1>3. Local(t, "swap", Owner(t), back, held[Owner(t)])
  BY <1>1, NoneIsNoPipe DEF Local, AccPlaces, TmrPlaces, RcvPlaces
<1>4. t[1] = "acc" => Stays(t, "swap", back)
  BY <1>1 DEF Stays, Locked
<1>5. Only(t) /\ pc'[t] = "swap"
  BY <1>2 DEF At
<1>6. Tokens'
  BY <1>1, <1>5, TokensStay
<1>7. \A x \in X : ListedP(x)' /\ EndedP(x)' /\ KeptP(x)'
  <2> TAKE x \in X
  <2>1. x \in Pipe
    BY DEF Touches
  <2>2. Leaving(x)' <=> Leaving(x)
    BY <1>5, <2>1, LeavingSame
  <2> QED
    BY <2>2
<1>8. {tgt[t], Owner(t)} \subseteq X \union {None}
  OBVIOUS
<1> QED
  BY <1>2, <1>3, <1>4, <1>6, <1>7, <1>8, TouchInv

LEMMA RefuseInv ==
    ASSUME Inv, NEW t \in Thread, Refuse(t)
    PROVE  Inv'
<1>1. pc[t] \in OwnPlaces /\ pc[t] = "refuse"
  BY DEF Refuse, OwnPlaces
<1> USE <1>1, OwnPlace
<1>p. PICK p \in Pipe : p = Owner(t)
  OBVIOUS
<1>2. t[1] = "acc"
  BY DEF Local, TmrPlaces, RcvPlaces, ClosePlaces
<1> USE <1>p DEF map_vars, core_vars, reap_vars, aio_vars, hist_vars
<1>3. closed' = [closed EXCEPT ![p] = FALSE]
      /\ UNCHANGED <<map_vars, core_vars, reap_vars, s_mx, clean_start, event, aio_vars, hist_vars>>
  BY DEF Refuse, Set
<1>4. MapTypes /\ PipeTypes
  BY DEF Inv, Types
<1>5. Touches({p})
  <2>1. \A q \in Pipe \ {p} : SameCore(q) /\ SameHandles(q)
    BY <1>3, <1>4 DEF SameCore, SameHandles, PipeTypes
  <2>2. MapTypes' /\ PipeTypes' /\ AioTypes'
    BY <1>3, <1>4 DEF MapTypes, PipeTypes, AioTypes
  <2> QED
    BY <1>3, <2>1, <2>2 DEF Touches
<1>6. (Leaving(p)' <=> Leaving(p)) => ListedP(p)' /\ EndedP(p)' /\ KeptP(p)'
  <2>1. ListedP(p) /\ EndedP(p) /\ KeptP(p) /\ ~closed'[p]
    BY <1>3, <1>4 DEF Inv, PipeInv, PipeTypes
  <2> QED
    BY <1>3, <2>1 DEF ListedP, EndedP, KeptP
<1> QED
  BY <1>2, <1>3, <1>5, <1>6, OwnCloseTouch DEF Refuse

LEMMA StartClosedInv ==
    ASSUME Inv, NEW t \in Thread, NEW ok \in BOOLEAN, StartClosed(t, ok)
    PROVE  Inv'
<1>1. pc[t] \in OwnPlaces /\ pc[t] = "start"
  BY DEF StartClosed, OwnPlaces
<1> USE <1>1, OwnPlace
<1>p. PICK p \in Pipe : p = Owner(t)
  OBVIOUS
<1>2. t[1] = "acc"
  BY DEF Local, TmrPlaces, RcvPlaces, ClosePlaces
<1>3. Close(t, Owner(t), "drop")
      /\ UNCHANGED <<pipes, s_pipes, p_ref, p_closed, reap_vars, s_mx, nano_vars, recv, tstop,
                     rstop, conn, hist_vars>>
  BY DEF StartClosed
<1> USE <1>p DEF map_vars, core_vars, reap_vars, aio_vars, nano_vars, hist_vars
<1>4. CASE ~cache[p]
  <2>1. UNCHANGED <<cached_sessions, cache, timer>>
    BY <1>4 DEF StartClosed
  <2>2. HandleStep(p)
    BY <1>3, <2>1, NoHandleStep
  <2> QED
    BY <1>2, <1>3, <2>1, <2>2, OwnClose
<1>5. CASE cache[p] /\ ok
  <2>1. timer' = Set(timer, p, Sleeping(p)) /\ UNCHANGED <<cached_sessions, cache>>
    BY <1>5 DEF StartClosed, Sleep
  <2>2. HandleStep(p)
    BY <1>3, <2>1, HandleResults, TimerStep
  <2> QED
    BY <1>2, <1>3, <2>1, <2>2, OwnClose
<1>6. CASE cache[p] /\ ~ok
  <2>1. /\ cached_sessions' = IF cached_sessions = p THEN None ELSE cached_sessions
        /\ cache' = [cache EXCEPT ![p] = FALSE] /\ UNCHANGED timer
    BY <1>6 DEF StartClosed, Set
  <2>2. MapTypes /\ PipeTypes
    BY DEF Inv, Types
  <2>3. Touches({p})
    <3>1. \A q \in Pipe \ {p} : SameCore(q) /\ SameHandles(q)
      BY <1>3, <2>1, <2>2, NoneIsNoPipe DEF SameCore, SameHandles, PipeTypes
    <3>2. MapTypes' /\ PipeTypes' /\ AioTypes'
      BY <1>3, <2>1, <2>2 DEF MapTypes, PipeTypes, AioTypes
    <3> QED
      BY <1>3, <3>1, <3>2 DEF Touches
  <2>4. (Leaving(p)' <=> Leaving(p)) => ListedP(p)' /\ EndedP(p)' /\ KeptP(p)'
    <3>1. ListedP(p) /\ EndedP(p) /\ KeptP(p) /\ ~cache'[p] /\ cached_sessions' # p
      BY <2>1, <2>2, NoneIsNoPipe DEF Inv, PipeInv, PipeTypes
    <3> QED
      BY <1>3, <3>1 DEF ListedP, EndedP, KeptP
  <2>5. \A q \in Pipe : cache'[q] => cache[q]
    BY <2>1, <2>2 DEF PipeTypes
  <2> QED
    BY <1>2, <1>3, <2>3, <2>4, <2>5, OwnCloseTouch
<1> QED
  BY <1>4, <1>5, <1>6

LEMMA RecvDisconnectInv ==
    ASSUME Inv, NEW t \in Thread, RecvDisconnect(t)
    PROVE  Inv'
<1>1. pc[t] \in OwnPlaces /\ pc[t] = "recv" /\ t[1] = "rcv" /\ "passlast" \in Places
      /\ "passlast" \notin TokenPlaces
  BY DEF RecvDisconnect, OwnPlaces, Places, TokenPlaces
<1> USE <1>1, OwnPlace
<1>p. PICK p \in Pipe : p = Owner(t)
  OBVIOUS
<1> USE <1>p DEF map_vars, core_vars, reap_vars, aio_vars, hist_vars
<1>2. At(t, "passlast", None, ret[t])
  BY GotoAt DEF RecvDisconnect
<1>3. Local(t, "passlast", None, ret[t], held[Owner(t)])
  BY DEF Local, RcvPlaces, ClosePlaces
<1>c. PICK c \in {clean_start[p], 1} : clean_start' = [clean_start EXCEPT ![p] = c]
  BY DEF RecvDisconnect, Set
<1>4. UNCHANGED <<map_vars, core_vars, reap_vars, s_mx, event, closed, aio_vars, hist_vars>>
  BY DEF RecvDisconnect
<1>5. MapTypes /\ PipeTypes
  BY DEF Inv, Types
<1>6. Touches({p})
  <2>1. \A q \in Pipe \ {p} : SameCore(q) /\ SameHandles(q)
    BY <1>c, <1>4, <1>5 DEF SameCore, SameHandles, PipeTypes
  <2>2. MapTypes' /\ PipeTypes' /\ AioTypes'
    BY <1>c, <1>4, <1>5 DEF MapTypes, PipeTypes, AioTypes
  <2> QED
    BY <1>4, <2>1, <2>2 DEF Touches
<1>7. ListedP(p)' /\ EndedP(p)' /\ KeptP(p)'
  <2>1. Leaving(p)' <=> Leaving(p)
    BY <1>2, LeavingSame DEF At
  <2>2. ListedP(p) /\ EndedP(p) /\ KeptP(p) /\ (clean_start[p] = 1 => clean_start'[p] = 1)
    BY <1>c, <1>5 DEF Inv, PipeInv, PipeTypes
  <2> QED
    BY <1>4, <2>1, <2>2 DEF ListedP, EndedP, KeptP
<1>8. Tokens'
  <2>1. Only(t) /\ pc'[t] = "passlast"
    BY <1>2 DEF At
  <2> QED
    BY <1>4, <2>1, TokensStay
<1>9. {tgt[t], None} \subseteq {p} \union {None} /\ Owner(t) \in {p} /\ t[1] # "acc"
  OBVIOUS
<1> QED
  BY <1>2, <1>3, <1>6, <1>7, <1>8, <1>9, TouchInv

LEMMA TimerExpireInv ==
    ASSUME Inv, NEW t \in Thread, TimerExpire(t)
    PROVE  Inv'
<1>1. pc[t] \in OwnPlaces /\ pc[t] = "session"
  BY DEF TimerExpire, OwnPlaces
<1> USE <1>1, OwnPlace
<1>p. PICK p \in Pipe : p = Owner(t)
  OBVIOUS
<1>2. t[1] # "acc"
  BY DEF Local, AccPlaces, ClosePlaces
<1>o. PICK old \in Pipe \union {None} : old = cached_sessions
  BY DEF Inv, Types, MapTypes
<1>x. PICK X : X = {p} \union ({old} \ {None})
  OBVIOUS
<1> USE <1>p, <1>o DEF reap_vars, aio_vars, hist_vars
<1>3. /\ cached_sessions' = None
      /\ event' = IF old = None THEN event ELSE [event EXCEPT ![old] = TRUE]
      /\ cache' = IF old = None THEN cache ELSE [cache EXCEPT ![old] = FALSE]
  BY DEF TimerExpire, Set
<1>4. UNCHANGED <<pipes, s_pipes, p_ref, p_closed, reap_vars, s_mx, clean_start, closed,
                  aio_vars, hist_vars>>
  BY DEF TimerExpire
<1>5. MapTypes /\ PipeTypes
  BY DEF Inv, Types
<1>6. \A q \in Pipe : (cache'[q] => cache[q]) /\ (q # old => cache'[q] = cache[q] /\ event'[q] = event[q])
                      /\ (q = old => ~cache'[q])
  BY <1>3, <1>5, NoneIsNoPipe, ZenonT(60) DEF PipeTypes
<1>7. Touches(X)
  <2>1. \A q \in Pipe \ X : SameCore(q) /\ SameHandles(q)
    <3> TAKE q \in Pipe \ X
    <3>1. q \in Pipe /\ q # old
      BY <1>x, NoneIsNoPipe
    <3> QED
      BY <1>3, <1>4, <1>6, <3>1, NoneIsNoPipe DEF SameCore, SameHandles
  <2>2. MapTypes' /\ AioTypes'
    BY <1>3, <1>4, <1>5 DEF MapTypes, AioTypes
  <2>3. PipeTypes'
    BY <1>3, <1>4, <1>5 DEF PipeTypes
  <2>4. X \subseteq Pipe /\ \A x \in X : Touchable(x)
    BY <1>x, SessionTouches
  <2> QED
    BY <1>4, <2>1, <2>2, <2>3, <2>4 DEF Touches
<1>8. ASSUME NEW x \in X, Leaving(x)' <=> Leaving(x)
      PROVE  ListedP(x)' /\ EndedP(x)' /\ KeptP(x)'
  <2>0. x \in Pipe
    BY <1>x
  <2>1. ListedP(x) /\ EndedP(x) /\ KeptP(x)
    BY <2>0 DEF Inv, PipeInv
  <2>2. ListedP(x)' /\ EndedP(x)'
    BY <1>4, <1>6, <1>8, <2>0, <2>1 DEF ListedP, EndedP
  <2>3. KeptP(x)'
    BY <1>3, <1>4, <1>6, <2>0, <2>1, NoneIsNoPipe DEF KeptP
  <2> QED
    BY <2>2, <2>3
<1> QED
  BY <1>x, <1>2, <1>4, <1>6, <1>7, <1>8, OwnCloseTouch DEF TimerExpire

LEMMA StartInv ==
    ASSUME Inv, NEW t \in Thread, nano_pipe_start(t)
    PROVE  Inv'
<1>1. pc[t] \in OwnPlaces /\ pc[t] = "start"
  BY DEF nano_pipe_start, OwnPlaces
<1> USE <1>1, OwnPlace
<1>p. PICK p \in Pipe : p = Owner(t)
  OBVIOUS
<1>2. t[1] = "acc"
  BY DEF Local, TmrPlaces, RcvPlaces, ClosePlaces
<1>o. PICK old \in Pipe \union {None} : old = cached_sessions
  BY DEF Inv, Types, MapTypes
<1>r. PICK resume \in BOOLEAN : resume = (clean_start[p] = 0 /\ old # None)
  OBVIOUS
<1>x. PICK X : X = {p} \union ({old, s_pipes} \ {None})
  OBVIOUS
<1> USE <1>p, <1>o DEF reap_vars
<1>3. /\ ~p_closed[p] /\ ~cache[p] /\ cached_sessions' = None /\ s_pipes' = p
      /\ cache' = IF old = None THEN cache ELSE [cache EXCEPT ![old] = FALSE]
      /\ event' = [q \in Pipe |-> IF q = old THEN ~resume
                                   ELSE IF q = p THEN event[q] /\ ~resume ELSE event[q]]
      /\ timer' = [q \in Pipe |-> IF q = p THEN Sleeping(p)
                                   ELSE IF q = old THEN Aborted(q) ELSE timer[q]]
      /\ taken' = IF resume THEN taken \union {old} ELSE taken
      /\ pc' = [pc EXCEPT ![t] = "recv"] /\ ret' = [ret EXCEPT ![t] = "started"]
  BY <1>r DEF nano_pipe_start, Set, OldEvent
<1>4. UNCHANGED <<pipes, p_ref, p_closed, reap_vars, s_mx, clean_start, closed, recv,
                  tstop, rstop, conn, tgt, held, notified>>
  BY DEF nano_pipe_start
<1>5. MapTypes /\ PipeTypes
  BY DEF Inv, Types
<1>6. At(t, "recv", None, "started")
  BY <1>3, <1>4 DEF ThrTypes, At, Only, Places
<1>7. Local(t, "recv", None, "started", held[Owner(t)])
  BY <1>2 DEF Local, AccPlaces, ClosePlaces
<1>8. Stays(t, "recv", "started") /\ "recv" \notin TokenPlaces
  BY <1>2 DEF Stays, Locked, ClosePlaces, TokenPlaces
<1>9. /\ \A q \in Pipe : (cache'[q] => cache[q]) /\ (q = old => ~cache'[q])
      /\ \A q \in Pipe : q # old => cache'[q] = cache[q] /\ (q \in taken' <=> q \in taken)
                                    /\ (event'[q] => event[q])
      /\ old \in Pipe => cache[old] /\ old # p
  <2>1. old \in Pipe => cache[old]
    BY DEF Inv, PipeInv, KeptP
  <2> QED
    BY <1>3, <1>5, <2>1, NoneIsNoPipe DEF PipeTypes
<1>10. Touches(X)
  <2>1. \A q \in Pipe \ X : SameCore(q) /\ SameHandles(q)
    <3> TAKE q \in Pipe \ X
    <3>1. q \in Pipe /\ q # old /\ q # p /\ s_pipes # q
      BY <1>x, NoneIsNoPipe
    <3>2. event'[q] = event[q] /\ timer'[q] = timer[q] /\ cached_sessions' # q
      BY <1>3, <3>1, NoneIsNoPipe
    <3> QED
      BY <1>3, <1>4, <1>9, <3>1, <3>2 DEF SameCore, SameHandles
  <2>2. MapTypes'
    <3>1. taken' \subseteq Pipe
      BY <1>r, <1>3, <1>5 DEF MapTypes
    <3> QED
      BY <1>3, <1>4, <1>5, <3>1 DEF MapTypes
  <2>3. AioTypes'
    <3>1. timer' \in [Pipe -> {"off", "armed", "due", "kicked", "stopped"}]
      BY <1>3, HandleResults DEF AioTypes
    <3> QED
      BY <1>4, <3>1 DEF AioTypes
  <2>4. PipeTypes'
    <3>1. event' \in [Pipe -> BOOLEAN]
      BY <1>3, <1>5 DEF PipeTypes
    <3>2. cache' \in [Pipe -> BOOLEAN]
      BY <1>3, <1>5 DEF PipeTypes
    <3> QED
      BY <1>4, <1>5, <3>1, <3>2 DEF PipeTypes
  <2>5. X \subseteq Pipe /\ \A x \in X : Touchable(x)
    BY <1>x, <1>5, SessionTouches DEF MapTypes
  <2> QED
    BY <1>4, <2>1, <2>2, <2>3, <2>4, <2>5 DEF Touches
<1>11. Only(t) /\ pc'[t] = "recv"
  BY <1>6 DEF At
<1>12. Tokens'
  BY <1>3, <1>4, <1>8, <1>9, <1>11, TokensStay
<1>13. ASSUME NEW x \in X
       PROVE  ListedP(x)' /\ EndedP(x)' /\ KeptP(x)'
  <2>0. x \in Pipe
    BY <1>10 DEF Touches
  <2>1. ListedP(x) /\ EndedP(x) /\ KeptP(x)
    BY <2>0 DEF Inv, PipeInv
  <2>2. Leaving(x)' <=> Leaving(x)
    BY <1>11, <2>0, LeavingSame
  <2>3. ListedP(x)' /\ EndedP(x)'
    BY <1>3, <1>4, <1>9, <2>0, <2>1, <2>2 DEF ListedP, EndedP
  <2>x. cached_sessions' # x /\ clean_start'[x] = clean_start[x] /\ notified'[x] = notified[x]
    BY <1>3, <1>4, <2>0, NoneIsNoPipe
  <2>4. CASE x # old
    <3>1. cache'[x] = cache[x] /\ (x \in taken' <=> x \in taken) /\ (event'[x] => event[x])
      BY <1>9, <2>0, <2>4
    <3> QED
      BY <2>1, <2>3, <2>x, <3>1 DEF KeptP
  <2>5. CASE x = old
    <3>1. cache[old] /\ clean_start[old] = 1 /\ old \notin taken /\ notified[old] = 0
      BY <1>9, <2>0, <2>1, <2>5, SessionTouches DEF KeptP
    <3>2. event'[old] <=> ~resume
      BY <1>3, <2>0, <2>5
    <3>3. old \in taken' => resume
      BY <1>3, <3>1
    <3>4. ~cache'[old]
      BY <1>9, <2>0, <2>5
    <3> QED
      BY <2>3, <2>5, <2>x, <3>1, <3>2, <3>3, <3>4 DEF KeptP
  <2> QED
    BY <2>3, <2>4, <2>5
<1>14. {tgt[t], None} \subseteq X \union {None}
  OBVIOUS
<1> QED
  BY <1>2, <1>6, <1>7, <1>8, <1>10, <1>12, <1>13, <1>14, TouchInv

-----------------------------------------------------------------------------
(* The steps of an accepting thread that take or give up the lock or a     *)
(* reference.                                                              *)

LEMMA AccOnly ==
    ASSUME NEW p \in Pipe, Only(Acc(p)), pc[Acc(p)] # "gone", pc'[Acc(p)] # "gone"
    PROVE  \A q \in Pipe :
             /\ pc'[Tmr(q)] = pc[Tmr(q)] /\ pc'[Rcv(q)] = pc[Rcv(q)]
             /\ q # p => /\ Creating(Acc(q))' <=> Creating(Acc(q))
                         /\ Alive(Acc(q))' <=> Alive(Acc(q))
                         /\ Fresh(q)' <=> Fresh(q)
                         /\ pc'[Acc(q)] = pc[Acc(q)] /\ held'[q] = held[q]
             /\ Leaving(q)' <=> Leaving(q)
<1> TAKE q \in Pipe
<1>1. Tmr(q) # Acc(p) /\ Rcv(q) # Acc(p) /\ (q # p => Acc(q) # Acc(p))
  BY ThreadFacts
<1>2. pc'[Tmr(q)] = pc[Tmr(q)] /\ pc'[Rcv(q)] = pc[Rcv(q)]
  BY <1>1, ThreadFacts DEF Only
<1>3. q # p => /\ pc'[Acc(q)] = pc[Acc(q)] /\ ret'[Acc(q)] = ret[Acc(q)]
               /\ held'[q] = held[q]
  BY <1>1, ThreadFacts DEF Only
<1>4. q # p => /\ Creating(Acc(q))' <=> Creating(Acc(q))
               /\ Alive(Acc(q))' <=> Alive(Acc(q))
               /\ Fresh(q)' <=> Fresh(q)
  BY <1>3 DEF Creating, Kicking, Alive, Fresh
<1>5. Leaving(q)' <=> Leaving(q)
  BY LeavingSame, ThreadFacts
<1> QED
  BY <1>2, <1>3, <1>4, <1>5

\* A thread gives up the reference to its own pipe, and is done.
LEMMA ReleaseInv ==
    ASSUME Inv, NEW t \in Thread, AddedClosed(t) \/ Started(t) \/ Drop(t)
    PROVE  Inv'
<1>1. pc[t] \in OwnPlaces /\ pc[t] \in {"added", "started", "drop"} /\ "done" \in Places
      /\ "done" \notin TokenPlaces /\ "done" \notin ClosePlaces
  BY DEF AddedClosed, Started, Drop, OwnPlaces, Places, TokenPlaces, ClosePlaces
<1> USE <1>1, OwnPlace
<1>p. PICK p \in Pipe : p = Owner(t)
  OBVIOUS
<1>2. t[1] = "acc" /\ t = Acc(p)
  BY <1>p, ThreadFacts DEF Local, TmrPlaces, RcvPlaces, ClosePlaces
<1> USE <1>p DEF map_vars, reap_vars, aio_vars, hist_vars
<1>3. p_ref' = [p_ref EXCEPT ![p] = p_ref[p] - 1] /\ Goto(t, "done")
  BY DEF AddedClosed, Started, Drop, Release, Set, Released
<1>4. /\ UNCHANGED <<map_vars, p_closed, cache, reap_vars, s_mx, clean_start, event, aio_vars, hist_vars>>
      /\ closed' \in [Pipe -> BOOLEAN] /\ \A q \in Pipe : closed'[q] => closed[q]
  BY DEF AddedClosed, Started, Drop, nano_vars, Set, Inv, Types, PipeTypes
<1>5. At(t, "done", None, ret[t])
  BY <1>3, GotoAt
<1>6. Only(t) /\ pc'[t] = "done" /\ held' = held /\ ThrTypes'
  BY <1>5 DEF At, Only
<1>7. p_ref \in [Pipe -> Nat] /\ p_ref[p] >= 1 /\ ~Fresh(p) /\ ~Fresh(p)' /\ Alive(Acc(p)) /\ ~Alive(Acc(p))'
      /\ ~Creating(Acc(p)) /\ ~Creating(Acc(p))'
  <2>1. ~Fresh(p) /\ Alive(Acc(p)) /\ ~Creating(Acc(p))
    BY <1>2 DEF Fresh, Alive, Creating, Kicking, ClosePlaces
  <2>2. ~Fresh(p)' /\ ~Alive(Acc(p))' /\ ~Creating(Acc(p))'
    BY <1>2, <1>6 DEF Fresh, Alive, Creating, Kicking, ClosePlaces
  <2> QED
    BY <2>1, <2>2, LockHolder DEF Inv, Types, PipeTypes
<1>8. \A q \in Pipe : p_ref'[q] = (IF q = p THEN p_ref[p] - 1 ELSE p_ref[q])
  BY <1>3, <1>7
<1>9. Types'
  <2>1. p_ref' \in [Pipe -> Nat]
    BY <1>3, <1>7
  <2>2. PipeTypes' /\ MapTypes'
    BY <1>4, <2>1 DEF Inv, Types, PipeTypes, MapTypes
  <2>3. AioTypes'
    BY <1>4 DEF AioTypes
  <2> QED
    BY <1>6, <2>2, <2>3 DEF Types
<1>10. Locals'
  <2>1. Local(t, "done", None, ret[t], held[Owner(t)])
    BY <1>2 DEF Local, AccPlaces, ClosePlaces
  <2> QED
    BY <1>5, <2>1, LocalsAt DEF Inv, At
<1>11. /\ HeldNow' = HeldNow
       /\ \A q \in Pipe : /\ pc'[Tmr(q)] = pc[Tmr(q)] /\ pc'[Rcv(q)] = pc[Rcv(q)]
                          /\ Creating(Acc(q))' <=> Creating(Acc(q))
                          /\ q # p => (Alive(Acc(q))' <=> Alive(Acc(q)))
                          /\ Fresh(q)' <=> Fresh(q)
                          /\ Leaving(q)' <=> Leaving(q)
                          /\ pc'[Acc(q)] = "none" <=> pc[Acc(q)] = "none"
  BY <1>2, <1>4, <1>6, <1>7, AccOnly DEF HeldNow
<1>12. Mutex'
  BY <1>4, <1>11 DEF Inv, Mutex
<1>13. Refs'
  <2>1. \A q \in Pipe : p_ref[q] = One(Alive(Acc(q))) + One(HeldNow = q)
    BY DEF Inv, Refs
  <2>2. p_ref[p] - 1 = One(HeldNow = p) /\ One(Alive(Acc(p)))' = 0
    BY <1>7, <2>1 DEF One
  <2>3. ASSUME NEW q \in Pipe PROVE p_ref'[q] = One(Alive(Acc(q)))' + One(HeldNow' = q)
    BY <1>8, <1>11, <2>1, <2>2, <2>3 DEF One
  <2> QED
    BY <2>3 DEF Refs, One
<1>14. Tokens'
  BY <1>4, <1>6, TokensStay
<1>15. Reaper'
  <2>1. Reaper /\ victim \in Pipe \union {None}
    BY DEF Inv, Types, MapTypes
  <2>2. victim # None => (Quieted(victim) => Quieted(victim)') /\ (p_ref[victim] = 0 => p_ref'[victim] = 0)
    BY <1>4, <1>7, <1>8, <1>11, <2>1 DEF Quieted
  <2> QED
    BY <1>4, <2>1, <2>2 DEF Reaper
<1>16. ASSUME NEW q \in Pipe
       PROVE  PipeInv(q)'
  <2>1. YoungP(q) /\ ListedP(q) /\ EndedP(q) /\ GoneP(q) /\ KeptP(q)
    BY DEF Inv, PipeInv
  <2>2. Quieted(q)' <=> Quieted(q)
    BY <1>4, <1>11 DEF Quieted
  <2>3. YoungP(q)'
    BY <1>4, <1>11, <2>1, <2>2 DEF YoungP
  <2>4. GoneP(q)'
    BY <1>4, <1>7, <1>8, <1>11, <2>1, <2>2 DEF GoneP
  <2>5. ListedP(q)' /\ EndedP(q)' /\ KeptP(q)'
    BY <1>4, <1>11, <2>1 DEF ListedP, EndedP, KeptP
  <2> QED
    BY <2>3, <2>4, <2>5 DEF PipeInv
<1> QED
  BY <1>9, <1>10, <1>12, <1>13, <1>14, <1>15, <1>16 DEF Inv

\* The reference to the older pipe is given up.
LEMMA KickDoneInv ==
    ASSUME Inv, NEW t \in Thread, KickDone(t)
    PROVE  Inv'
<1>1. pc[t] = "rele" /\ "init" \in Places /\ "init" \notin TokenPlaces /\ {"rele", "init"} \cap ClosePlaces = {}
  BY DEF KickDone, Places, TokenPlaces, ClosePlaces
<1>2. Local(t, pc[t], tgt[t], ret[t], held[Owner(t)]) /\ Owner(t) \in Pipe
  BY ThreadFacts DEF Inv, Locals
<1>p. PICK p \in Pipe : p = Owner(t)
  BY <1>2
<1>3. t[1] = "acc" /\ t = Acc(p) /\ tgt[t] = None
  BY <1>1, <1>2, <1>p, ThreadFacts DEF Local, TmrPlaces, RcvPlaces
<1> USE <1>p DEF map_vars, reap_vars, nano_vars, aio_vars, hist_vars
<1>4. s_mx = p /\ HeldNow = held[p] /\ held[p] \in Pipe
  BY <1>1, <1>3, LockHolder DEF Kicking
<1>o. PICK old \in Pipe : old = held[p]
  BY <1>4
<1>5. /\ p_ref' = [p_ref EXCEPT ![old] = p_ref[old] - 1] /\ held' = [held EXCEPT ![p] = None]
      /\ pc' = [pc EXCEPT ![t] = "init"] /\ UNCHANGED <<tgt, ret>>
      /\ UNCHANGED <<map_vars, p_closed, cache, reap_vars, s_mx, nano_vars, aio_vars, hist_vars>>
  BY <1>o DEF KickDone, Set, Released
<1>6. ThrTypes /\ MapTypes /\ PipeTypes /\ AioTypes
  BY DEF Inv, Types
<1>7. Only(t) /\ pc'[t] = "init" /\ tgt'[t] = None /\ held'[p] = None
  BY <1>1, <1>3, <1>5, <1>6 DEF Only, ThrTypes
<1>8. p_ref[old] >= 1 /\ p_ref \in [Pipe -> Nat] /\ HeldNow = old /\ HeldNow' = None
  BY <1>o, <1>4, <1>5, <1>6, <1>7, LockHolder, NoneIsNoPipe DEF PipeTypes, HeldNow
<1>9. \A q \in Pipe : p_ref'[q] = (IF q = old THEN p_ref[old] - 1 ELSE p_ref[q])
  BY <1>5, <1>8
<1>10. Types'
  <2>1. p_ref' \in [Pipe -> Nat]
    BY <1>5, <1>8
  <2>2. PipeTypes' /\ MapTypes'
    BY <1>5, <1>6, <2>1 DEF PipeTypes, MapTypes
  <2>3. AioTypes'
    BY <1>5, <1>6 DEF AioTypes
  <2> QED
    BY <1>7, <2>2, <2>3 DEF Types, Only
<1>11. Locals'
  <2>1. Local(t, pc'[t], tgt'[t], ret'[t], held'[Owner(t)])
    BY <1>1, <1>3, <1>7 DEF Local, AccPlaces
  <2> QED
    BY <1>7, <2>1, LocalsAt DEF Inv
<1>12. \A q \in Pipe : /\ pc'[Tmr(q)] = pc[Tmr(q)] /\ pc'[Rcv(q)] = pc[Rcv(q)]
                       /\ Creating(Acc(q))' <=> Creating(Acc(q))
                       /\ Alive(Acc(q))' <=> Alive(Acc(q))
                       /\ Fresh(q)' <=> Fresh(q)
                       /\ Leaving(q)' <=> Leaving(q)
                       /\ pc'[Acc(q)] = "none" <=> pc[Acc(q)] = "none"
  <2>1. Creating(Acc(p))' /\ Creating(Acc(p)) /\ Alive(Acc(p))' /\ Alive(Acc(p)) /\ Fresh(p)' /\ Fresh(p)
    BY <1>1, <1>3, <1>7 DEF Creating, Kicking, Alive, Fresh
  <2>2. pc[Acc(p)] \notin {"gone", "none"} /\ pc'[Acc(p)] \notin {"gone", "none"}
    BY <1>1, <1>3, <1>7
  <2> QED
    BY <1>3, <1>7, <2>1, <2>2, AccOnly
<1>13. Mutex'
  BY <1>5, <1>12 DEF Inv, Mutex
<1>14. Refs'
  <2>1. \A q \in Pipe : p_ref[q] = One(Alive(Acc(q))) + One(HeldNow = q)
    BY DEF Inv, Refs
  <2>2. p_ref[old] - 1 = One(Alive(Acc(old)))
    BY <1>8, <2>1 DEF One
  <2>3. ASSUME NEW q \in Pipe PROVE p_ref'[q] = One(Alive(Acc(q))) + One(HeldNow' = q)
    <3>1. HeldNow' # q
      BY <1>8, NoneIsNoPipe
    <3>2. CASE q = old
      BY <1>9, <2>2, <3>1, <3>2 DEF One
    <3>3. CASE q # old
      BY <1>8, <1>9, <2>1, <3>1, <3>3 DEF One
    <3> QED
      BY <3>2, <3>3
  <2> QED
    BY <1>12, <2>3 DEF Refs, One
<1>15. Tokens'
  BY <1>1, <1>5, <1>7, TokensStay
<1>16. Reaper'
  <2>1. Reaper /\ victim \in Pipe \union {None}
    BY DEF Inv, Types, MapTypes
  <2>2. victim # None => (Quieted(victim) => Quieted(victim)') /\ (p_ref[victim] = 0 => p_ref'[victim] = 0)
    BY <1>5, <1>8, <1>9, <1>12, <2>1 DEF Quieted
  <2> QED
    BY <1>5, <2>1, <2>2 DEF Reaper
<1>17. ASSUME NEW q \in Pipe
       PROVE  PipeInv(q)'
  <2>1. YoungP(q) /\ ListedP(q) /\ EndedP(q) /\ GoneP(q) /\ KeptP(q)
    BY DEF Inv, PipeInv
  <2>2. Quieted(q)' <=> Quieted(q)
    BY <1>5, <1>12 DEF Quieted
  <2>3. YoungP(q)'
    BY <1>5, <1>8, <1>12, <2>1, <2>2, NoneIsNoPipe DEF YoungP
  <2>4. GoneP(q)'
    BY <1>5, <1>8, <1>9, <2>1, <2>2 DEF GoneP
  <2>5. ListedP(q)' /\ EndedP(q)' /\ KeptP(q)'
    BY <1>5, <1>12, <2>1 DEF ListedP, EndedP, KeptP
  <2> QED
    BY <2>3, <2>4, <2>5 DEF PipeInv
<1> QED
  BY <1>10, <1>11, <1>13, <1>14, <1>15, <1>16, <1>17 DEF Inv

\* The pipe is entered in the lists, and the lock is given up.
LEMMA InitPipeInv ==
    ASSUME Inv, NEW t \in Thread, nano_pipe_init(t)
    PROVE  Inv'
<1>1. /\ pc[t] = "init" /\ "added" \in Places /\ "added" \notin TokenPlaces
      /\ {"init", "added"} \cap ClosePlaces = {}
  BY DEF nano_pipe_init, Places, TokenPlaces, ClosePlaces
<1>2. Local(t, pc[t], tgt[t], ret[t], held[Owner(t)]) /\ Owner(t) \in Pipe
  BY ThreadFacts DEF Inv, Locals
<1>p. PICK p \in Pipe : p = Owner(t)
  BY <1>2
<1>3. t[1] = "acc" /\ t = Acc(p) /\ tgt[t] = None /\ held[p] = None
  BY <1>1, <1>2, <1>p, ThreadFacts DEF Local, TmrPlaces, RcvPlaces
<1> USE <1>p DEF map_vars, core_vars, reap_vars, aio_vars, hist_vars
<1>4. Creating(Acc(p)) /\ s_mx = p /\ Fresh(p)
  BY <1>1, <1>3 DEF Inv, Mutex, Creating, Fresh
<1>5. /\ event' = [event EXCEPT ![p] = TRUE] /\ s_mx' = None /\ Goto(t, "added")
      /\ UNCHANGED <<map_vars, core_vars, reap_vars, clean_start, closed, aio_vars, hist_vars>>
  BY DEF nano_pipe_init, Set
<1>6. ThrTypes /\ MapTypes /\ PipeTypes /\ AioTypes
  BY DEF Inv, Types
<1>7. At(t, "added", None, ret[t])
  BY <1>1, <1>3, <1>5, <1>6, GotoAt
<1>8. Only(t) /\ pc'[t] = "added" /\ held' = held /\ ThrTypes'
  BY <1>7 DEF At, Only
<1>9. Types'
  <2>1. event' \in [Pipe -> BOOLEAN]
    BY <1>5, <1>6 DEF PipeTypes
  <2>2. PipeTypes' /\ MapTypes'
    BY <1>5, <1>6, <2>1 DEF PipeTypes, MapTypes
  <2>3. AioTypes'
    BY <1>5, <1>6 DEF AioTypes
  <2> QED
    BY <1>8, <2>2, <2>3 DEF Types
<1>10. Locals'
  <2>1. Local(t, "added", None, ret[t], held[Owner(t)])
    BY <1>1, <1>3 DEF Local, AccPlaces
  <2> QED
    BY <1>7, <2>1, LocalsAt DEF Inv, At
<1>11. HeldNow = None /\ HeldNow' = None
  BY <1>3, <1>4, <1>5, NoneIsNoPipe DEF HeldNow
<1>12. /\ ~Creating(Acc(p))' /\ Alive(Acc(p))' /\ Alive(Acc(p)) /\ ~Fresh(p)'
       /\ pc[Acc(p)] # "none" /\ pc'[Acc(p)] # "none"
  BY <1>1, <1>3, <1>8 DEF Creating, Kicking, Alive, Fresh
<1>13. \A q \in Pipe : /\ pc'[Tmr(q)] = pc[Tmr(q)] /\ pc'[Rcv(q)] = pc[Rcv(q)]
                       /\ q # p => (Creating(Acc(q))' <=> Creating(Acc(q)))
                       /\ Alive(Acc(q))' <=> Alive(Acc(q))
                       /\ q # p => (Fresh(q)' <=> Fresh(q))
                       /\ Leaving(q)' <=> Leaving(q)
                       /\ pc'[Acc(q)] = "none" <=> pc[Acc(q)] = "none"
  BY <1>1, <1>3, <1>8, <1>12, AccOnly
<1>14. Mutex'
  BY <1>4, <1>5, <1>12, <1>13, NoneIsNoPipe DEF Inv, Mutex
<1>15. Refs'
  BY <1>5, <1>11, <1>13 DEF Inv, Refs, One
<1>16. Tokens'
  BY <1>1, <1>5, <1>8, TokensStay
<1>17. Reaper'
  <2>1. Reaper /\ victim \in Pipe \union {None}
    BY DEF Inv, Types, MapTypes
  <2>2. victim # None => (Quieted(victim) => Quieted(victim)')
    BY <1>5, <1>13, <2>1 DEF Quieted
  <2> QED
    BY <1>5, <2>1, <2>2 DEF Reaper
<1>18. ASSUME NEW q \in Pipe
       PROVE  PipeInv(q)'
  <2>1. YoungP(q) /\ ListedP(q) /\ EndedP(q) /\ GoneP(q) /\ KeptP(q)
    BY DEF Inv, PipeInv
  <2>2. Quieted(q)' <=> Quieted(q)
    BY <1>5, <1>13 DEF Quieted
  <2>3. YoungP(q)'
    BY <1>5, <1>11, <1>12, <1>13, <2>1, <2>2, NoneIsNoPipe DEF YoungP
  <2>4. GoneP(q)'
    BY <1>5, <2>1, <2>2 DEF GoneP
  <2>5. ListedP(q)' /\ EndedP(q)'
    BY <1>5, <1>13, <2>1 DEF ListedP, EndedP
  <2>6. KeptP(q)'
    <3>1. CASE q = p
      BY <1>4, <1>5, <2>1, <3>1 DEF YoungP, KeptP
    <3>2. CASE q # p
      BY <1>5, <1>6, <2>1, <3>2 DEF KeptP, PipeTypes
    <3> QED
      BY <3>1, <3>2
  <2> QED
    BY <2>3, <2>4, <2>5, <2>6 DEF PipeInv
<1> QED
  BY <1>9, <1>10, <1>14, <1>15, <1>16, <1>17, <1>18 DEF Inv

\* A pipe is made, in the place of the one that was registered.
LEMMA CreateInv ==
    ASSUME Inv, NEW t \in Thread, pipe_create(t)
    PROVE  Inv'
<1>1. Local(t, pc[t], tgt[t], ret[t], held[Owner(t)]) /\ Owner(t) \in Pipe /\ pc[t] = "none"
  BY ThreadFacts DEF Inv, Locals, pipe_create
<1>p. PICK p \in Pipe : p = Owner(t)
  BY <1>1
<1>3. t[1] = "acc" /\ t = Acc(p) /\ tgt[t] = None /\ held[p] = None
  BY <1>1, <1>p, ThreadFacts DEF Local, TmrPlaces, RcvPlaces, ClosePlaces
<1>4. ThrTypes /\ MapTypes /\ PipeTypes /\ AioTypes
  BY DEF Inv, Types
<1>o. PICK old \in Pipe \union {None} : old = pipes
  BY <1>4 DEF MapTypes
<1>s. PICK s \in {"init", "kick"} : pc' = [pc EXCEPT ![t] = s] /\ (s = "init" <=> old = None)
  BY <1>o DEF pipe_create, Set
<1>c. PICK c \in {0, 1} : clean_start' = [clean_start EXCEPT ![p] = c]
  BY <1>p, CleanAssumption DEF pipe_create, Set
<1> USE <1>p, <1>o DEF reap_vars, hist_vars
<1>5. /\ s_mx = None /\ s_mx' = p /\ pipes' = p
      /\ p_ref' = [q \in Pipe |-> IF q = p THEN 1
                                  ELSE IF q = old THEN p_ref[q] + 1 ELSE p_ref[q]]
      /\ conn' = [conn EXCEPT ![p] = TRUE] /\ held' = [held EXCEPT ![p] = old]
      /\ UNCHANGED <<s_pipes, cached_sessions, p_closed, cache, reap_vars, event, closed,
                      timer, recv, tstop, rstop, tgt, ret, hist_vars>>
  BY DEF pipe_create, Set, Hold
<1>6. s \in Places /\ s \notin TokenPlaces /\ s \notin ClosePlaces /\ s \in AccPlaces
  BY DEF Places, TokenPlaces, ClosePlaces, AccPlaces
<1>7. Only(t) /\ pc'[t] = s /\ tgt'[t] = None /\ held'[p] = old
  BY <1>s, <1>3, <1>4, <1>5, <1>6 DEF Only, ThrTypes
<1>8. Fresh(p) /\ old # p /\ pc[Acc(p)] = "none" /\ ~Alive(Acc(p))
  <2>1. Fresh(p) /\ pc[Acc(p)] = "none" /\ ~Alive(Acc(p))
    BY <1>1, <1>3 DEF Fresh, Alive
  <2> QED
    BY <2>1 DEF Inv, PipeInv, YoungP
<1>9. HeldNow = None /\ HeldNow' = old
  BY <1>5, <1>7, NoneIsNoPipe DEF HeldNow
<1>10. Types'
  <2>1. p_ref' \in [Pipe -> Nat] /\ clean_start' \in [Pipe -> {0, 1}] /\ conn' \in [Pipe -> BOOLEAN]
    BY <1>c, <1>4, <1>5 DEF PipeTypes, AioTypes
  <2>2. PipeTypes' /\ MapTypes'
    BY <1>4, <1>5, <2>1 DEF PipeTypes, MapTypes
  <2>3. AioTypes'
    BY <1>4, <1>5, <2>1 DEF AioTypes
  <2> QED
    BY <1>7, <2>2, <2>3 DEF Types, Only
<1>11. Locals'
  <2>1. Local(t, pc'[t], tgt'[t], ret'[t], held'[Owner(t)])
    BY <1>s, <1>3, <1>6, <1>7, NoneIsNoPipe DEF Local
  <2> QED
    BY <1>7, <2>1, LocalsAt DEF Inv
<1>12. Creating(Acc(p))' /\ Alive(Acc(p))' /\ Fresh(p)' /\ pc'[Acc(p)] \notin {"none", "gone"}
  BY <1>s, <1>3, <1>7 DEF Creating, Kicking, Alive, Fresh
<1>13. \A q \in Pipe : /\ pc'[Tmr(q)] = pc[Tmr(q)] /\ pc'[Rcv(q)] = pc[Rcv(q)]
                       /\ q # p => /\ Creating(Acc(q))' <=> Creating(Acc(q))
                                   /\ Alive(Acc(q))' <=> Alive(Acc(q))
                                   /\ pc'[Acc(q)] = pc[Acc(q)]
                       /\ Fresh(q)' <=> Fresh(q)
                       /\ Leaving(q)' <=> Leaving(q)
  BY <1>3, <1>7, <1>8, <1>12, AccOnly
<1>14. \A q \in Pipe : ~Creating(Acc(q))
  BY <1>5, NoneIsNoPipe DEF Inv, Mutex
<1>15. Mutex'
  BY <1>5, <1>12, <1>13, <1>14 DEF Mutex
<1>16. Refs'
  <2>1. \A q \in Pipe : p_ref[q] = One(Alive(Acc(q)))
    BY <1>9, NoneIsNoPipe DEF Inv, Refs, One
  <2>2. ASSUME NEW q \in Pipe PROVE p_ref'[q] = One(Alive(Acc(q)))' + One(HeldNow' = q)
    <3>1. CASE q = p
      BY <1>5, <1>8, <1>9, <1>12, <3>1 DEF One
    <3>2. CASE q # p /\ q = old
      BY <1>5, <1>9, <1>13, <2>1, <3>2 DEF One
    <3>3. CASE q # p /\ q # old
      BY <1>5, <1>9, <1>13, <2>1, <3>3 DEF One
    <3> QED
      BY <3>1, <3>2, <3>3
  <2> QED
    BY <2>2 DEF Refs, One
<1>17. Tokens'
  BY <1>5, <1>6, <1>7, TokensStay
<1>18. Reaper'
  <2>1. Reaper /\ victim \in Pipe \union {None} /\ victim # p
    BY <1>8, NoneIsNoPipe DEF Inv, Types, MapTypes, PipeInv, YoungP
  <2>2. victim # None => (Quieted(victim) => Quieted(victim)')
    BY <1>5, <1>13, <2>1 DEF Quieted
  <2>3. victim # None => pipes' # victim /\ p_ref'[victim] = p_ref[victim]
    BY <1>5, <2>1 DEF Reaper
  <2> QED
    BY <1>5, <2>1, <2>2, <2>3 DEF Reaper
<1>19. ASSUME NEW q \in Pipe
       PROVE  PipeInv(q)'
  <2>1. YoungP(q) /\ ListedP(q) /\ EndedP(q) /\ GoneP(q) /\ KeptP(q)
    BY DEF Inv, PipeInv
  <2>2. Quieted(q)' <=> Quieted(q)
    BY <1>5, <1>13 DEF Quieted
  <2>3. YoungP(q)'
    <3>1. Fresh(q) => pc[Acc(q)] = "none" /\ HeldNow' # q
      BY <1>9, <1>14, <2>1 DEF Fresh, YoungP
    <3>2. pc'[Acc(q)] = "none" => pipes' # q
      BY <1>5, <1>12
    <3> QED
      BY <1>5, <1>13, <2>1, <2>2, <3>1, <3>2 DEF YoungP
  <2>4. GoneP(q)'
    <3>1. freed[q] => q # p /\ q # old
      BY <1>8, <2>1 DEF YoungP, GoneP
    <3>2. freed[q] => p_ref'[q] = p_ref[q] /\ pipes' # q
      BY <1>5, <3>1
    <3> QED
      BY <1>5, <2>1, <2>2, <3>2 DEF GoneP
  <2>5. ListedP(q)' /\ EndedP(q)'
    BY <1>5, <1>13, <2>1 DEF ListedP, EndedP
  <2>6. KeptP(q)'
    <3>1. CASE q = p
      BY <1>5, <1>8, <2>1, <3>1 DEF YoungP, KeptP
    <3>2. CASE q # p
      BY <1>c, <1>4, <1>5, <2>1, <3>2 DEF KeptP, PipeTypes
    <3> QED
      BY <3>1, <3>2
  <2> QED
    BY <2>3, <2>4, <2>5, <2>6 DEF PipeInv
<1> QED
  BY <1>10, <1>11, <1>15, <1>16, <1>17, <1>18, <1>19 DEF Inv

-----------------------------------------------------------------------------
(* The reaper.                                                             *)

LEMMA NoThread ==
    ASSUME Inv, UNCHANGED <<thr_vars, s_mx, p_ref>>
    PROVE  /\ Locals' /\ Mutex' /\ Refs' /\ ThrTypes' /\ HeldNow' = HeldNow
           /\ \A p \in Pipe : /\ Fresh(p)' <=> Fresh(p)
                              /\ Leaving(p)' <=> Leaving(p)
<1> USE DEF thr_vars
<1>1. Locals' /\ Mutex' /\ ThrTypes' /\ HeldNow' = HeldNow
  BY DEF Inv, Locals, Mutex, Creating, Kicking, Types, ThrTypes, HeldNow
<1>2. Refs'
  BY DEF Inv, Refs, Alive, One, HeldNow
<1>3. \A p \in Pipe : (Fresh(p)' <=> Fresh(p)) /\ (Leaving(p)' <=> Leaving(p))
  BY DEF Fresh, Creating, Kicking, Leaving
<1> QED
  BY <1>1, <1>2, <1>3

\* The pipe the reaper is at is known to nobody but its callbacks.
LEMMA VictimFacts ==
    ASSUME Inv, NEW p \in Pipe, victim = p
    PROVE  /\ ~Fresh(p) /\ ~freed[p] /\ p_closed[p] /\ ~cache[p] /\ p \notin reaping
           /\ s_pipes # p /\ pipes # p /\ cached_sessions # p
           /\ \A t \in Thread : pc[t] \in TokenPlaces => tgt[t] # p
BY NoneIsNoPipe DEF Inv, PipeInv, YoungP, GoneP, ListedP, KeptP, Reaper, Tokens

LEMMA ReapNextInv ==
    ASSUME Inv, NEW p \in Pipe, ReapNext(p)
    PROVE  Inv'
<1>1. ~cache[p] /\ victim = None /\ ~Fresh(p) /\ ~freed[p] /\ p \in reaping
      /\ p_closed[p] /\ s_pipes # p /\ rpc = "idle"
  BY DEF ReapNext, Inv, PipeInv, ListedP, YoungP, GoneP, Reaper
<1> USE DEF core_vars, nano_vars, aio_vars, hist_vars
<1>2. /\ reaping' = reaping \ {p} /\ victim' = p /\ rpc' = "drain"
      /\ pipes' = IF pipes = p THEN None ELSE pipes
      /\ UNCHANGED <<s_pipes, cached_sessions, core_vars, freed, s_mx, nano_vars, aio_vars,
                     thr_vars, hist_vars>>
  BY <1>1 DEF ReapNext
<1>3. /\ Locals' /\ Mutex' /\ Refs' /\ ThrTypes' /\ HeldNow' = HeldNow
      /\ \A q \in Pipe : (Fresh(q)' <=> Fresh(q)) /\ (Leaving(q)' <=> Leaving(q))
  BY <1>2, NoThread
<1>4. pc' = pc /\ tgt' = tgt
  BY <1>2 DEF thr_vars
<1>5. Types'
  <2>1. MapTypes'
    BY <1>2 DEF Inv, Types, MapTypes
  <2>2. PipeTypes' /\ AioTypes'
    BY <1>2 DEF Inv, Types, PipeTypes, AioTypes
  <2> QED
    BY <1>3, <2>1, <2>2 DEF Types
<1>6. Tokens'
  BY <1>1, <1>2, <1>4 DEF Inv, Tokens
<1>7. Reaper'
  BY <1>2, NoneIsNoPipe DEF Reaper
<1>8. ASSUME NEW q \in Pipe
      PROVE  PipeInv(q)'
  <2>1. YoungP(q) /\ ListedP(q) /\ EndedP(q) /\ GoneP(q) /\ KeptP(q)
    BY DEF Inv, PipeInv
  <2>2. Quieted(q)' <=> Quieted(q)
    BY <1>2, <1>4 DEF Quieted
  <2>3. YoungP(q)'
    <3>1. pipes' = q => pipes = q
      BY <1>2, NoneIsNoPipe
    <3> QED
      BY <1>1, <1>2, <1>3, <1>4, <2>1, <2>2, <3>1 DEF YoungP
  <2>4. GoneP(q)'
    <3>1. pipes' = q => pipes = q
      BY <1>2, NoneIsNoPipe
    <3> QED
      BY <1>1, <1>2, <2>1, <2>2, <3>1 DEF GoneP
  <2>5. ListedP(q)' /\ EndedP(q)' /\ KeptP(q)'
    BY <1>1, <1>2, <1>3, <2>1, NoneIsNoPipe DEF ListedP, EndedP, KeptP
  <2> QED
    BY <2>3, <2>4, <2>5 DEF PipeInv
<1> QED
  BY <1>3, <1>5, <1>6, <1>7, <1>8 DEF Inv

\* The reaper goes on with its pipe p, whose handles it may stop.
LEMMA ReapGoes ==
    ASSUME Inv, NEW p \in Pipe, victim = p, rpc' \in {"stop", "wait", "fini"},
           p_ref[p] = 0, AioTypes', \A q \in Pipe \ {p} : SameHandles(q),
           rpc' \in {"wait", "fini"} => tstop'[p] /\ rstop'[p],
           rpc' = "fini" => Quieted(p)' /\ recv'[p] \in {"off", "parked"},
           UNCHANGED <<map_vars, core_vars, reaping, victim, freed, s_mx, nano_vars,
                       thr_vars, hist_vars>>
    PROVE  Inv'
<1> USE DEF map_vars, core_vars, nano_vars, hist_vars
<1>1. /\ Locals' /\ Mutex' /\ Refs' /\ ThrTypes' /\ HeldNow' = HeldNow
      /\ \A q \in Pipe : (Fresh(q)' <=> Fresh(q)) /\ (Leaving(q)' <=> Leaving(q))
  BY NoThread
<1>2. pc' = pc /\ tgt' = tgt
  BY DEF thr_vars
<1>3. Types'
  BY <1>1 DEF Inv, Types, MapTypes, PipeTypes
<1>4. Tokens'
  BY <1>2 DEF Inv, Tokens
<1>5. Reaper'
  BY NoneIsNoPipe, VictimFacts DEF Reaper
<1>6. ASSUME NEW q \in Pipe
      PROVE  PipeInv(q)'
  <2>1. YoungP(q) /\ ListedP(q) /\ EndedP(q) /\ GoneP(q) /\ KeptP(q)
    BY DEF Inv, PipeInv
  <2>2. ListedP(q)' /\ EndedP(q)' /\ KeptP(q)'
    BY <1>1, <2>1 DEF ListedP, EndedP, KeptP
  <2>3. CASE q = p
    BY <1>1, <2>2, <2>3, VictimFacts DEF PipeInv, YoungP, GoneP
  <2>4. CASE q # p
    <3>1. SameHandles(q) /\ (Quieted(q)' <=> Quieted(q))
      BY <1>2, <2>4 DEF SameHandles, Quieted
    <3>2. YoungP(q)'
      BY <1>1, <1>2, <2>1, <3>1 DEF YoungP, SameHandles
    <3>3. GoneP(q)'
      BY <2>1, <3>1 DEF GoneP, SameHandles
    <3> QED
      BY <2>2, <3>2, <3>3 DEF PipeInv
  <2> QED
    BY <2>3, <2>4
<1> QED
  BY <1>1, <1>3, <1>4, <1>5, <1>6 DEF Inv

LEMMA ReapGoesInv ==
    ASSUME Inv, ReapDrain \/ ReapStop \/ ReapWait
    PROVE  Inv'
<1>p. PICK p \in Pipe : victim = p
  BY DEF Inv, Types, MapTypes, Reaper, ReapDrain, ReapStop, ReapWait
<1> USE <1>p
<1>1. ~cache[p] /\ Reaper /\ AioTypes /\ p # None
  BY VictimFacts, NoneIsNoPipe DEF Inv, Types
<1>2. CASE ReapDrain
  <2>1. rpc' = "stop" /\ p_ref[p] = 0 /\ UNCHANGED aio_vars
    BY <1>2 DEF ReapDrain, Drained
  <2>2. AioTypes' /\ \A q \in Pipe \ {p} : SameHandles(q)
    BY <1>1, <2>1 DEF AioTypes, SameHandles, aio_vars
  <2> QED
    BY <1>2, <2>1, <2>2, ReapGoes DEF ReapDrain
<1>3. CASE ReapStop
  <2>1. /\ rpc' = "wait" /\ p_ref[p] = 0
        /\ tstop' = [tstop EXCEPT ![p] = TRUE] /\ rstop' = [rstop EXCEPT ![p] = TRUE]
        /\ timer' = [timer EXCEPT ![p] = Stopped(p)] /\ recv' = [recv EXCEPT ![p] = RecvFailed(p)]
        /\ conn' = conn
    BY <1>1, <1>3 DEF ReapStop, Set, Reaper
  <2>2. AioTypes'
    BY <1>1, <2>1, HandleResults DEF AioTypes
  <2>3. \A q \in Pipe \ {p} : SameHandles(q)
    BY <1>1, <2>1 DEF AioTypes, SameHandles
  <2>4. tstop'[p] /\ rstop'[p]
    BY <1>1, <2>1 DEF AioTypes
  <2> QED
    BY <1>3, <2>1, <2>2, <2>3, <2>4, ReapGoes DEF ReapStop
<1>4. CASE ReapWait
  <2>1. rpc' = "fini" /\ p_ref[p] = 0 /\ UNCHANGED aio_vars /\ tstop[p] /\ rstop[p]
        /\ timer[p] = "off" /\ recv[p] \in {"off", "parked"}
        /\ pc[Tmr(p)] \in {"none", "idle", "done"} /\ pc[Rcv(p)] \in {"none", "idle", "done"}
    BY <1>1, <1>4 DEF ReapWait, Reaper, Idle, Quiet, Tmr, Rcv
  <2>2. AioTypes' /\ (\A q \in Pipe \ {p} : SameHandles(q)) /\ tstop'[p] /\ rstop'[p]
        /\ timer'[p] = "off" /\ recv'[p] = recv[p]
    BY <1>1, <2>1 DEF AioTypes, SameHandles, aio_vars
  <2>3. pc[Tmr(p)] = "idle" /\ pc[Rcv(p)] = "idle"
    <3>1. pc[Tmr(p)] \in TmrPlaces /\ pc[Rcv(p)] \in RcvPlaces
      BY ThreadFacts DEF Inv, Locals, Local
    <3> QED
      BY <2>1, <3>1 DEF TmrPlaces, RcvPlaces, ClosePlaces
  <2>4. pc' = pc
    BY <1>4 DEF ReapWait, thr_vars
  <2>5. Quieted(p)'
    BY <2>2, <2>3, <2>4 DEF Quieted
  <2> QED
    BY <1>4, <2>1, <2>2, <2>5, ReapGoes DEF ReapWait
<1> QED
  BY <1>2, <1>3, <1>4

LEMMA ReapFiniInv ==
    ASSUME Inv, ReapFini
    PROVE  Inv'
<1>p. PICK p \in Pipe : victim = p
  BY DEF Inv, Types, MapTypes, Reaper, ReapFini
<1> USE <1>p DEF map_vars
<1>1. /\ ~cache[p] /\ Reaper /\ AioTypes /\ PipeTypes /\ MapTypes
      /\ p_ref[p] = 0 /\ Quieted(p) /\ recv[p] \in {"off", "parked"}
      /\ p \notin reaping /\ pipes # p /\ s_pipes # p /\ cached_sessions # p /\ ~Fresh(p)
  BY VictimFacts, NoneIsNoPipe DEF Inv, Types, Reaper, ReapFini
<1>2. /\ freed' = [freed EXCEPT ![p] = TRUE]
      /\ p_closed' = [p_closed EXCEPT ![p] = FALSE] /\ cache' = [cache EXCEPT ![p] = FALSE]
      /\ clean_start' = [clean_start EXCEPT ![p] = 1]
      /\ event' = [event EXCEPT ![p] = FALSE] /\ closed' = [closed EXCEPT ![p] = FALSE]
      /\ recv' = [recv EXCEPT ![p] = Unparked(p)]
      /\ tstop' = [tstop EXCEPT ![p] = FALSE] /\ rstop' = [rstop EXCEPT ![p] = FALSE]
      /\ conn' = [conn EXCEPT ![p] = FALSE]
      /\ taken' = taken \ {p} /\ notified' = [notified EXCEPT ![p] = 0]
      /\ victim' = None /\ rpc' = "idle"
      /\ UNCHANGED <<map_vars, p_ref, reaping, s_mx, timer, thr_vars>>
  BY <1>1 DEF ReapFini, Set
<1>3. /\ Locals' /\ Mutex' /\ Refs' /\ ThrTypes' /\ HeldNow' = HeldNow
      /\ \A q \in Pipe : (Fresh(q)' <=> Fresh(q)) /\ (Leaving(q)' <=> Leaving(q))
  BY <1>2, NoThread
<1>4. pc' = pc /\ tgt' = tgt
  BY <1>2 DEF thr_vars
<1>5. Types'
  <2>1. MapTypes'
    BY <1>1, <1>2 DEF MapTypes
  <2>2. PipeTypes'
    BY <1>1, <1>2 DEF PipeTypes
  <2>3. AioTypes'
    BY <1>1, <1>2, HandleResults DEF AioTypes
  <2> QED
    BY <1>3, <2>1, <2>2, <2>3 DEF Types
<1>6. \A q \in Pipe : q # p =>
        /\ freed'[q] = freed[q] /\ p_closed'[q] = p_closed[q] /\ cache'[q] = cache[q]
        /\ clean_start'[q] = clean_start[q] /\ event'[q] = event[q] /\ closed'[q] = closed[q]
        /\ recv'[q] = recv[q] /\ notified'[q] = notified[q] /\ (q \in taken' <=> q \in taken)
  BY <1>1, <1>2 DEF PipeTypes, AioTypes
<1>7. /\ freed'[p] /\ ~p_closed'[p] /\ ~cache'[p] /\ ~closed'[p] /\ p \notin taken'
      /\ notified'[p] = 0 /\ recv'[p] = "off"
  BY <1>1, <1>2 DEF PipeTypes, AioTypes, Unparked
<1>8. Tokens'
  <2>1. \A t \in Thread : pc[t] \in TokenPlaces => tgt[t] \in Pipe /\ tgt[t] # p
    BY TokenFacts, VictimFacts
  <2>2. \A t \in Thread : pc[t] \in TokenPlaces =>
          p_closed'[tgt[t]] = p_closed[tgt[t]] /\ cache'[tgt[t]] = cache[tgt[t]] /\ victim' # tgt[t]
    BY <1>2, <1>6, <2>1, NoneIsNoPipe
  <2> QED
    BY <1>2, <1>4, <2>2 DEF Inv, Tokens
<1>9. Reaper'
  BY <1>2 DEF Reaper
<1>10. ASSUME NEW q \in Pipe
      PROVE  PipeInv(q)'
  <2>1. YoungP(q) /\ ListedP(q) /\ EndedP(q) /\ GoneP(q) /\ KeptP(q)
    BY DEF Inv, PipeInv
  <2>2. Quieted(q)' <=> Quieted(q)
    BY <1>2, <1>4 DEF Quieted
  <2>3. CASE q = p
    <3>1. YoungP(q)' /\ ListedP(q)' /\ EndedP(q)'
      BY <1>1, <1>2, <1>3, <1>7, <2>3, NoneIsNoPipe DEF YoungP, ListedP, EndedP
    <3>2. GoneP(q)'
      BY <1>1, <1>2, <1>7, <2>2, <2>3, NoneIsNoPipe DEF GoneP
    <3>3. KeptP(q)'
      BY <1>1, <1>2, <1>7, <2>3 DEF KeptP
    <3> QED
      BY <3>1, <3>2, <3>3 DEF PipeInv
  <2>4. CASE q # p
    <3>1. YoungP(q)'
      BY <1>2, <1>3, <1>4, <1>6, <2>1, <2>2, <2>4, NoneIsNoPipe DEF YoungP
    <3>2. ListedP(q)' /\ EndedP(q)'
      BY <1>2, <1>3, <1>6, <2>1, <2>4, NoneIsNoPipe DEF ListedP, EndedP
    <3>3. GoneP(q)'
      BY <1>2, <1>6, <2>1, <2>2, <2>4, NoneIsNoPipe DEF GoneP
    <3>4. KeptP(q)'
      BY <1>2, <1>6, <2>1, <2>4 DEF KeptP
    <3> QED
      BY <3>1, <3>2, <3>3, <3>4 DEF PipeInv
  <2> QED
    BY <2>3, <2>4
<1> QED
  BY <1>3, <1>5, <1>8, <1>9, <1>10 DEF Inv

-----------------------------------------------------------------------------
(* The invariant.                                                          *)

LEMMA InitInv == Init => Inv
<1> SUFFICES ASSUME Init PROVE Inv
  OBVIOUS
<1> USE NoneIsNoPipe DEF Init
<1>1. \A p \in Pipe : pc[Acc(p)] = "none" /\ pc[Tmr(p)] = "idle" /\ pc[Rcv(p)] = "idle"
  BY ThreadFacts
<1>2. \A t \in Thread : /\ pc[t] = (IF t[1] = "acc" THEN "none" ELSE "idle")
                        /\ tgt[t] = None /\ ret[t] = "idle" /\ held[Owner(t)] = None
  BY ThreadFacts
<1>3. Types
  <2>1. ThrTypes
    BY DEF ThrTypes, Places
  <2> QED
    BY <2>1 DEF Types, MapTypes, PipeTypes, AioTypes
<1>4. Locals
  BY <1>2, ThreadFacts DEF Locals, Local, AccPlaces, TmrPlaces, RcvPlaces, ClosePlaces
<1>5. \A p \in Pipe : ~Creating(Acc(p)) /\ ~Alive(Acc(p)) /\ ~Leaving(p)
  BY <1>1, <1>2 DEF Creating, Kicking, Alive, ClosePlaces, Leaving
<1>6. Mutex /\ Refs
  BY <1>5 DEF Mutex, Refs, HeldNow, One
<1>7. Tokens /\ Reaper
  BY <1>2 DEF Tokens, TokenPlaces, Reaper
<1>8. \A p \in Pipe : PipeInv(p)
  BY <1>1, <1>5 DEF PipeInv, YoungP, ListedP, EndedP, GoneP, KeptP, Quieted, HeldNow
<1> QED
  BY <1>3, <1>4, <1>6, <1>7, <1>8 DEF Inv

LEMMA StepInv == Inv /\ [Next]_vars => Inv'
<1> SUFFICES ASSUME Inv, [Next]_vars PROVE Inv'
  OBVIOUS
<1>1. ASSUME NEW t \in Thread, nni_pipe_close(t)
      PROVE  Inv'
  BY <1>1, CloseSwapInv, CloseCachedInv, CloseAgainInv, CloseKeepInv, CloseGoneInv,
     CloseTranKeptInv, CloseTranGoneInv DEF nni_pipe_close
<1>2. ASSUME NEW t \in Thread, Accept(t)
      PROVE  Inv'
  BY <1>2, KickInv, KickDoneInv, InitPipeInv, StartClosedInv, StartRefusedInv, StartInv,
     ReleaseInv, RefuseInv DEF Accept
<1>3. ASSUME NEW t \in Thread, nano_pipe_recv_cb(t)
      PROVE  Inv'
  BY <1>3, RecvStartInv, RecvReturnInv, RecvOpenInv, RecvDisconnectInv, OwnCloseInv
  DEF nano_pipe_recv_cb
<1>4. ASSUME NEW t \in Thread, nano_pipe_timer_cb(t)
      PROVE  Inv'
  BY <1>4, TimerResultInv, TimerGotoInv, TimerExpireInv, OwnCloseInv DEF nano_pipe_timer_cb
<1>5. ASSUME NEW t \in Thread, Environment(t)
      PROVE  Inv'
  BY <1>5, CreateInv, AuthenticateInv, RecvStartInv DEF Environment
<1>6. ASSUME NEW p \in Pipe, TimerDue(p) \/ PeerGone(p) \/ nano_ctx_recv(p)
      PROVE  Inv'
  BY <1>6, TimerDueInv, PeerGoneInv, CtxRecvInv
<1>7. ASSUME Reap
      PROVE  Inv'
  BY <1>7, ReapNextInv, ReapGoesInv, ReapFiniInv DEF Reap
<1>8. ASSUME UNCHANGED vars
      PROVE  Inv'
  <2> USE <1>8 DEF vars, map_vars, core_vars, reap_vars, nano_vars, aio_vars, thr_vars, hist_vars
  <2>1. Types' /\ Tokens' /\ Reaper'
    BY DEF Inv, Types, ThrTypes, MapTypes, PipeTypes, AioTypes, Tokens, Reaper, Quieted
  <2>2. /\ Locals' /\ Mutex' /\ Refs' /\ HeldNow' = HeldNow
        /\ \A q \in Pipe : (Fresh(q)' <=> Fresh(q)) /\ (Leaving(q)' <=> Leaving(q))
    BY NoThread
  <2>3. \A p \in Pipe : PipeInv(p)'
    BY <2>2 DEF Inv, PipeInv, YoungP, ListedP, EndedP, GoneP, KeptP, Quieted
  <2> QED
    BY <2>1, <2>2, <2>3 DEF Inv
<1> QED
  BY <1>1, <1>2, <1>3, <1>4, <1>5, <1>6, <1>7, <1>8 DEF Next, Proceed

LEMMA Invariance == Spec => []Inv
BY InitInv, StepInv, PTL DEF Spec

-----------------------------------------------------------------------------
(* Results.                                                                *)

\* Every variable keeps its type, and p_ref, counted up by pipe_create and
\* down by nni_pipe_rele, never goes below zero.
THEOREM TypeCorrect == Spec => []TypeOK
<1>1. Inv => TypeOK
  BY TypesOK DEF Inv
<1> QED
  BY <1>1, Invariance, PTL

\* For any number of connections of the client, once pipe_destroy has freed a
\* pipe no map, no list, no handle and no thread refers to it: whoever closes
\* it holds a reference or is a callback that the reaper waits for.
THEOREM FreedUnusedHolds == Spec => []FreedUnused
<1>1. ASSUME Inv, NEW p \in Pipe, freed[p]
      PROVE  /\ p \notin {pipes, s_pipes, cached_sessions} \union reaping
             /\ timer[p] = "off" /\ recv[p] = "off"
             /\ \A t \in Thread : p \notin Uses(t)
  <2>1. GoneP(p) /\ KeptP(p)
    BY <1>1 DEF Inv, PipeInv
  <2>2. p \notin {pipes, s_pipes, cached_sessions} \union reaping
        /\ timer[p] = "off" /\ recv[p] = "off" /\ Quieted(p) /\ p_ref[p] = 0
    BY <1>1, <2>1 DEF GoneP, KeptP, Quieted
  <2>3. ASSUME NEW t \in Thread
        PROVE  p \notin Uses(t)
    <3>1. Local(t, pc[t], tgt[t], ret[t], held[Owner(t)]) /\ Owner(t) \in Pipe
      BY <1>1, ThreadFacts DEF Inv, Locals
    <3>2. tgt[t] # p
      BY <1>1, <3>1, NoneIsNoPipe, TargetTouches DEF Local, Touchable
    <3>3. t[1] = "acc" => held[Owner(t)] # p
      <4>1. ASSUME t[1] = "acc", held[Owner(t)] = p
            PROVE  FALSE
        <5>1. t = Acc(Owner(t)) /\ Kicking(Acc(Owner(t)))
          BY <3>1, <4>1, NoneIsNoPipe, ThreadFacts DEF Local, Kicking
        <5>2. HeldNow = p
          BY <1>1, <3>1, <4>1, <5>1, LockHolder
        <5> QED
          BY <1>1, <2>2, <5>2, LockHolder
      <4> QED
        BY <4>1
    <3>4. Owner(t) = p => Quiet(t)
      <4>1. ~Alive(Acc(p))
        BY <1>1, <2>2, LockHolder
      <4>2. Owner(t) = p => t \in {Acc(p), Tmr(p), Rcv(p)}
        BY ThreadFacts
      <4> QED
        BY <2>2, <4>1, <4>2 DEF Alive, Quieted, Quiet
    <3> QED
      BY <3>2, <3>3, <3>4 DEF Uses
  <2> QED
    BY <2>2, <2>3
<1>2. Inv => FreedUnused
  BY <1>1 DEF FreedUnused
<1> QED
  BY <1>2, Invariance, PTL

\* Whoever wins the swap of p_closed is alone until it keeps the pipe or puts
\* it in the reap list, so nni_pipe_close puts it there once.
THEOREM ReapedOnceHolds == Spec => []ReapedOnce
<1>1. ASSUME Inv, NEW p \in Pipe
      PROVE  /\ \A t, u \in Thread :
                   (pc[t] = "gone" /\ pc[u] = "gone" /\ tgt[t] = p /\ tgt[u] = p) => t = u
             /\ (\E t \in Thread : pc[t] = "gone" /\ tgt[t] = p) =>
                   p \notin reaping /\ victim # p /\ ~freed[p]
             /\ p \in reaping => victim # p /\ ~freed[p] /\ ~cache[p]
  <2>1. Tokens /\ ListedP(p) /\ GoneP(p)
    BY <1>1 DEF Inv, PipeInv
  <2>2. \A t \in Thread : pc[t] = "gone" /\ tgt[t] = p => ~freed[p]
    BY <1>1, TargetTouches DEF Touchable, ClosePlaces
  <2> QED
    BY <2>1, <2>2 DEF Tokens, TokenPlaces, ListedP, GoneP
<1>2. Inv => ReapedOnce
  BY <1>1 DEF ReapedOnce
<1> QED
  BY <1>2, Invariance, PTL

\* The pipe in cached_sessions, which nano_pipe_start would resume, is kept,
\* not being given up, and its end has not been told to the broker.
THEOREM SessionIntactHolds == Spec => []SessionIntact
<1>1. ASSUME Inv, NEW p \in Pipe, cached_sessions = p
      PROVE  /\ cache[p] /\ ~event[p] /\ ~closed[p]
             /\ notified[p] = 0 /\ p \notin taken
             /\ \A t \in Thread : tgt[t] = p => pc[t] # "gone"
  <2>1. KeptP(p)
    BY <1>1 DEF Inv, PipeInv
  <2>2. cache[p] /\ ~event[p] /\ p \notin taken
    BY <1>1, <2>1 DEF KeptP
  <2> QED
    BY <1>1, <2>2, SessionTouches DEF Leaving
<1>2. Inv => SessionIntact
  BY <1>1 DEF SessionIntact
<1> QED
  BY <1>2, Invariance, PTL

\* close_pipe exposes the end of a pipe at most once, and never for a pipe
\* whose session nano_pipe_start has moved to another one.
THEOREM EndsOnceHolds == Spec => []EndsOnce
<1>1. Inv => EndsOnce
  BY DEF Inv, PipeInv, KeptP, EndsOnce
<1> QED
  BY <1>1, Invariance, PTL
=============================================================================
