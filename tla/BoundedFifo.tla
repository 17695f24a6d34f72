---------------------------- MODULE BoundedFifo ----------------------------
(***************************************************************************)
(* What a message queue of the library promises its user, without saying   *)
(* how the messages are stored: a FIFO of bounded length that owns the     *)
(* messages it holds.  A message belongs to the caller ("app"), to the     *)
(* queue ("queue") or has been freed ("freed").                            *)
(***************************************************************************)
EXTENDS Naturals, Sequences

CONSTANTS Msg,       \* message identities
          NoMsg      \* the value of *mp before the first successful get

VARIABLES q,         \* the messages held, oldest first
          cap,       \* the most the queue accepts
          owner,     \* who must free each message
          mp         \* the message the last get returned

vars == <<q, cap, owner, mp>>

Contents == {q[i] : i \in 1..Len(q)}

Init == /\ q = << >>
        /\ cap \in Nat
        /\ owner = [m \in Msg |-> "app"]
        /\ mp = NoMsg

\* A put is accepted only below the capacity.
Put(m) == /\ owner[m] = "app"
          /\ Len(q) < cap
          /\ q' = Append(q, m)
          /\ owner' = [owner EXCEPT ![m] = "queue"]
          /\ UNCHANGED <<cap, mp>>

\* A get returns the oldest message and gives it back to the caller.
Get == /\ Len(q) > 0
       /\ mp' = q[1]
       /\ q' = Tail(q)
       /\ owner' = [owner EXCEPT ![q[1]] = "app"]
       /\ UNCHANGED cap

\* A resize keeps the oldest messages, in order and as many as fit, and
\* frees the others.
Resize == \E k \in 0..Len(q) :
            /\ q' = SubSeq(q, 1, k)
            /\ cap' \in Nat
            /\ k <= cap' /\ (k = Len(q) \/ k = cap')
            /\ owner' = [m \in Msg |->
                           IF \E i \in (k+1)..Len(q) : q[i] = m
                           THEN "freed" ELSE owner[m]]
            /\ UNCHANGED mp

\* Flushing and finishing free whatever is left.
Flush == /\ q' = << >>
         /\ owner' = [m \in Msg |-> IF m \in Contents THEN "freed" ELSE owner[m]]
         /\ UNCHANGED <<cap, mp>>

Next == (\E m \in Msg : Put(m)) \/ Get \/ Resize \/ Flush

Spec == Init /\ [][Next]_vars
=============================================================================
