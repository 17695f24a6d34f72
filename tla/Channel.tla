------------------------------ MODULE Channel ------------------------------
(***************************************************************************)
(* What a message queue with waiting readers and writers (core/msgqueue.c) *)
(* promises: a channel.  The messages of the waiting writers stand behind  *)
(* the buffered ones; a reader gets the first of them all.                 *)
(***************************************************************************)
EXTENDS Naturals, Sequences, SequencesExt

CONSTANT Msg

VARIABLES chan,   \* the messages on their way, oldest first
          got     \* those received, in the order they were

vars == <<chan, got>>

Init == chan = << >> /\ got = << >>

\* A writer adds its message at the end ...
Put(m) == chan' = Append(chan, m) /\ UNCHANGED got

\* ... or hands it to a reader when there is nothing before it.
Pass(m) == chan = << >> /\ got' = Append(got, m) /\ UNCHANGED chan

Get == chan # << >> /\ got' = Append(got, Head(chan)) /\ chan' = Tail(chan)

\* A writer gives up.
Withdraw(i) == chan' = RemoveAt(chan, i) /\ UNCHANGED got

\* A smaller buffer drops its oldest messages; closing drops all.
Drop(n) == chan' = SubSeq(chan, n + 1, Len(chan)) /\ UNCHANGED got

Next == \/ \E m \in Msg : Put(m) \/ Pass(m)
        \/ Get
        \/ \E i \in DOMAIN chan : Withdraw(i) \/ Drop(i)

Spec == Init /\ [][Next]_vars
=============================================================================
