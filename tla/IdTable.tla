------------------------------- MODULE IdTable -------------------------------
(***************************************************************************)
(* What the id maps of core/idhash.c promise their users: a table from ids *)
(* to values, and ids given out in turn.  An id comes up again only after  *)
(* the turn has gone through the whole range Lo..Hi.                       *)
(***************************************************************************)
EXTENDS Naturals, FiniteSets

CONSTANTS Ids,      \* the ids
          Values,     \* Values[i]: what id i may be mapped to
          Lo, Hi,     \* the range of the ids that are given out
          Random,     \* the first id given out is a random one of the range
          None        \* no value

VARIABLES map, turn, rv
vars == <<map, turn, rv>>

Used == {i \in Ids : map[i] # None}
After(i) == IF i = Hi THEN Lo ELSE i + 1

\* The free id of the range that comes first from start on.
Ahead(start, i) == IF i >= start THEN i - start ELSE i + (Hi - Lo + 1) - start
FirstFree(start) == CHOOSE i \in (Lo..Hi) \ Used :
                        \A j \in (Lo..Hi) \ Used : Ahead(start, i) <= Ahead(start, j)
Starts == IF turn # 0 THEN {turn} ELSE IF Random THEN Lo..Hi ELSE {Lo}

Init == map = [i \in Ids |-> None] /\ turn = 0 /\ rv = "ok"

Set(i, v) == map' = [map EXCEPT ![i] = v] /\ rv' = "ok" /\ turn' = turn

Remove(i) ==
    /\ map' = [map EXCEPT ![i] = None] /\ turn' = turn
    /\ rv' = IF map[i] = None THEN "ENOENT" ELSE "ok"

Alloc ==
    /\ Cardinality(Used) <= Hi - Lo
    /\ \E start \in Starts :
         LET i == FirstFree(start)
         IN  /\ \E v \in Values[i] : map' = [map EXCEPT ![i] = v]
             /\ turn' = After(i) /\ rv' = "ok"

\* Memory, or the ids of the range, are exhausted: nothing is lost.
NoMemory == map' = map /\ turn' \in {turn} \union (Lo..Hi) /\ rv' = "ENOMEM"

Clear == map' = [i \in Ids |-> None] /\ UNCHANGED <<turn, rv>>

Next ==
    \/ \E i \in Ids : Remove(i) \/ \E v \in Values[i] : Set(i, v)
    \/ Alloc \/ NoMemory \/ Clear

Spec == Init /\ [][Next]_vars
=============================================================================
