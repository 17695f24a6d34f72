-------------------------------- MODULE IdMap --------------------------------
(***************************************************************************)
(* The id maps of core/idhash.c: pipes, sockets, dialers, sessions and     *)
(* unacknowledged messages by number.                                      *)
(*                                                                         *)
(* An open-addressing table.  An id is put in the first free cell of its   *)
(* probe sequence, and counts a skip in every cell it passes; a search     *)
(* ends at the id or at a cell that nobody passed.  A removal goes over    *)
(* the same cells and takes its skips back.  load counts the probes of all *)
(* the ids stored, and decides when the table grows or shrinks.            *)
(*                                                                         *)
(* The callers hold a lock around each call, so a call is a step.  The     *)
(* registration of static maps, which frees them at exit, is left out.     *)
(***************************************************************************)
EXTENDS Integers, FiniteSets, FiniteSetsExt

CONSTANTS Ids,        \* the ids
          Values,     \* Values[i]: what id i may be mapped to
          Lo, Hi,     \* id_min_val, id_max_val
          Random,     \* NNI_ID_FLAG_RANDOM
          Caps,       \* the sizes of the table: 8, 16, 32, ... as the ids need
          None        \* no value

ASSUME IdMapAssumption ==
    /\ IsFiniteSet(Ids) /\ Ids \subseteq Nat /\ Lo..Hi \subseteq Ids
    /\ Lo \in Nat \ {0} /\ Hi \in Nat /\ Lo < Hi
    /\ DOMAIN Values = Ids /\ \A i \in Ids : None \notin Values[i]
    /\ Random \in BOOLEAN
    /\ Caps \subseteq Nat /\ 8 \in Caps
    /\ \A c \in Caps \ {8} : c > 8 /\ c % 2 = 0 /\ c \div 2 \in Caps
    /\ \E c \in Caps : c >= 2 * Cardinality(Ids)

VARIABLES m,          \* nni_id_map
          dyn,        \* id_dyn_val: the next id to give out, or 0
          rv,         \* what the last call returned
          map         \* what nni_id_get finds for each id
vars == <<m, dyn, rv, map>>

Cells(cap) == 0..cap - 1
Free == [key |-> 0, skips |-> 0, val |-> None]
Table(cap, count) ==
    [id_cap |-> cap, id_count |-> count, id_load |-> 0,
     id_entries |-> [j \in Cells(cap) |-> Free]]

Init == m = Table(0, 0) /\ dyn = 0 /\ rv = "ok" /\ map = [i \in Ids |-> None]

-----------------------------------------------------------------------------
(* The table.                                                              *)

\* The cells that are tried for an id, in order.
ID_NEXT(cap, j) == (j * 5 + 1) % cap
Path(cap, start) ==
    LET cell[n \in Cells(cap)] == IF n = 0 THEN start ELSE ID_NEXT(cap, cell[n - 1])
    IN  [n \in Cells(cap) |-> cell[n]]
Probes == [cap \in Caps |-> [start \in Cells(cap) |-> Path(cap, start)]]
Probe(cap, id) == Probes[cap][id % cap]

\* id_find: how many cells are passed before the id, or -1.
Mut_Ends(e) == e.val = None
Ends(e) == e.skips = 0
id_find(t, id) ==
    LET path == Probe(t.id_cap, id)
        Entry(n) == t.id_entries[path[n]]
        Hit(n) == Entry(n).key = id /\ Entry(n).val # None
        stops == {n \in Cells(t.id_cap) : Hit(n) \/ Ends(Entry(n))}
    IN  IF t.id_count = 0 \/ stops = {} THEN -1
        ELSE IF Hit(Min(stops)) THEN Min(stops) ELSE -1

nni_id_get(t, id) ==
    LET n == id_find(t, id)
    IN  IF n = -1 THEN None ELSE t.id_entries[Probe(t.id_cap, id)[n]].val

\* The table after a walk over the first n cells of the path of id, each passed
\* one counting by more skips, and the entry of the next one replaced.
Walk(t, id, n, by, key, val) ==
    LET path == Probe(t.id_cap, id)
        passed == {path[k] : k \in 0..n - 1}
        Entry(j) == IF j = path[n] THEN [t.id_entries[j] EXCEPT !.key = key, !.val = val]
                    ELSE IF j \in passed THEN [t.id_entries[j] EXCEPT !.skips = @ + by]
                    ELSE t.id_entries[j]
    IN  [t EXCEPT !.id_load = @ + by * (n + 1),
                  !.id_entries = [j \in Cells(t.id_cap) |-> Entry(j)]]

\* Store an id that is not there: in the first free cell.
Place(t, id, val) ==
    LET path == Probe(t.id_cap, id)
    IN  Walk(t, id, Min({n \in Cells(t.id_cap) : t.id_entries[path[n]].val = None}),
             1, id, val)

\* id_resize.
MinLoad(cap) == IF cap > 8 THEN cap \div 8 ELSE 0
MaxLoad(cap) == IF cap > 8 THEN (cap * 2) \div 3 ELSE IF cap = 8 THEN 5 ELSE 0
Mut_NewCap(count) == Min({c \in Caps : c >= count})
NewCap(count) == Min({c \in Caps : c >= count * 2})
Fits(t) ==
    \/ t.id_load < MaxLoad(t.id_cap) /\ t.id_load >= MinLoad(t.id_cap)
    \/ NewCap(t.id_count) = t.id_cap
Move(t, e) == IF e.val = None THEN t ELSE Place(t, e.key, e.val)
Moved(t, cap) ==
    LET new[k \in 0..t.id_cap] ==
            IF k = 0 THEN Table(cap, t.id_count) ELSE Move(new[k - 1], t.id_entries[k - 1])
    IN  new[t.id_cap]
id_resize(t) == IF Fits(t) THEN t ELSE Moved(t, NewCap(t.id_count))

\* nni_id_set, after the resize.
Stored(t, id, val) ==
    LET n == id_find(t, id)
        cell == Probe(t.id_cap, id)[n]
    IN  IF n # -1 THEN [t EXCEPT !.id_entries[cell].val = val]
        ELSE [Place(t, id, val) EXCEPT !.id_count = @ + 1]

\* nni_id_remove, before the resize.
Mut_Removed(t, id) ==
    LET cell == Probe(t.id_cap, id)[id_find(t, id)]
    IN  [t EXCEPT !.id_count = @ - 1, !.id_load = @ - 1,
                  !.id_entries[cell].key = 0, !.id_entries[cell].val = None]
Removed(t, id) ==
    [Walk(t, id, id_find(t, id), -1, 0, None) EXCEPT !.id_count = @ - 1]

-----------------------------------------------------------------------------
(* The calls.                                                              *)

LookUp == map' = [i \in Ids |-> nni_id_get(m', i)]

\* The table is resized first, which fails if there is no memory.
nni_id_set(id, val) ==
    \/ m' = Stored(id_resize(m), id, val) /\ rv' = "ok"
    \/ ~Fits(m) /\ m' = m /\ rv' = "ENOMEM"
Set(id) == (\E v \in Values[id] : nni_id_set(id, v)) /\ dyn' = dyn /\ LookUp

\* The table is resized last, and stays as it is if there is no memory.
nni_id_remove(id) ==
    /\ IF id_find(m, id) = -1 THEN m' = m /\ rv' = "ENOENT"
       ELSE m' \in {Removed(m, id), id_resize(Removed(m, id))} /\ rv' = "ok"
    /\ dyn' = dyn /\ LookUp

\* Ids are tried in turn, from a random one the first time.  The turn has moved
\* on even if the id cannot be stored.
Turn(id) == IF id + 1 > Hi THEN Lo ELSE id + 1
Starts == IF dyn # 0 THEN {dyn} ELSE IF Random THEN Lo..Hi ELSE {Lo}
Tried(start, n) == Lo + ((start - Lo + n) % (Hi - Lo + 1))
Allocated(start) == Tried(start, Min({n \in 0..Hi - Lo : id_find(m, Tried(start, n)) = -1}))
nni_id_alloc ==
    \/ m.id_count > Hi - Lo /\ rv' = "ENOMEM" /\ UNCHANGED <<m, dyn, map>>
    \/ /\ m.id_count <= Hi - Lo
       /\ \E start \in Starts : \E v \in Values[Allocated(start)] :
            nni_id_set(Allocated(start), v) /\ dyn' = Turn(Allocated(start))
       /\ LookUp

nni_id_map_fini == m' = Table(0, 0) /\ UNCHANGED <<dyn, rv>> /\ LookUp

Next ==
    \/ \E id \in Ids : Set(id) \/ nni_id_remove(id)
    \/ nni_id_alloc \/ nni_id_map_fini

Spec == Init /\ [][Next]_vars

-----------------------------------------------------------------------------
(* Properties.                                                             *)

\* The cells that each stored id passed are the skips, and the probes of the
\* stored ids are the load, after any sequence of collisions, removals from the
\* middle of a probe sequence, and resizes.  (The assertions of nni_id_remove and
\* id_resize that skips are there, or are not, rest on it.)
Keys(t) == {t.id_entries[j].key : j \in {j \in Cells(t.id_cap) : t.id_entries[j].val # None}}
At(t, id, n) == LET e == t.id_entries[Probe(t.id_cap, id)[n]] IN e.key = id /\ e.val # None
Passed(t, id) == CHOOSE n \in Cells(t.id_cap) : At(t, id, n)
Passing(t, j) == {id \in Keys(t) : \E k \in 0..Passed(t, id) - 1 : Probe(t.id_cap, id)[k] = j}
Probed(t) == {x \in Keys(t) \X Cells(t.id_cap) : x[2] <= Passed(t, x[1])}
Accounting ==
    /\ m.id_count = Cardinality(Keys(m)) /\ Keys(m) \subseteq Ids
    /\ m.id_load = Cardinality(Probed(m))
    /\ \A j \in Cells(m.id_cap) : m.id_entries[j].skips = Cardinality(Passing(m, j))

\* There is a free cell to be found whenever an id is stored, which is what the
\* loops of nni_id_set and id_resize rely on to end.
Room == m.id_cap = 0 \/ m.id_count < m.id_cap

\* A look-up finds what was stored last and not removed, and nothing else,
\* whatever the table went through; ids are given out in turn and never while in
\* use.
Abstract == INSTANCE IdTable WITH turn <- dyn
Implements == Abstract!Spec
=============================================================================
