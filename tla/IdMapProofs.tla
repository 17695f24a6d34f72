----------------------------- MODULE IdMapProofs -----------------------------
(***************************************************************************)
(* Proofs about the id maps: for any ids, any range to give ids out of and *)
(* any sizes of the table that double, the hash table implements a plain   *)
(* table from ids to values, its skips and its load are exact, and a free  *)
(* cell is there whenever one is looked for.                               *)
(*                                                                         *)
(* First that a probe sequence visits every cell, which makes the cell of  *)
(* an id well defined.  Then what each step does to a table that is Sound  *)
(* (no id is in two cells) and Booked (skips and load are those of the ids *)
(* stored); a resize by induction on the cells of the old table.  Last the *)
(* invariant and the refinement.  Induction is by the least element of a   *)
(* set of numbers for which the claim fails.                               *)
(***************************************************************************)
EXTENDS IdMap, FiniteSetTheorems, TLAPS

-----------------------------------------------------------------------------
(* Naturals.                                                               *)

\* A set of naturals has a least element, which Min finds.
LEMMA Least ==
    ASSUME NEW S \in SUBSET Nat, S # {}
    PROVE  Min(S) \in S /\ \A k \in S : Min(S) <= k
<1>1. PICK n \in S : \A k \in S : ~ (<<k, n>> \in OpToRel(<, Nat))
  BY NatLessThanWellFounded, WFMin
<1>2. \A k \in S : n <= k
  <2> TAKE k \in S
  <2>1. ~ (k < n) /\ k \in Nat /\ n \in Nat
    BY <1>1 DEF OpToRel
  <2> QED
    BY <2>1
<1> QED
  BY <1>2 DEF Min

\* Induction, for a set.
LEMMA Induction ==
    ASSUME NEW S, 0 \in S, \A n \in Nat : n \in S => n + 1 \in S
    PROVE  Nat \subseteq S
<1> DEFINE T == Nat \ S
<1>1. SUFFICES ASSUME T # {} PROVE FALSE
  OBVIOUS
<1>2. PICK n \in T : \A k \in T : n <= k
  <2>1. T \in SUBSET Nat
    OBVIOUS
  <2> HIDE DEF T
  <2> QED
    BY <1>1, <2>1, Least
<1>3. n \in Nat /\ n \notin S /\ n # 0
  BY <1>2
<1>4. n - 1 \in Nat /\ n = (n - 1) + 1 /\ n - 1 < n
  BY <1>3
<1>5. n - 1 \in S
  BY <1>2, <1>4
<1> QED
  BY <1>3, <1>4, <1>5

\* The same up to a bound.
LEMMA InductionTo ==
    ASSUME NEW N \in Nat, NEW S, 0 \in S, \A n \in 0..N - 1 : n \in S => n + 1 \in S
    PROVE  0..N \subseteq S
<1> DEFINE T == {n \in Nat : n <= N => n \in S}
<1>1. 0 \in T
  OBVIOUS
<1>2. \A n \in Nat : n \in T => n + 1 \in T
  OBVIOUS
<1>3. Nat \subseteq T
  <2> HIDE DEF T
  <2> QED
    BY <1>1, <1>2, Induction
<1> QED
  BY <1>3

\* A function may be defined by its value at 0 and a step.
Steps(n, S, base, g, f) ==
    /\ f \in [0..n -> S] /\ f[0] = base
    /\ \A k \in 1..n : f[k] = g[k][f[k - 1]]

LEMMA Recursion ==
    ASSUME NEW N \in Nat, NEW S, NEW base \in S, NEW g \in [1..N -> [S -> S]]
    PROVE  \E f : Steps(N, S, base, g, f)
<1> DEFINE Upto(n, f) == Steps(n, S, base, g, f)
           T == {n \in 0..N : \E f : Upto(n, f)}
<1> USE DEF Steps
<1>1. 0 \in T
  <2> DEFINE f == [k \in 0..0 |-> base]
  <2>1. Upto(0, f)
    OBVIOUS
  <2>2. 0 \in 0..N
    OBVIOUS
  <2> HIDE DEF f, Upto
  <2> QED
    BY <2>1, <2>2
<1>2. ASSUME NEW n \in 0..N - 1, n \in T PROVE n + 1 \in T
  <2>1. PICK f : Upto(n, f)
    BY <1>2
  <2>2. PICK y \in S : y = g[n + 1][f[n]]
    <3>1. f[n] \in S /\ n + 1 \in 1..N
      BY <2>1
    <3> QED
      BY <3>1
  <2> DEFINE h == [k \in 0..n + 1 |-> IF k = n + 1 THEN y ELSE f[k]]
  <2>3. h \in [0..n + 1 -> S]
    BY <2>1
  <2>4. h[0] = base
    BY <2>1
  <2>5. ASSUME NEW k \in 1..n + 1 PROVE h[k] = g[k][h[k - 1]]
    <3>1. h[k - 1] = f[k - 1]
      OBVIOUS
    <3>2. CASE k = n + 1
      <4>1. k - 1 = n /\ h[k] = y
        BY <3>2
      <4> HIDE DEF h
      <4> QED
        BY <2>2, <3>1, <3>2, <4>1
    <3>3. CASE k # n + 1
      BY <2>1, <3>1, <3>3
    <3> QED
      BY <3>2, <3>3
  <2>6. Upto(n + 1, h)
    BY <2>3, <2>4, <2>5
  <2>7. n + 1 \in 0..N
    OBVIOUS
  <2> HIDE DEF h, Upto
  <2> QED
    BY <2>6, <2>7
<1>3. 0..N \subseteq T
  <2> HIDE DEF T
  <2> QED
    BY <1>1, <1>2, InductionTo
<1>4. N \in T
  <2>1. N \in 0..N
    OBVIOUS
  <2> HIDE DEF T
  <2> QED
    BY <1>3, <2>1
<1> QED
  BY <1>4

-----------------------------------------------------------------------------
(* Probe sequences.                                                        *)

LEMMA NextCell ==
    \A cap \in Nat \ {0} : \A j \in Nat : ID_NEXT(cap, j) \in Cells(cap)
BY DEF ID_NEXT, Cells

\* A path goes from cell to cell as ID_NEXT does.
LEMMA PathIs ==
    ASSUME NEW cap \in Nat \ {0}, NEW start \in Cells(cap)
    PROVE  /\ Path(cap, start) \in [Cells(cap) -> Cells(cap)]
           /\ Path(cap, start)[0] = start
           /\ \A n \in 1..cap - 1 : Path(cap, start)[n] = ID_NEXT(cap, Path(cap, start)[n - 1])
<1> DEFINE IsCell(f) == f = [n \in Cells(cap) |-> IF n = 0 THEN start ELSE ID_NEXT(cap, f[n - 1])]
<1>0. PICK N \in Nat : N = cap - 1
  OBVIOUS
<1>a. PICK C : C = Cells(cap)
  OBVIOUS
<1>b. C \subseteq Nat /\ C = 0..N /\ 0 \in C /\ \A k \in 1..N : k - 1 \in C /\ k \in C
  BY <1>0, <1>a DEF Cells
<1>c. \A j \in C : ID_NEXT(cap, j) \in C
  BY <1>a, <1>b, NextCell
<1> DEFINE g == [k \in 1..N |-> [j \in C |-> ID_NEXT(cap, j)]]
<1>1. g \in [1..N -> [C -> C]]
  BY <1>c
<1>2. \A k \in 1..N, j \in C : g[k][j] = ID_NEXT(cap, j)
  OBVIOUS
<1>3. PICK f \in [0..N -> C] : f[0] = start /\ \A k \in 1..N : f[k] = g[k][f[k - 1]]
  <2>1. start \in C
    BY <1>a
  <2> HIDE DEF g
  <2>2. PICK f : Steps(N, C, start, g, f)
    BY <1>1, <2>1, Recursion
  <2> QED
    BY <2>2 DEF Steps
<1>4. \A k \in 1..N : f[k] = ID_NEXT(cap, f[k - 1])
  <2> HIDE DEF g
  <2> TAKE k \in 1..N
  <2>1. f[k - 1] \in C
    BY <1>b
  <2> QED
    BY <1>2, <1>3, <2>1
<1>5. IsCell(f)
  <2>1. \A n \in C : f[n] = IF n = 0 THEN start ELSE ID_NEXT(cap, f[n - 1])
    <3> TAKE n \in C
    <3>1. n = 0 \/ n \in 1..N
      BY <1>b
    <3> QED
      BY <1>3, <1>4, <3>1
  <2>2. f = [n \in C |-> f[n]]
    BY <1>b, <1>3
  <2>3. f = [n \in C |-> IF n = 0 THEN start ELSE ID_NEXT(cap, f[n - 1])]
    BY <2>1, <2>2
  <2> QED
    BY <1>a, <2>3
<1>6. PICK c : c = CHOOSE h : IsCell(h)
  OBVIOUS
<1>7. IsCell(c)
  <2> HIDE DEF IsCell
  <2> QED
    BY <1>5, <1>6
<1>8. Path(cap, start) = [n \in Cells(cap) |-> c[n]]
  BY <1>6 DEF Path
<1>9. c[0] = start /\ \A n \in 1..N : c[n] = ID_NEXT(cap, c[n - 1])
  <2>1. c = [n \in C |-> IF n = 0 THEN start ELSE ID_NEXT(cap, c[n - 1])]
    BY <1>7, <1>a
  <2>2. \A n \in C : c[n] = IF n = 0 THEN start ELSE ID_NEXT(cap, c[n - 1])
    BY <2>1
  <2>3. \A n \in 1..N : n \in C /\ n # 0
    BY <1>b
  <2> QED
    BY <1>b, <2>2, <2>3
<1>10. \A n \in 0..N : c[n] \in C
  <2> DEFINE S == {n \in 0..N : c[n] \in C}
  <2>1. 0 \in S
    BY <1>a, <1>b, <1>9
  <2>2. \A n \in 0..N - 1 : n \in S => n + 1 \in S
    <3> TAKE n \in 0..N - 1
    <3> HAVE n \in S
    <3>1. n + 1 \in 1..N /\ (n + 1) - 1 = n /\ n + 1 \in 0..N /\ c[n] \in C
      OBVIOUS
    <3>2. c[n + 1] = ID_NEXT(cap, c[n])
      BY <1>9, <3>1
    <3> QED
      BY <1>c, <3>1, <3>2
  <2>3. 0..N \subseteq S
    <3> HIDE DEF S
    <3> QED
      BY <2>1, <2>2, InductionTo
  <2> QED
    BY <2>3
<1>11. \A n \in C : Path(cap, start)[n] = c[n]
  BY <1>8, <1>a
<1>12. Path(cap, start) \in [Cells(cap) -> Cells(cap)]
  BY <1>a, <1>b, <1>8, <1>10
<1>13. \A n \in 1..N : Path(cap, start)[n] = ID_NEXT(cap, Path(cap, start)[n - 1])
  BY <1>b, <1>9, <1>11
<1>14. Path(cap, start)[0] = start
  BY <1>b, <1>9, <1>11
<1> QED
  BY <1>0, <1>12, <1>13, <1>14

\* Remainders.
LEMMA SmallMultiple ==
    ASSUME NEW cap \in Nat \ {0}, NEW w \in Int, 0 - cap < cap * w, cap * w < cap
    PROVE  w = 0
<1>1. CASE w >= 1
  BY <1>1
<1>2. CASE w <= 0 - 1
  BY <1>2
<1> QED
  BY <1>1, <1>2

LEMMA DivMod ==
    ASSUME NEW x \in Nat, NEW cap \in Nat \ {0}
    PROVE  x = cap * (x \div cap) + (x % cap) /\ x \div cap \in Nat /\ x % cap \in 0..cap - 1
<1>1. x = cap * (x \div cap) + (x % cap)
  OBVIOUS
<1>2. x \div cap \in Nat
  OBVIOUS
<1>3. x % cap \in 0..cap - 1
  OBVIOUS
<1> QED
  BY <1>1, <1>2, <1>3

LEMMA ModIs ==
    ASSUME NEW cap \in Nat \ {0}, NEW q \in Nat, NEW r \in 0..cap - 1
    PROVE  (cap * q + r) % cap = r
<1>1. PICK y \in Nat : y = cap * q + r
  OBVIOUS
<1>2. PICK z \in Nat, s \in 0..cap - 1 : z = y \div cap /\ s = y % cap /\ y = cap * z + s
  BY DivMod
<1>3. PICK w \in Int : w = z - q
  OBVIOUS
<1>4. cap * w = cap * z - cap * q
  BY <1>3
<1>5. cap * w = r - s
  BY <1>1, <1>2, <1>4
<1>6. w = 0
  BY <1>5, SmallMultiple
<1> QED
  BY <1>1, <1>2, <1>5, <1>6

LEMMA ModNext ==
    ASSUME NEW cap \in Nat \ {0}, NEW x \in Nat
    PROVE  ((x % cap) * 5 + 1) % cap = (5 * x + 1) % cap
<1>1. PICK q \in Nat, r \in 0..cap - 1 : q = x \div cap /\ r = x % cap /\ x = cap * q + r
  BY DivMod
<1>2. PICK z \in Nat, s \in 0..cap - 1 : 5 * r + 1 = cap * z + s
  <2>1. 5 * r + 1 \in Nat
    OBVIOUS
  <2> QED
    BY <2>1, DivMod
<1>3. PICK u \in Nat : u = 5 * q + z
  OBVIOUS
<1>4. 5 * x + 1 = cap * u + s
  <2>1. cap * u = 5 * (cap * q) + cap * z
    BY <1>3
  <2>2. 5 * x + 1 = 5 * (cap * q) + (5 * r + 1)
    BY <1>1
  <2> QED
    BY <1>2, <2>1, <2>2
<1>5. (5 * x + 1) % cap = s
  BY <1>4, ModIs
<1>6. (5 * r + 1) % cap = s
  BY <1>2, ModIs
<1>7. (x % cap) * 5 + 1 = 5 * r + 1
  BY <1>1
<1> QED
  BY <1>5, <1>6, <1>7

LEMMA ModSame ==
    ASSUME NEW cap \in Nat \ {0}, NEW x \in Nat, NEW y \in Nat, x % cap = y % cap
    PROVE  \E k \in Int : y - x = cap * k
<1>1. PICK q \in Nat, r \in 0..cap - 1 : q = x \div cap /\ r = x % cap /\ x = cap * q + r
  BY DivMod
<1>2. PICK z \in Nat, s \in 0..cap - 1 : s = y % cap /\ y = cap * z + s
  BY DivMod
<1>a. s = r
  BY <1>1, <1>2
<1>3. PICK w \in Int : w = z - q
  OBVIOUS
<1>4. cap * w = cap * z - cap * q
  BY <1>3
<1>5. y - x = cap * w
  BY <1>1, <1>2, <1>4, <1>a
<1> QED
  BY <1>5

-----------------------------------------------------------------------------
(* A path visits every cell.                                               *)

\* The numbers that ID_NEXT goes through before they are reduced to cells.
Orbit(f, n) == f \in [0..n -> Nat] /\ \A k \in 1..n : f[k] = 5 * f[k - 1] + 1

\* After c steps the distance of two orbits has grown by a multiple of 4c times
\* itself, an orbit is an odd multiple of c away from its start, and no two of
\* the first c numbers are in the same cell.
Grows(c, e) == \A f, h : Orbit(f, c) /\ Orbit(h, c) =>
                 h[c] - f[c] = (h[0] - f[0]) + 4 * c * (e * (h[0] - f[0]))
Returns(c) == \A f : Orbit(f, c) => \E t \in Int : f[c] - f[0] = c + 2 * (c * t)
Apart(c) == \A f : Orbit(f, c) =>
              \A i, j \in 0..c - 1 : \A k \in Int : i < j => f[j] - f[i] # c * k
Cycle(c) == (\E e \in Int : Grows(c, e)) /\ Returns(c) /\ Apart(c)

\* So it is for a table of one cell.
LEMMA CycleOne == Cycle(1)
<1>1. Grows(1, 1)
  BY DEF Grows, Orbit
<1>2. ASSUME NEW f, Orbit(f, 1) PROVE \E t \in Int : f[1] - f[0] = 1 + 2 * (1 * t)
  <2>1. PICK x \in Nat : x = f[0]
    BY <1>2 DEF Orbit
  <2>2. f[1] = 5 * x + 1
    BY <1>2, <2>1 DEF Orbit
  <2>3. f[1] - f[0] = 1 + 2 * (1 * (2 * x)) /\ 2 * x \in Int
    BY <2>1, <2>2
  <2> QED
    BY <2>3
<1>3. Apart(1)
  BY DEF Apart
<1> QED
  BY <1>1, <1>2, <1>3 DEF Cycle, Returns

\* A part of an orbit is an orbit.
Piece(g, f, n, c) == Orbit(g, c) /\ \A k \in 0..c : g[k] = f[k + n]
LEMMA Part ==
    ASSUME NEW N \in Nat, NEW f, Orbit(f, N), NEW n \in Nat, NEW c \in Nat, n + c <= N
    PROVE  \E g : Piece(g, f, n, c)
<1>1. f \in [0..N -> Nat] /\ \A k \in 1..N : f[k] = 5 * f[k - 1] + 1
  BY DEF Orbit
<1> DEFINE g == [k \in 0..c |-> f[k + n]]
<1>2. g \in [0..c -> Nat]
  BY <1>1
<1>3. \A k \in 1..c : g[k] = 5 * g[k - 1] + 1
  <2> TAKE k \in 1..c
  <2>1. k + n \in 1..N /\ (k + n) - 1 = (k - 1) + n /\ k \in 0..c /\ k - 1 \in 0..c
    OBVIOUS
  <2>2. f[k + n] = 5 * f[(k - 1) + n] + 1
    BY <1>1, <2>1
  <2> QED
    BY <2>1, <2>2
<1>4. Piece(g, f, n, c)
  BY <1>2, <1>3 DEF Orbit, Piece
<1> HIDE DEF g
<1> QED
  BY <1>4

\* An orbit of 2c steps is two of c steps.
LEMMA Halves ==
    ASSUME NEW c \in Nat \ {0}, NEW f, Orbit(f, 2 * c)
    PROVE  \E a, b : /\ Orbit(a, c) /\ Orbit(b, c)
                     /\ a[0] = f[0] /\ a[c] = f[c] /\ b[0] = f[c] /\ b[c] = f[2 * c]
                     /\ \A k \in 0..c : a[k] = f[k] /\ b[k] = f[k + c]
<1>a. PICK N \in Nat : N = 2 * c
  OBVIOUS
<1>b. Orbit(f, N) /\ 0 \in Nat /\ c \in Nat /\ 0 + c <= N /\ c + c <= N
  BY <1>a
<1>1. PICK a : Piece(a, f, 0, c)
  BY <1>b, Part
<1>2. PICK b : Piece(b, f, c, c)
  BY <1>b, Part
<1>3. 0 \in 0..c /\ c \in 0..c /\ 0 + c = c /\ c + c = 2 * c /\ \A k \in 0..c : k + 0 = k
  OBVIOUS
<1> QED
  BY <1>1, <1>2, <1>3 DEF Piece

\* What holds after c steps holds after 2c, with twice the factor.
LEMMA GrowsTwice ==
    ASSUME NEW c \in Nat \ {0}, NEW e \in Int, Grows(c, e)
    PROVE  Grows(2 * c, e + 2 * (c * (e * e)))
<1> SUFFICES ASSUME NEW f, NEW h, Orbit(f, 2 * c), Orbit(h, 2 * c)
             PROVE  h[2 * c] - f[2 * c] =
                      (h[0] - f[0]) + 4 * (2 * c) * ((e + 2 * (c * (e * e))) * (h[0] - f[0]))
  BY DEF Grows
<1>1. PICK fa, fb : /\ Orbit(fa, c) /\ Orbit(fb, c) /\ fa[0] = f[0] /\ fa[c] = f[c]
                    /\ fb[0] = f[c] /\ fb[c] = f[2 * c]
  BY Halves
<1>2. PICK ha, hb : /\ Orbit(ha, c) /\ Orbit(hb, c) /\ ha[0] = h[0] /\ ha[c] = h[c]
                    /\ hb[0] = h[c] /\ hb[c] = h[2 * c]
  BY Halves
<1>3. h[c] - f[c] = (h[0] - f[0]) + 4 * c * (e * (h[0] - f[0]))
  BY <1>1, <1>2 DEF Grows
<1>4. h[2 * c] - f[2 * c] = (h[c] - f[c]) + 4 * c * (e * (h[c] - f[c]))
  BY <1>1, <1>2 DEF Grows
<1>5. f[0] \in Nat /\ h[0] \in Nat /\ f[c] \in Nat /\ h[c] \in Nat
  BY DEF Orbit
<1>6. PICK d \in Int, d1 \in Int : d = h[0] - f[0] /\ d1 = h[c] - f[c]
  BY <1>5
<1>7. d1 = d + 4 * c * (e * d)
  BY <1>3, <1>6
<1>8. d1 + 4 * c * (e * d1) = d + 4 * (2 * c) * ((e + 2 * (c * (e * e))) * d)
  BY <1>7
<1> QED
  BY <1>4, <1>6, <1>8

\* The two halves together are 2c away, up to a multiple of 4c.
LEMMA ReturnsTwice ==
    ASSUME NEW c \in Nat \ {0}, NEW e \in Int, Grows(c, e), Returns(c)
    PROVE  Returns(2 * c)
<1> SUFFICES ASSUME NEW f, Orbit(f, 2 * c)
             PROVE  \E t \in Int : f[2 * c] - f[0] = 2 * c + 2 * ((2 * c) * t)
  BY DEF Returns
<1>1. PICK a, b : /\ Orbit(a, c) /\ Orbit(b, c) /\ a[0] = f[0] /\ a[c] = f[c]
                  /\ b[0] = f[c] /\ b[c] = f[2 * c]
  BY Halves
<1>2. f[0] \in Nat /\ f[c] \in Nat /\ f[2 * c] \in Nat
  BY DEF Orbit
<1>3. PICK t \in Int : f[c] - f[0] = c + 2 * (c * t)
  BY <1>1 DEF Returns
<1>4. f[2 * c] - f[c] = (f[c] - f[0]) + 4 * c * (e * (f[c] - f[0]))
  BY <1>1 DEF Grows
<1>5. PICK d \in Int : d = f[c] - f[0]
  BY <1>2
<1>6. f[2 * c] - f[0] = 2 * d + 4 * c * (e * d)
  BY <1>2, <1>4, <1>5
<1>7. PICK u \in Int : u = t + e * d
  OBVIOUS
<1>8. 2 * d + 4 * c * (e * d) = 2 * c + 2 * ((2 * c) * u)
  BY <1>3, <1>5, <1>7
<1> QED
  BY <1>6, <1>7, <1>8

\* Two numbers of the same half are apart already; two of different halves that
\* were in the same cell would be an odd multiple of c apart.
LEMMA ApartTwice ==
    ASSUME NEW c \in Nat \ {0}, Returns(c), Apart(c)
    PROVE  Apart(2 * c)
<1> SUFFICES ASSUME NEW f, Orbit(f, 2 * c), NEW i \in 0..2 * c - 1, NEW j \in 0..2 * c - 1,
                    NEW k \in Int, i < j, f[j] - f[i] = (2 * c) * k
             PROVE  FALSE
  BY DEF Apart
<1>1. PICK a, b : /\ Orbit(a, c) /\ Orbit(b, c)
                  /\ \A n \in 0..c : a[n] = f[n] /\ b[n] = f[n + c]
  BY Halves
<1>a. 0..c - 1 \subseteq 0..c
  OBVIOUS
<1>2. ASSUME NEW n \in 0..c - 1, NEW o \in 0..c - 1, NEW l \in Int, n < o
      PROVE  f[o] - f[n] # c * l
  <2>1. a[o] - a[n] # c * l
    BY <1>1, <1>2 DEF Apart
  <2>2. a[o] = f[o] /\ a[n] = f[n]
    BY <1>1, <1>a
  <2> QED
    BY <2>1, <2>2
<1>3. ASSUME NEW n \in 0..c - 1, NEW o \in 0..c - 1, NEW l \in Int, n < o
      PROVE  f[o + c] - f[n + c] # c * l
  <2>1. b[o] - b[n] # c * l
    BY <1>1, <1>3 DEF Apart
  <2>2. b[o] = f[o + c] /\ b[n] = f[n + c]
    BY <1>1, <1>a
  <2> QED
    BY <2>1, <2>2
<1>4. \A n \in 0..2 * c : f[n] \in Nat
  BY DEF Orbit
<1>5. 2 * k \in Int /\ f[j] - f[i] = c * (2 * k)
  <2>1. (2 * c) * k = c * (2 * k)
    OBVIOUS
  <2> QED
    BY <2>1
<1>6. CASE j < c
  <2>1. i \in 0..c - 1 /\ j \in 0..c - 1
    BY <1>6
  <2> QED
    BY <1>2, <1>5, <2>1
<1>7. CASE i >= c
  <2>1. PICK n \in 0..c - 1, o \in 0..c - 1 : i = n + c /\ j = o + c /\ n < o
    <3>1. i - c \in 0..c - 1 /\ j - c \in 0..c - 1 /\ i = (i - c) + c /\ j = (j - c) + c
          /\ i - c < j - c
      BY <1>7
    <3> QED
      BY <3>1
  <2> QED
    BY <1>3, <1>5, <2>1
<1>8. CASE i < c /\ c <= j
  <2>1. PICK o \in 0..c - 1 : j = o + c
    <3>1. j - c \in 0..c - 1 /\ j = (j - c) + c
      BY <1>8
    <3> QED
      BY <3>1
  <2>2. PICK t \in Int : f[j] - f[o] = c + 2 * (c * t)
    <3>1. PICK g : Piece(g, f, o, c)
      <4>1. PICK N \in Nat : N = 2 * c
        OBVIOUS
      <4>2. o + c <= N /\ o \in Nat /\ Orbit(f, N)
        BY <4>1
      <4> QED
        BY <4>2, Part
    <3>2. g[0] = f[o] /\ g[c] = f[j]
      <4>1. 0 \in 0..c /\ c \in 0..c /\ 0 + o = o /\ c + o = j
        BY <2>1
      <4> QED
        BY <3>1, <4>1 DEF Piece
    <3> QED
      BY <3>1, <3>2 DEF Returns, Piece
  <2>3. PICK l \in Int : l = 2 * k - 1 - 2 * t
    OBVIOUS
  <2>4. f[i] \in Nat /\ f[j] \in Nat /\ f[o] \in Nat
    BY <1>4, <1>8
  <2>5. f[o] - f[i] = c * l
    <3>1. f[o] - f[i] = (f[j] - f[i]) - (f[j] - f[o])
      BY <2>4
    <3>a. f[o] - f[i] = c * (2 * k) - (c + 2 * (c * t))
      BY <1>5, <2>2, <3>1
    <3>2. c * (2 * k) - (c + 2 * (c * t)) = c * l
      BY <2>3
    <3> QED
      BY <3>a, <3>2
  <2>a. i \in 0..c - 1
    BY <1>8
  <2>6. CASE i < o
    BY <1>2, <2>a, <2>5, <2>6
  <2>7. CASE o < i
    <3>1. f[i] - f[o] = c * (0 - l) /\ 0 - l \in Int
      BY <2>4, <2>5
    <3> QED
      BY <1>2, <2>a, <2>7, <3>1
  <2>8. CASE o = i
    <3>1. c * l = 0
      BY <2>4, <2>5, <2>8
    <3>2. l = 0
      BY <3>1
    <3> QED
      BY <2>3, <3>2
  <2> QED
    BY <1>8, <2>6, <2>7, <2>8
<1> QED
  BY <1>6, <1>7, <1>8

\* Doubling the size keeps all three.
LEMMA CycleTwice ==
    ASSUME NEW c \in Nat \ {0}, Cycle(c)
    PROVE  Cycle(2 * c)
<1>1. PICK e \in Int : Grows(c, e)
  BY DEF Cycle
<1>2. Returns(c) /\ Apart(c)
  BY DEF Cycle
<1>3. PICK e2 \in Int : e2 = e + 2 * (c * (e * e))
  OBVIOUS
<1>4. Grows(2 * c, e2)
  BY <1>1, <1>3, GrowsTwice
<1>5. Returns(2 * c) /\ Apart(2 * c)
  BY <1>1, <1>2, ReturnsTwice, ApartTwice
<1> QED
  BY <1>4, <1>5 DEF Cycle

\* Every size of the table is one of the sizes reached from 1 by doubling.
LEMMA CycleCaps == \A c \in Caps : Cycle(c)
<1> DEFINE T == {c \in Caps : ~Cycle(c)}
<1>1. SUFFICES ASSUME T # {} PROVE FALSE
  OBVIOUS
<1>2. PICK c \in T : \A d \in T : c <= d
  <2>1. T \in SUBSET Nat
    BY IdMapAssumption
  <2> HIDE DEF T
  <2> QED
    BY <1>1, <2>1, Least
<1>3. Cycle(8)
  <2>1. Cycle(2)
    <3>1. 2 = 2 * 1
      OBVIOUS
    <3> QED
      BY <3>1, CycleOne, CycleTwice
  <2>2. Cycle(4)
    <3>1. 4 = 2 * 2
      OBVIOUS
    <3> QED
      BY <2>1, <3>1, CycleTwice
  <2>3. 8 = 2 * 4
    OBVIOUS
  <2> QED
    BY <2>2, <2>3, CycleTwice
<1>4. c \in Caps \ {8} /\ c \in Nat /\ ~Cycle(c)
  BY <1>2, <1>3, IdMapAssumption
<1>5. c > 8 /\ c % 2 = 0 /\ c \div 2 \in Caps
  BY <1>4, IdMapAssumption
<1>6. PICK h \in Caps : h = c \div 2
  BY <1>5
<1>7. h \in Nat \ {0} /\ c = 2 * h /\ h < c
  BY <1>4, <1>5, <1>6
<1>8. Cycle(h)
  BY <1>2, <1>4, <1>7
<1> QED
  BY <1>4, <1>7, <1>8, CycleTwice

\* An orbit reduced to cells is a path.
LEMMA Reduced ==
    ASSUME NEW cap \in Nat \ {0}, NEW start \in Cells(cap)
    PROVE  \E f : /\ Orbit(f, cap)
                  /\ \A n \in Cells(cap) : Path(cap, start)[n] = f[n] % cap
<1>1. start \in Nat /\ Cells(cap) = 0..cap - 1 /\ start < cap
  BY DEF Cells
<1> DEFINE g == [k \in 1..cap |-> [j \in Nat |-> 5 * j + 1]]
<1>2. g \in [1..cap -> [Nat -> Nat]]
  OBVIOUS
<1>3. \A k \in 1..cap, j \in Nat : g[k][j] = 5 * j + 1
  OBVIOUS
<1>4. PICK f : Steps(cap, Nat, start, g, f)
  <2> HIDE DEF g
  <2> QED
    BY <1>1, <1>2, Recursion
<1>5. f \in [0..cap -> Nat] /\ f[0] = start /\ \A k \in 1..cap : f[k] = 5 * f[k - 1] + 1
  <2>1. f \in [0..cap -> Nat] /\ f[0] = start /\ \A k \in 1..cap : f[k] = g[k][f[k - 1]]
    BY <1>4 DEF Steps
  <2>2. \A k \in 1..cap : f[k - 1] \in Nat
    BY <2>1
  <2> HIDE DEF g
  <2> QED
    BY <1>3, <2>1, <2>2
<1>6. Orbit(f, cap)
  BY <1>5 DEF Orbit
<1>7. PICK p : p = Path(cap, start)
  OBVIOUS
<1>8. p[0] = start /\ \A n \in 1..cap - 1 : p[n] = ID_NEXT(cap, p[n - 1])
  BY <1>7, PathIs
<1> DEFINE S == {n \in 0..cap - 1 : p[n] = f[n] % cap}
<1>9. 0 \in S
  <2>1. start % cap = start
    BY <1>1
  <2>2. 0 \in 0..cap - 1
    OBVIOUS
  <2> QED
    BY <1>5, <1>8, <2>1, <2>2
<1>10. \A n \in 0..(cap - 1) - 1 : n \in S => n + 1 \in S
  <2> TAKE n \in 0..(cap - 1) - 1
  <2> HAVE n \in S
  <2>1. /\ n + 1 \in 1..cap - 1 /\ (n + 1) - 1 = n /\ n + 1 \in 0..cap - 1 /\ n \in 0..cap
        /\ n + 1 \in 1..cap /\ p[n] = f[n] % cap
    OBVIOUS
  <2>2. p[n + 1] = ((f[n] % cap) * 5 + 1) % cap
    BY <1>8, <2>1 DEF ID_NEXT
  <2>3. f[n] \in Nat /\ f[n + 1] = 5 * f[n] + 1
    BY <1>5, <2>1
  <2> QED
    BY <2>1, <2>2, <2>3, ModNext
<1>11. 0..cap - 1 \subseteq S
  <2>1. cap - 1 \in Nat
    OBVIOUS
  <2> HIDE DEF S
  <2> QED
    BY <1>9, <1>10, <2>1, InductionTo
<1> QED
  BY <1>1, <1>6, <1>7, <1>11

\* The cells tried for an id are all the cells of the table, each once.
THEOREM ProbeAll ==
    ASSUME NEW cap \in Caps, NEW id \in Nat
    PROVE  /\ Probe(cap, id) \in [Cells(cap) -> Cells(cap)]
           /\ \A i, j \in Cells(cap) : Probe(cap, id)[i] = Probe(cap, id)[j] => i = j
           /\ \A c \in Cells(cap) : \E n \in Cells(cap) : Probe(cap, id)[n] = c
<1>1. cap \in Nat \ {0} /\ Cells(cap) = 0..cap - 1
  BY IdMapAssumption DEF Cells
<1>2. PICK start \in Cells(cap) : start = id % cap
  BY <1>1
<1>3. PICK p : p = Path(cap, start)
  OBVIOUS
<1>4. Probe(cap, id) = p
  BY <1>2, <1>3 DEF Probe, Probes
<1>5. p \in [Cells(cap) -> Cells(cap)]
  BY <1>1, <1>3, PathIs
<1>6. PICK f : Orbit(f, cap) /\ \A n \in Cells(cap) : p[n] = f[n] % cap
  BY <1>1, <1>3, Reduced
<1>7. Apart(cap)
  BY CycleCaps DEF Cycle
<1>8. ASSUME NEW i \in Cells(cap), NEW j \in Cells(cap), i < j PROVE p[i] # p[j]
  <2> SUFFICES ASSUME p[i] = p[j] PROVE FALSE
    OBVIOUS
  <2>1. f[i] \in Nat /\ f[j] \in Nat
    BY <1>1, <1>6 DEF Orbit
  <2>2. f[i] % cap = f[j] % cap
    BY <1>6
  <2>3. PICK k \in Int : f[j] - f[i] = cap * k
    BY <1>1, <2>1, <2>2, ModSame
  <2>4. i \in 0..cap - 1 /\ j \in 0..cap - 1
    BY <1>1
  <2> QED
    BY <1>6, <1>7, <1>8, <2>3, <2>4 DEF Apart
<1>9. \A i, j \in Cells(cap) : p[i] = p[j] => i = j
  <2> TAKE i, j \in Cells(cap)
  <2>1. i = j \/ i < j \/ j < i
    BY <1>1
  <2> QED
    BY <1>8, <2>1
<1>10. p \in Injection(Cells(cap), Cells(cap))
  BY <1>5, <1>9 DEF Injection, IsInjective
<1>11. IsFiniteSet(Cells(cap))
  BY <1>1, FS_Interval
<1>12. p \in Surjection(Cells(cap), Cells(cap))
  BY <1>10, <1>11, FS_Injection
<1>13. \A c \in Cells(cap) : \E n \in Cells(cap) : p[n] = c
  BY <1>12 DEF Surjection
<1> QED
  BY <1>4, <1>5, <1>9, <1>13

-----------------------------------------------------------------------------
(* A table and what it holds.                                              *)

Vals == (UNION {Values[i] : i \in Ids}) \union {None}
Entries == [key : Nat, skips : Int, val : Vals]
Tables(cap) == [id_cap : {cap}, id_count : Int, id_load : Int,
                id_entries : [Cells(cap) -> Entries]]

\* A table of one of the sizes, no id of which is in two cells.
Sound(t) ==
    /\ t.id_cap \in Caps /\ t \in Tables(t.id_cap)
    /\ Keys(t) \subseteq Ids
    /\ \A i, j \in Cells(t.id_cap) :
         /\ t.id_entries[i].val # None /\ t.id_entries[j].val # None
         /\ t.id_entries[i].key = t.id_entries[j].key
         => i = j

\* The skips and the load are those of the ids that are stored.
Booked(t) ==
    /\ t.id_load = Cardinality(Probed(t))
    /\ \A j \in Cells(t.id_cap) : t.id_entries[j].skips = Cardinality(Passing(t, j))

\* What is stored for an id.
Found(t, id) ==
    IF id \in Keys(t) THEN t.id_entries[Probe(t.id_cap, id)[Passed(t, id)]].val ELSE None

\* The sizes are at least 8.
LEMMA CapFacts == \A c \in Caps : c \in Nat /\ c >= 8 /\ Cells(c) = 0..c - 1
<1> SUFFICES ASSUME NEW c \in Caps PROVE c \in Nat /\ c >= 8 /\ Cells(c) = 0..c - 1
  OBVIOUS
<1>1. c \in Nat
  BY IdMapAssumption
<1>2. c >= 8
  BY <1>1, IdMapAssumption
<1> QED
  BY <1>1, <1>2 DEF Cells

\* A table and its cells.
LEMMA CellFacts ==
    ASSUME NEW t, Sound(t)
    PROVE  /\ t.id_cap \in Caps /\ t.id_cap \in Nat /\ t.id_cap >= 8
           /\ Cells(t.id_cap) = 0..t.id_cap - 1
           /\ t.id_load \in Int /\ t.id_count \in Int
           /\ t.id_entries \in [Cells(t.id_cap) -> Entries]
           /\ \A j \in Cells(t.id_cap) : /\ t.id_entries[j].key \in Nat
                                         /\ t.id_entries[j].skips \in Int
<1>1. t.id_cap \in Caps /\ t \in Tables(t.id_cap)
  BY DEF Sound
<1>2. t.id_load \in Int /\ t.id_count \in Int /\ t.id_entries \in [Cells(t.id_cap) -> Entries]
  BY <1>1 DEF Tables
<1>3. \A j \in Cells(t.id_cap) : t.id_entries[j].key \in Nat /\ t.id_entries[j].skips \in Int
  BY <1>2 DEF Entries
<1> QED
  BY <1>1, <1>2, <1>3, CapFacts

\* An id that is stored is in one cell of its path.
LEMMA Stays ==
    ASSUME NEW t, Sound(t), NEW id \in Keys(t)
    PROVE  /\ Passed(t, id) \in Cells(t.id_cap) /\ At(t, id, Passed(t, id))
           /\ \A n \in Cells(t.id_cap) : At(t, id, n) => n = Passed(t, id)
<1>1. t.id_cap \in Caps /\ id \in Nat
  BY IdMapAssumption DEF Sound
<1>2. /\ Probe(t.id_cap, id) \in [Cells(t.id_cap) -> Cells(t.id_cap)]
      /\ \A i, j \in Cells(t.id_cap) : Probe(t.id_cap, id)[i] = Probe(t.id_cap, id)[j] => i = j
      /\ \A c \in Cells(t.id_cap) : \E n \in Cells(t.id_cap) : Probe(t.id_cap, id)[n] = c
  BY <1>1, ProbeAll
<1>3. PICK c \in Cells(t.id_cap) : t.id_entries[c].key = id /\ t.id_entries[c].val # None
  BY DEF Keys
<1>4. PICK n \in Cells(t.id_cap) : Probe(t.id_cap, id)[n] = c
  BY <1>2
<1>5. At(t, id, n)
  BY <1>3, <1>4 DEF At
<1>6. Passed(t, id) \in Cells(t.id_cap) /\ At(t, id, Passed(t, id))
  BY <1>5 DEF Passed
<1>7. ASSUME NEW k \in Cells(t.id_cap), At(t, id, k) PROVE k = Passed(t, id)
  <2> DEFINE n1 == Passed(t, id)
             a == Probe(t.id_cap, id)[k]
             b == Probe(t.id_cap, id)[n1]
  <2>1. a \in Cells(t.id_cap) /\ b \in Cells(t.id_cap)
    BY <1>2, <1>6
  <2>2. /\ t.id_entries[a].key = id /\ t.id_entries[a].val # None
        /\ t.id_entries[b].key = id /\ t.id_entries[b].val # None
    BY <1>6, <1>7 DEF At
  <2>3. a = b
    BY <2>1, <2>2 DEF Sound
  <2> QED
    BY <2>3, <1>2, <1>6
<1> QED
  BY <1>6, <1>7

\* The ids stored are finitely many, and so is what is counted of them.
LEMMA Finitely ==
    ASSUME NEW t, Sound(t)
    PROVE  /\ IsFiniteSet(Keys(t)) /\ IsFiniteSet(Probed(t))
           /\ \A j \in Cells(t.id_cap) : IsFiniteSet(Passing(t, j))
<1>1. IsFiniteSet(Keys(t))
  BY FS_Subset, IdMapAssumption DEF Sound
<1>2. IsFiniteSet(Cells(t.id_cap))
  <2>1. 0 \in Int /\ t.id_cap - 1 \in Int /\ Cells(t.id_cap) = 0..t.id_cap - 1
    BY CellFacts
  <2> QED
    BY <2>1, FS_Interval
<1>3. IsFiniteSet(Keys(t) \X Cells(t.id_cap))
  BY <1>1, <1>2, FS_Product
<1>4. IsFiniteSet(Probed(t))
  BY <1>3, FS_Subset DEF Probed
<1>5. \A j \in Cells(t.id_cap) : IsFiniteSet(Passing(t, j))
  BY <1>1, FS_Subset DEF Passing
<1> QED
  BY <1>1, <1>4, <1>5

\* A search finds an id that is stored, and no other.
LEMMA Search ==
    ASSUME NEW t, Sound(t), Booked(t), NEW id \in Ids, t.id_count = 0 => Keys(t) = {}
    PROVE  id_find(t, id) = IF id \in Keys(t) THEN Passed(t, id) ELSE -1
<1> DEFINE C == Cells(t.id_cap)
           path == Probe(t.id_cap, id)
           Entry(n) == t.id_entries[path[n]]
           Hit(n) == Entry(n).key = id /\ Entry(n).val # None
           stops == {n \in C : Hit(n) \/ Ends(Entry(n))}
<1>0. id_find(t, id) = IF t.id_count = 0 \/ stops = {} THEN -1
                       ELSE IF Hit(Min(stops)) THEN Min(stops) ELSE -1
  BY DEF id_find
<1>1. t.id_cap \in Caps /\ id \in Nat /\ C \subseteq Nat
  BY IdMapAssumption, CellFacts
<1>2. /\ path \in [C -> C]
      /\ \A c \in C : \E n \in C : path[n] = c
  BY <1>1, ProbeAll
<1>3. CASE id \in Keys(t)
  <2> DEFINE p == Passed(t, id)
  <2>1. p \in C /\ At(t, id, p) /\ \A n \in C : At(t, id, n) => n = p
    BY <1>3, Stays
  <2>2. \A n \in C : Hit(n) <=> n = p
    BY <2>1 DEF At
  <2>3. ASSUME NEW k \in C, k < p PROVE ~Ends(Entry(k))
    <3>1. path[k] \in C
      BY <1>2
    <3>a. k \in Nat /\ p \in Nat
      BY <1>1, <2>1
    <3> HIDE DEF p
    <3>b. k \in 0..p - 1
      BY <3>a, <2>3
    <3>2. id \in Passing(t, path[k])
      BY <3>b, <1>3 DEF Passing, p
    <3>3. IsFiniteSet(Passing(t, path[k]))
      BY <3>1, Finitely
    <3>4. Cardinality(Passing(t, path[k])) # 0
      BY <3>2, <3>3, FS_EmptySet
    <3> QED
      BY <3>1, <3>4 DEF Ends, Booked
  <2>4. p \in stops /\ \A k \in stops : p <= k
    <3>1. \A k \in stops : k \in C /\ k \in Nat /\ p \in Nat
      BY <1>1, <2>1
    <3> HIDE DEF p
    <3>2. ASSUME NEW k \in stops PROVE p <= k
      <4>1. k = p \/ Ends(Entry(k))
        BY <2>2
      <4> QED
        BY <4>1, <2>3, <3>1
    <3> QED
      BY <3>2, <2>1, <2>2
  <2>5. Min(stops) \in stops /\ \A k \in stops : Min(stops) <= k
    <3>1. stops \in SUBSET Nat /\ stops # {}
      BY <1>1, <2>4
    <3> HIDE DEF stops
    <3> QED
      BY <3>1, Least
  <2>6. Min(stops) = p
    <3>1. Min(stops) <= p /\ p <= Min(stops)
      BY <2>4, <2>5
    <3>2. Min(stops) \in Nat /\ p \in Nat
      BY <2>5, <2>1, <1>1
    <3> HIDE DEF stops, p
    <3> QED
      BY <3>1, <3>2
  <2> HIDE DEF stops, p, Hit
  <2>7. t.id_count # 0 /\ stops # {} /\ Hit(Min(stops))
    BY <2>1, <2>2, <2>4, <2>6, <1>3
  <2> QED
    BY <1>0, <1>3, <2>6, <2>7 DEF p
<1>4. CASE id \notin Keys(t)
  <2>1. \A n \in C : ~Hit(n)
    BY <1>4, <1>2 DEF Keys
  <2>2. stops # {} => Min(stops) \in C
    <3>1. stops \in SUBSET Nat /\ stops \subseteq C
      BY <1>1
    <3> HIDE DEF stops
    <3> QED
      BY <3>1, Least
  <2> HIDE DEF stops, Hit
  <2> QED
    BY <1>0, <1>4, <2>1, <2>2
<1> QED
  BY <1>3, <1>4

\* nni_id_get returns what is stored.
LEMMA Get ==
    ASSUME NEW t, Sound(t), Booked(t), NEW id \in Ids, t.id_count = 0 => Keys(t) = {}
    PROVE  nni_id_get(t, id) = Found(t, id)
<1>1. CASE id \in Keys(t)
  <2>1. id_find(t, id) = Passed(t, id)
    BY Search, <1>1
  <2>2. Passed(t, id) # -1
    BY <1>1, Stays, CellFacts
  <2> QED
    BY <1>1, <2>1, <2>2 DEF nni_id_get, Found
<1>2. CASE id \notin Keys(t)
  BY <1>2, Search DEF nni_id_get, Found
<1> QED
  BY <1>1, <1>2

-----------------------------------------------------------------------------
(* Two tables that differ by an id.                                        *)

\* Table u is t with id in the n-th cell of its path, as far as ids and values go.
OneMore(t, u, id, n) ==
    LET c == Probe(t.id_cap, id)[n]
    IN  /\ u.id_cap = t.id_cap /\ n \in Cells(t.id_cap)
        /\ t.id_entries[c].val = None
        /\ u.id_entries[c].key = id /\ u.id_entries[c].val # None
        /\ \A j \in Cells(t.id_cap) \ {c} : /\ u.id_entries[j].key = t.id_entries[j].key
                                            /\ u.id_entries[j].val = t.id_entries[j].val

\* The ids of u are those of t and id.
LEMMA MoreKeys ==
    ASSUME NEW t, NEW u, NEW id \in Ids, NEW n, OneMore(t, u, id, n), t.id_cap \in Caps
    PROVE  Keys(u) = Keys(t) \union {id}
<1> DEFINE C == Cells(t.id_cap)
           c == Probe(t.id_cap, id)[n]
<1>1. c \in C
  <2>1. id \in Nat /\ n \in C
    BY IdMapAssumption DEF OneMore
  <2>2. Probe(t.id_cap, id) \in [C -> C]
    BY <2>1, ProbeAll
  <2> QED
    BY <2>1, <2>2
<1>2. /\ u.id_cap = t.id_cap
      /\ t.id_entries[c].val = None
      /\ u.id_entries[c].key = id /\ u.id_entries[c].val # None
      /\ \A j \in C \ {c} : /\ u.id_entries[j].key = t.id_entries[j].key
                            /\ u.id_entries[j].val = t.id_entries[j].val
  BY DEF OneMore
<1> HIDE DEF c
<1>3. ASSUME NEW i \in Keys(u) PROVE i \in Keys(t) \union {id}
  <2>1. PICK j \in C : i = u.id_entries[j].key /\ u.id_entries[j].val # None
    BY <1>2 DEF Keys
  <2>2. CASE j = c
    BY <2>1, <2>2, <1>2
  <2>3. CASE j # c
    BY <2>1, <2>3, <1>2 DEF Keys
  <2> QED
    BY <2>2, <2>3
<1>4. ASSUME NEW i \in Keys(t) PROVE i \in Keys(u)
  <2>1. PICK j \in C : i = t.id_entries[j].key /\ t.id_entries[j].val # None
    BY DEF Keys
  <2>2. j # c
    BY <2>1, <1>2
  <2> QED
    BY <2>1, <2>2, <1>2 DEF Keys
<1>5. id \in Keys(u)
  BY <1>1, <1>2 DEF Keys
<1> QED
  BY <1>3, <1>4, <1>5

\* Adding an id that is not there keeps a table sound.
LEMMA MoreSound ==
    ASSUME NEW t, NEW u, NEW id \in Ids, NEW n, OneMore(t, u, id, n),
           Sound(t), id \notin Keys(t), u \in Tables(t.id_cap)
    PROVE  Sound(u)
<1> DEFINE C == Cells(t.id_cap)
           c == Probe(t.id_cap, id)[n]
<1>1. /\ u.id_cap = t.id_cap
      /\ t.id_entries[c].val = None
      /\ u.id_entries[c].key = id /\ u.id_entries[c].val # None
      /\ \A j \in C \ {c} : /\ u.id_entries[j].key = t.id_entries[j].key
                            /\ u.id_entries[j].val = t.id_entries[j].val
  BY DEF OneMore
<1>2. Keys(u) \subseteq Ids /\ u.id_cap \in Caps
  BY <1>1, MoreKeys DEF Sound
<1> HIDE DEF c
<1>3. ASSUME NEW i \in C, NEW j \in C, u.id_entries[i].val # None, u.id_entries[j].val # None,
             u.id_entries[i].key = u.id_entries[j].key
      PROVE  i = j
  <2>0. \A k \in C : t.id_entries[k].val # None => t.id_entries[k].key # id
    BY DEF Keys
  <2>1. CASE i = c /\ j # c
    BY <2>0, <2>1, <1>1, <1>3
  <2>2. CASE i # c /\ j = c
    BY <2>0, <2>2, <1>1, <1>3
  <2>3. CASE i # c /\ j # c
    BY <2>3, <1>1, <1>3 DEF Sound
  <2> QED
    BY <2>1, <2>2, <2>3
<1> QED
  BY <1>1, <1>2, <1>3 DEF Sound

\* Taking an id out keeps a table sound.
LEMMA LessSound ==
    ASSUME NEW t, NEW u, NEW id \in Ids, NEW n, OneMore(t, u, id, n),
           Sound(u), t \in Tables(u.id_cap)
    PROVE  Sound(t) /\ Keys(t) = Keys(u) \ {id} /\ id \notin Keys(t)
<1> DEFINE C == Cells(t.id_cap)
           c == Probe(t.id_cap, id)[n]
<1>1. /\ u.id_cap = t.id_cap
      /\ t.id_entries[c].val = None
      /\ u.id_entries[c].key = id /\ u.id_entries[c].val # None
      /\ \A j \in C \ {c} : /\ u.id_entries[j].key = t.id_entries[j].key
                            /\ u.id_entries[j].val = t.id_entries[j].val
  BY DEF OneMore
<1>a. t.id_cap \in Caps
  BY <1>1 DEF Sound
<1>2. t.id_cap \in Caps /\ Keys(u) = Keys(t) \union {id}
  BY <1>a, MoreKeys
<1>3. c \in C
  <2>1. id \in Nat /\ n \in C
    BY IdMapAssumption DEF OneMore
  <2>2. Probe(t.id_cap, id) \in [C -> C]
    BY <1>2, <2>1, ProbeAll
  <2> QED
    BY <2>1, <2>2
<1> HIDE DEF c
<1>4. id \notin Keys(t)
  <2> SUFFICES ASSUME id \in Keys(t) PROVE FALSE
    OBVIOUS
  <2>1. PICK j \in C : id = t.id_entries[j].key /\ t.id_entries[j].val # None
    BY DEF Keys
  <2>2. j # c
    BY <2>1, <1>1
  <2>3. u.id_entries[j].key = id /\ u.id_entries[j].val # None
    BY <2>1, <2>2, <1>1
  <2> QED
    BY <2>2, <2>3, <1>1, <1>3 DEF Sound
<1>5. ASSUME NEW i \in C, NEW j \in C, t.id_entries[i].val # None, t.id_entries[j].val # None,
             t.id_entries[i].key = t.id_entries[j].key
      PROVE  i = j
  BY <1>1, <1>5 DEF Sound
<1>6. Keys(t) \subseteq Ids
  BY <1>2 DEF Sound
<1> QED
  BY <1>1, <1>2, <1>4, <1>5, <1>6 DEF Sound

\* The other ids are where they were.
LEMMA MorePassed ==
    ASSUME NEW t, NEW u, NEW id \in Ids, NEW n, OneMore(t, u, id, n),
           Sound(t), Sound(u), id \notin Keys(t)
    PROVE  /\ Passed(u, id) = n /\ Found(u, id) = u.id_entries[Probe(t.id_cap, id)[n]].val
           /\ \A i \in Keys(t) : Passed(u, i) = Passed(t, i)
           /\ \A i \in Ids \ {id} : Found(u, i) = Found(t, i)
<1> DEFINE C == Cells(t.id_cap)
           c == Probe(t.id_cap, id)[n]
<1>1. /\ u.id_cap = t.id_cap /\ n \in C
      /\ t.id_entries[c].val = None
      /\ u.id_entries[c].key = id /\ u.id_entries[c].val # None
      /\ \A j \in C \ {c} : /\ u.id_entries[j].key = t.id_entries[j].key
                            /\ u.id_entries[j].val = t.id_entries[j].val
  BY DEF OneMore
<1>2. Keys(u) = Keys(t) \union {id} /\ t.id_cap \in Caps
  BY MoreKeys DEF Sound
<1>3. Passed(u, id) = n
  <2>1. At(u, id, n)
    BY <1>1 DEF At
  <2> QED
    BY <2>1, <1>1, <1>2, Stays
<1>4. Found(u, id) = u.id_entries[c].val
  BY <1>1, <1>2, <1>3 DEF Found
<1> HIDE DEF c
<1>5. ASSUME NEW i \in Keys(t)
      PROVE  /\ Passed(u, i) = Passed(t, i)
             /\ u.id_entries[Probe(t.id_cap, i)[Passed(t, i)]].val
                = t.id_entries[Probe(t.id_cap, i)[Passed(t, i)]].val
  <2> DEFINE k == Passed(t, i)
             d == Probe(t.id_cap, i)[k]
  <2>1. k \in C /\ At(t, i, k)
    BY Stays
  <2>2. d \in C
    <3>1. i \in Nat
      BY IdMapAssumption DEF Sound
    <3>2. Probe(t.id_cap, i) \in [C -> C]
      BY <3>1, <1>2, ProbeAll
    <3> QED
      BY <3>2, <2>1
  <2>3. t.id_entries[d].key = i /\ t.id_entries[d].val # None
    BY <2>1 DEF At
  <2> HIDE DEF k
  <2>4. d # c
    BY <2>3, <1>1
  <2>5. u.id_entries[d].key = i /\ u.id_entries[d].val = t.id_entries[d].val
    BY <2>2, <2>3, <2>4, <1>1
  <2>6. At(u, i, k)
    BY <2>3, <2>5, <1>1 DEF At
  <2>7. k = Passed(u, i)
    BY <2>1, <2>6, <1>1, <1>2, Stays
  <2> QED
    BY <2>5, <2>7 DEF k
<1>6. ASSUME NEW i \in Ids \ {id} PROVE Found(u, i) = Found(t, i)
  <2>1. CASE i \in Keys(t)
    BY <2>1, <1>1, <1>2, <1>5 DEF Found
  <2>2. CASE i \notin Keys(t)
    BY <2>2, <1>2 DEF Found
  <2> QED
    BY <2>1, <2>2
<1> QED
  BY <1>3, <1>4, <1>5, <1>6 DEF c

\* The id adds what it passed to the skips and to the load.
LEMMA MoreProbed ==
    ASSUME NEW t, NEW u, NEW id \in Ids, NEW n, OneMore(t, u, id, n),
           Sound(t), Sound(u), id \notin Keys(t)
    PROVE  Cardinality(Probed(u)) = Cardinality(Probed(t)) + n + 1
<1> DEFINE C == Cells(t.id_cap)
           More == {id} \X (0..n)
<1>1. /\ u.id_cap = t.id_cap /\ n \in C /\ Keys(u) = Keys(t) \union {id}
      /\ t.id_cap \in Nat /\ C = 0..t.id_cap - 1 /\ n \in Nat /\ n < t.id_cap
  <2>1. u.id_cap = t.id_cap /\ n \in C /\ Keys(u) = Keys(t) \union {id}
    BY MoreKeys DEF OneMore, Sound
  <2>2. t.id_cap \in Nat /\ C = 0..t.id_cap - 1
    BY CellFacts
  <2> HIDE DEF C
  <2> QED
    BY <2>1, <2>2
<1>2. Passed(u, id) = n /\ \A i \in Keys(t) : Passed(u, i) = Passed(t, i)
  BY MorePassed
<1>3. 0..n = {k \in C : k <= n}
  BY <1>1
<1> HIDE DEF C
<1>4. Probed(u) = Probed(t) \union More
  <2>1. ASSUME NEW x \in Probed(u) PROVE x \in Probed(t) \union More
    <3>1. x \in Keys(u) \X C /\ x[2] <= Passed(u, x[1])
      BY <1>1 DEF Probed, C
    <3>2. PICK i \in Keys(u), k \in C : x = <<i, k>>
      BY <3>1
    <3>3. k <= Passed(u, i)
      BY <3>1, <3>2
    <3>4. CASE i = id
      BY <3>2, <3>3, <3>4, <1>2, <1>3
    <3>5. CASE i \in Keys(t)
      BY <3>2, <3>3, <3>5, <1>2 DEF Probed, C
    <3> QED
      BY <3>4, <3>5, <1>1
  <2>2. ASSUME NEW x \in Probed(t) PROVE x \in Probed(u)
    <3>1. x \in Keys(t) \X C /\ x[2] <= Passed(t, x[1])
      BY DEF Probed, C
    <3>2. PICK i \in Keys(t), k \in C : x = <<i, k>>
      BY <3>1
    <3>3. k <= Passed(u, i) /\ i \in Keys(u)
      BY <3>1, <3>2, <1>1, <1>2
    <3> QED
      BY <3>2, <3>3, <1>1 DEF Probed, C
  <2>3. ASSUME NEW x \in More PROVE x \in Probed(u)
    <3>1. PICK k \in 0..n : x = <<id, k>>
      OBVIOUS
    <3>2. k \in C /\ k <= Passed(u, id) /\ id \in Keys(u)
      BY <1>1, <1>2, <1>3
    <3> QED
      BY <3>1, <3>2, <1>1 DEF Probed, C
  <2> QED
    BY <2>1, <2>2, <2>3
<1>5. Probed(t) \intersect More = {}
  BY DEF Probed
<1>6. IsFiniteSet(More) /\ Cardinality(More) = n + 1
  <2>0. 0 \in Int /\ n \in Int /\ 0 <= n
    BY <1>1
  <2>1. IsFiniteSet(0..n) /\ Cardinality(0..n) = n + 1
    BY <2>0, FS_Interval
  <2>2. IsFiniteSet({id}) /\ Cardinality({id}) = 1
    BY FS_Singleton
  <2>3. IsFiniteSet(More) /\ Cardinality(More) = Cardinality({id}) * Cardinality(0..n)
    BY <2>1, <2>2, FS_Product
  <2> QED
    BY <2>1, <2>2, <2>3, <1>1
<1>7. IsFiniteSet(Probed(t))
  BY Finitely
<1> HIDE DEF More
<1>8. Cardinality(Probed(t) \union More)
        = Cardinality(Probed(t)) + Cardinality(More) - Cardinality(Probed(t) \intersect More)
  BY <1>6, <1>7, FS_Union
<1>9. Cardinality(Probed(t) \intersect More) = 0
  BY <1>5, FS_EmptySet
<1>10. Cardinality(Probed(t)) \in Nat
  BY <1>7, FS_CardinalityType
<1> QED
  BY <1>1, <1>4, <1>6, <1>8, <1>9, <1>10

\* A cell is passed by one id more, if id passed it.
LEMMA MorePassing ==
    ASSUME NEW t, NEW u, NEW id \in Ids, NEW n, OneMore(t, u, id, n),
           Sound(t), Sound(u), id \notin Keys(t), NEW j \in Cells(t.id_cap)
    PROVE  Cardinality(Passing(u, j)) = Cardinality(Passing(t, j))
             + (IF \E k \in 0..n - 1 : Probe(t.id_cap, id)[k] = j THEN 1 ELSE 0)
<1>1. u.id_cap = t.id_cap /\ Keys(u) = Keys(t) \union {id}
  BY MoreKeys DEF OneMore, Sound
<1>2. Passed(u, id) = n /\ \A i \in Keys(t) : Passed(u, i) = Passed(t, i)
  BY MorePassed
<1>3. IsFiniteSet(Passing(t, j)) /\ Cardinality(Passing(t, j)) \in Nat
  BY Finitely, FS_CardinalityType
<1>4. id \notin Passing(t, j)
  BY DEF Passing
<1>5. CASE \E k \in 0..n - 1 : Probe(t.id_cap, id)[k] = j
  <2>1. Passing(u, j) = Passing(t, j) \union {id}
    BY <1>1, <1>2, <1>5 DEF Passing
  <2>2. Cardinality(Passing(t, j) \union {id}) = Cardinality(Passing(t, j)) + 1
    BY <1>3, <1>4, FS_AddElement
  <2> QED
    BY <2>1, <2>2, <1>5
<1>6. CASE ~ \E k \in 0..n - 1 : Probe(t.id_cap, id)[k] = j
  <2>1. Passing(u, j) = Passing(t, j)
    BY <1>1, <1>2, <1>6 DEF Passing
  <2> QED
    BY <2>1, <1>3, <1>6
<1> QED
  BY <1>5, <1>6

\* As far as skips and load go, it is the same: u has those of t and what id passed.
Passes(t, u, id, n) ==
    /\ u.id_load = t.id_load + (n + 1)
    /\ \A j \in Cells(t.id_cap) :
         u.id_entries[j].skips = t.id_entries[j].skips
             + (IF \E k \in 0..n - 1 : Probe(t.id_cap, id)[k] = j THEN 1 ELSE 0)

\* So one table is booked when the other one is.
LEMMA MoreBooked ==
    ASSUME NEW t, NEW u, NEW id \in Ids, NEW n, OneMore(t, u, id, n), Passes(t, u, id, n),
           Sound(t), Sound(u), id \notin Keys(t)
    PROVE  Booked(t) <=> Booked(u)
<1>1. u.id_cap = t.id_cap /\ n \in Int
  <2>1. u.id_cap = t.id_cap /\ n \in Cells(t.id_cap)
    BY DEF OneMore
  <2> QED
    BY <2>1, CellFacts
<1>2. Cardinality(Probed(u)) = Cardinality(Probed(t)) + n + 1
  BY MoreProbed
<1>3. Cardinality(Probed(t)) \in Nat /\ t.id_load \in Int
  BY Finitely, FS_CardinalityType, CellFacts
<1>4. t.id_load = Cardinality(Probed(t)) <=> u.id_load = Cardinality(Probed(u))
  <2>1. u.id_load = t.id_load + (n + 1)
    BY DEF Passes
  <2> QED
    BY <2>1, <1>1, <1>2, <1>3
<1>5. ASSUME NEW j \in Cells(t.id_cap)
      PROVE  t.id_entries[j].skips = Cardinality(Passing(t, j))
               <=> u.id_entries[j].skips = Cardinality(Passing(u, j))
  <2> DEFINE d == IF \E k \in 0..n - 1 : Probe(t.id_cap, id)[k] = j THEN 1 ELSE 0
  <2>1. Cardinality(Passing(u, j)) = Cardinality(Passing(t, j)) + d
    BY MorePassing
  <2>2. u.id_entries[j].skips = t.id_entries[j].skips + d
    BY DEF Passes
  <2>3. Cardinality(Passing(t, j)) \in Int /\ t.id_entries[j].skips \in Int /\ d \in Int
    BY Finitely, FS_CardinalityType, CellFacts
  <2> HIDE DEF d
  <2> QED
    BY <2>1, <2>2, <2>3
<1> QED
  BY <1>1, <1>4, <1>5 DEF Booked

-----------------------------------------------------------------------------
(* What the steps do to a table.                                           *)

\* What a walk leaves.
Walked(t, u, id, n, by, key, val) ==
    LET path == Probe(t.id_cap, id)
    IN  /\ u \in Tables(t.id_cap)
        /\ u.id_cap = t.id_cap /\ u.id_count = t.id_count
        /\ u.id_load = t.id_load + by * (n + 1)
        /\ u.id_entries[path[n]].key = key /\ u.id_entries[path[n]].val = val
        /\ \A j \in Cells(t.id_cap) \ {path[n]} :
             /\ u.id_entries[j].key = t.id_entries[j].key
             /\ u.id_entries[j].val = t.id_entries[j].val
        /\ \A j \in Cells(t.id_cap) :
             u.id_entries[j].skips = t.id_entries[j].skips
               + (IF \E k \in 0..n - 1 : path[k] = j THEN by ELSE 0)

\* A walk does that.
LEMMA WalkIs ==
    ASSUME NEW t, Sound(t), NEW id \in Ids, NEW n \in Cells(t.id_cap), NEW by \in Int,
           NEW key \in Nat, NEW val \in Vals, NEW u, u = Walk(t, id, n, by, key, val)
    PROVE  Walked(t, u, id, n, by, key, val)
<1> DEFINE C == Cells(t.id_cap)
           path == Probe(t.id_cap, id)
           passed == {path[k] : k \in 0..n - 1}
           Entry(j) == IF j = path[n] THEN [t.id_entries[j] EXCEPT !.key = key, !.val = val]
                       ELSE IF j \in passed THEN [t.id_entries[j] EXCEPT !.skips = @ + by]
                       ELSE t.id_entries[j]
           load == t.id_load + by * (n + 1)
           entries == [j \in C |-> Entry(j)]
<1>1. u = [t EXCEPT !.id_load = load, !.id_entries = entries]
  BY DEF Walk
<1>2. /\ t \in Tables(t.id_cap) /\ t.id_load \in Int /\ n \in Int
      /\ t.id_entries \in [C -> Entries]
  <2>1. t \in Tables(t.id_cap) /\ t.id_load \in Int /\ t.id_entries \in [C -> Entries]
    BY CellFacts DEF Sound
  <2>2. C = 0..t.id_cap - 1
    BY CellFacts
  <2>3. n \in Int
    BY <2>2
  <2> QED
    BY <2>1, <2>3
<1>3. load \in Int
  BY <1>2
<1>4. \A j \in C : t.id_entries[j] \in [key : Nat, skips : Int, val : Vals]
  BY <1>2 DEF Entries
<1>5. ASSUME NEW j \in C PROVE Entry(j) \in Entries
  <2> DEFINE e == t.id_entries[j]
  <2>1. e \in [key : Nat, skips : Int, val : Vals] /\ e.skips + by \in Int
    BY <1>4
  <2> HIDE DEF e
  <2>2. [e EXCEPT !.key = key, !.val = val] \in Entries
    BY <2>1 DEF Entries
  <2>3. [e EXCEPT !.skips = @ + by] \in Entries
    BY <2>1 DEF Entries
  <2>4. e \in Entries
    BY <2>1 DEF Entries
  <2> QED
    BY <2>2, <2>3, <2>4 DEF e
<1>6. entries \in [C -> Entries]
  BY <1>5
<1>7. path \in [C -> C] /\ \A i, j \in C : path[i] = path[j] => i = j
  <2>1. id \in Nat /\ t.id_cap \in Caps
    BY IdMapAssumption, CellFacts
  <2> QED
    BY <2>1, ProbeAll
<1>8. path[n] \in C
  BY <1>7
<1>9. path[n] \notin passed
  <2>1. C = 0..t.id_cap - 1 /\ t.id_cap \in Nat
    BY CellFacts
  <2>2. n \in C
    OBVIOUS
  <2> HIDE DEF C, path
  <2>3. \A k \in 0..n - 1 : k \in C /\ k # n
    BY <2>1, <2>2
  <2> QED
    BY <2>2, <2>3, <1>7
<1>10. /\ u \in Tables(t.id_cap)
       /\ u.id_cap = t.id_cap /\ u.id_count = t.id_count
       /\ u.id_load = load /\ u.id_entries = entries
  <2> HIDE DEF load, entries
  <2> QED
    BY <1>1, <1>2, <1>3, <1>6 DEF Tables
<1>11. \A j \in C : u.id_entries[j] = Entry(j)
  BY <1>10
<1>12. /\ u.id_entries[path[n]].key = key /\ u.id_entries[path[n]].val = val
  BY <1>4, <1>8, <1>11
<1>13. \A j \in C \ {path[n]} : /\ u.id_entries[j].key = t.id_entries[j].key
                                /\ u.id_entries[j].val = t.id_entries[j].val
  <2> HIDE DEF path, passed, C
  <2> QED
    BY <1>4, <1>11
<1>14. ASSUME NEW j \in C
       PROVE  u.id_entries[j].skips = t.id_entries[j].skips
                + (IF \E k \in 0..n - 1 : path[k] = j THEN by ELSE 0)
  <2>1. j \in passed <=> \E k \in 0..n - 1 : path[k] = j
    OBVIOUS
  <2> DEFINE e == t.id_entries[j]
  <2>2. e \in [key : Nat, skips : Int, val : Vals] /\ u.id_entries[j] = Entry(j)
    BY <1>4, <1>11
  <2> HIDE DEF path, passed, C, e
  <2>3. CASE j = path[n]
    <3>1. u.id_entries[j] = [e EXCEPT !.key = key, !.val = val]
      BY <2>2, <2>3 DEF e
    <3>2. u.id_entries[j].skips = e.skips /\ e.skips \in Int
      BY <3>1, <2>2
    <3> QED
      BY <3>2, <2>1, <2>3, <1>9 DEF e
  <2>4. CASE j # path[n] /\ j \in passed
    <3>1. u.id_entries[j] = [e EXCEPT !.skips = @ + by]
      BY <2>2, <2>4 DEF e
    <3>2. u.id_entries[j].skips = e.skips + by
      BY <3>1, <2>2
    <3> QED
      BY <3>2, <2>1, <2>4 DEF e
  <2>5. CASE j # path[n] /\ j \notin passed
    <3>1. u.id_entries[j] = e /\ e.skips \in Int
      BY <2>2, <2>5 DEF e
    <3> QED
      BY <3>1, <2>1, <2>5 DEF e
  <2> QED
    BY <2>3, <2>4, <2>5
<1> QED
  BY <1>10, <1>12, <1>13, <1>14 DEF Walked

\* What the table holds does not depend on its count, nor on its values.
Alike(t, u) ==
    /\ u.id_cap = t.id_cap /\ u.id_load = t.id_load
    /\ \A j \in Cells(t.id_cap) :
         /\ u.id_entries[j].key = t.id_entries[j].key
         /\ u.id_entries[j].skips = t.id_entries[j].skips
         /\ u.id_entries[j].val = None <=> t.id_entries[j].val = None

\* Alike tables hold the same ids, in the same cells.
LEMMA AlikeKeys ==
    ASSUME NEW t, NEW u, Alike(t, u), Sound(t), u \in Tables(t.id_cap)
    PROVE  /\ Keys(u) = Keys(t) /\ Sound(u)
           /\ \A i \in Keys(t) : Passed(u, i) = Passed(t, i)
           /\ Booked(t) => Booked(u)
<1>1. Keys(u) = Keys(t)
  <2>1. u.id_cap = t.id_cap
    BY DEF Alike
  <2>2. ASSUME NEW i \in Keys(t) PROVE i \in Keys(u)
    BY <2>1 DEF Keys, Alike
  <2>3. ASSUME NEW i \in Keys(u) PROVE i \in Keys(t)
    BY <2>1 DEF Keys, Alike
  <2> QED
    BY <2>2, <2>3
<1>2. Sound(u)
  BY <1>1 DEF Sound, Alike
<1>3. ASSUME NEW i \in Keys(t) PROVE Passed(u, i) = Passed(t, i)
  <2> DEFINE k == Passed(t, i)
             d == Probe(t.id_cap, i)[k]
  <2>1. k \in Cells(t.id_cap) /\ At(t, i, k)
    BY Stays
  <2>2. d \in Cells(t.id_cap)
    <3>1. i \in Nat /\ t.id_cap \in Caps
      BY IdMapAssumption DEF Sound
    <3>2. Probe(t.id_cap, i) \in [Cells(t.id_cap) -> Cells(t.id_cap)]
      BY <3>1, ProbeAll
    <3> QED
      BY <3>2, <2>1
  <2>3. At(u, i, k)
    BY <2>1, <2>2 DEF At, Alike
  <2>4. u.id_cap = t.id_cap
    BY DEF Alike
  <2> QED
    BY <2>1, <2>3, <2>4, <1>1, <1>2, Stays
<1>4. Probed(u) = Probed(t)
  <2>1. u.id_cap = t.id_cap
    BY DEF Alike
  <2> QED
    BY <2>1, <1>1, <1>3 DEF Probed
<1>5. \A j \in Cells(t.id_cap) : Passing(u, j) = Passing(t, j)
  <2>1. u.id_cap = t.id_cap
    BY DEF Alike
  <2> QED
    BY <2>1, <1>1, <1>3 DEF Passing
<1>6. Booked(t) => Booked(u)
  BY <1>4, <1>5 DEF Booked, Alike
<1> QED
  BY <1>1, <1>2, <1>3, <1>6

\* Nobody has passed a cell that is free: so it is while ids are only added.
Fresh(t) == \A j \in Cells(t.id_cap) : t.id_entries[j].val = None => t.id_entries[j].skips = 0

\* Storing an id that is not there, where there is room.
LEMMA PlaceIs ==
    ASSUME NEW t, Sound(t), Booked(t), NEW id \in Ids, id \notin Keys(t),
           NEW val \in Vals, val # None,
           \E c \in Cells(t.id_cap) : t.id_entries[c].val = None,
           NEW u, u = Place(t, id, val)
    PROVE  /\ Sound(u) /\ Booked(u) /\ Keys(u) = Keys(t) \union {id}
           /\ u.id_cap = t.id_cap /\ u.id_count = t.id_count
           /\ Found(u, id) = val /\ \A i \in Ids \ {id} : Found(u, i) = Found(t, i)
           /\ Fresh(t) => Fresh(u)
<1> DEFINE C == Cells(t.id_cap)
           path == Probe(t.id_cap, id)
           free == {k \in C : t.id_entries[path[k]].val = None}
           n == Min(free)
<1>1. id \in Nat /\ t.id_cap \in Caps /\ C \subseteq Nat
  BY IdMapAssumption, CellFacts
<1>2. \A c \in C : \E k \in C : path[k] = c
  BY <1>1, ProbeAll
<1>3. n \in free /\ \A k \in free : n <= k
  <2>1. free # {} /\ free \in SUBSET Nat
    BY <1>1, <1>2
  <2> HIDE DEF free
  <2> QED
    BY <2>1, Least
<1>4. n \in C /\ t.id_entries[path[n]].val = None
  BY <1>3
<1>5. u = Walk(t, id, n, 1, id, val)
  BY DEF Place
<1> HIDE DEF n
<1>6. /\ u \in Tables(t.id_cap)
      /\ u.id_cap = t.id_cap /\ u.id_count = t.id_count
      /\ u.id_load = t.id_load + 1 * (n + 1)
      /\ u.id_entries[path[n]].key = id
      /\ u.id_entries[path[n]].val = val
      /\ \A j \in C \ {path[n]} :
           /\ u.id_entries[j].key = t.id_entries[j].key
           /\ u.id_entries[j].val = t.id_entries[j].val
      /\ \A j \in C :
           u.id_entries[j].skips = t.id_entries[j].skips
             + (IF \E k \in 0..n - 1 : path[k] = j THEN 1 ELSE 0)
  <2>1. 1 \in Int
    OBVIOUS
  <2>2. Walked(t, u, id, n, 1, id, val)
    BY <2>1, <1>1, <1>4, <1>5, WalkIs
  <2> QED
    BY <2>2 DEF Walked
<1>7. OneMore(t, u, id, n)
  BY <1>4, <1>6 DEF OneMore
<1>8. Passes(t, u, id, n)
  <2>1. n \in Int
    BY <1>1, <1>4
  <2>2. 1 * (n + 1) = n + 1
    BY <2>1
  <2> QED
    BY <2>2, <1>6 DEF Passes
<1>9. Sound(u)
  BY <1>6, <1>7, MoreSound
<1>10. Booked(u)
  BY <1>7, <1>8, <1>9, MoreBooked
<1>11. Keys(u) = Keys(t) \union {id}
  BY <1>1, <1>7, MoreKeys
<1>12. Found(u, id) = val /\ \A i \in Ids \ {id} : Found(u, i) = Found(t, i)
  <2>1. /\ Found(u, id) = u.id_entries[path[n]].val
        /\ \A i \in Ids \ {id} : Found(u, i) = Found(t, i)
    BY <1>7, <1>9, MorePassed
  <2>2. u.id_entries[path[n]].val = val
    BY <1>6
  <2> QED
    BY <2>1, <2>2
<1>13. ASSUME Fresh(t), NEW j \in C, u.id_entries[j].val = None PROVE u.id_entries[j].skips = 0
  <2>1. j # path[n]
    BY <1>6, <1>13
  <2>2. t.id_entries[j].val = None /\ t.id_entries[j].skips = 0
    BY <2>1, <1>6, <1>13 DEF Fresh
  <2>3. ~ \E k \in 0..n - 1 : path[k] = j
    <3> SUFFICES ASSUME NEW k \in 0..n - 1, path[k] = j PROVE FALSE
      OBVIOUS
    <3>1. C = 0..t.id_cap - 1 /\ t.id_cap \in Nat
      BY CellFacts
    <3>2. n \in C
      BY <1>4
    <3> HIDE DEF C, path
    <3>3. k \in C /\ ~(n <= k)
      BY <3>1, <3>2
    <3>4. k \in free
      BY <3>3, <2>2
    <3> QED
      BY <3>3, <3>4, <1>3
  <2> QED
    BY <2>2, <2>3, <1>6
<1> QED
  BY <1>6, <1>9, <1>10, <1>11, <1>12, <1>13 DEF Fresh

\* Taking an id out.
LEMMA TakeOut ==
    ASSUME NEW t, Sound(t), Booked(t), NEW id \in Keys(t),
           NEW u, u = Walk(t, id, Passed(t, id), -1, 0, None)
    PROVE  /\ Sound(u) /\ Booked(u) /\ Keys(u) = Keys(t) \ {id}
           /\ u.id_cap = t.id_cap /\ u.id_count = t.id_count
           /\ \A i \in Ids \ {id} : Found(u, i) = Found(t, i)
<1> DEFINE C == Cells(t.id_cap)
           path == Probe(t.id_cap, id)
           n == Passed(t, id)
<1>1. id \in Ids /\ t.id_cap \in Caps /\ C \subseteq Nat
  BY CellFacts DEF Sound
<1>2. n \in C /\ At(t, id, n)
  BY Stays
<1>3. t.id_entries[path[n]].key = id /\ t.id_entries[path[n]].val # None
  BY <1>2 DEF At
<1>4. -1 \in Int /\ 0 \in Nat /\ None \in Vals /\ n \in Int
  <2>1. None \in Vals
    BY DEF Vals
  <2>2. n \in Int
    BY <1>1, <1>2
  <2> QED
    BY <2>1, <2>2
<1> HIDE DEF n
<1>5. u = Walk(t, id, n, -1, 0, None)
  BY DEF n
<1>6. /\ u \in Tables(t.id_cap)
      /\ u.id_cap = t.id_cap /\ u.id_count = t.id_count
      /\ u.id_load = t.id_load + (-1) * (n + 1)
      /\ u.id_entries[path[n]].key = 0
      /\ u.id_entries[path[n]].val = None
      /\ \A j \in C \ {path[n]} :
           /\ u.id_entries[j].key = t.id_entries[j].key
           /\ u.id_entries[j].val = t.id_entries[j].val
      /\ \A j \in C :
           u.id_entries[j].skips = t.id_entries[j].skips
             + (IF \E k \in 0..n - 1 : path[k] = j THEN -1 ELSE 0)
  <2>1. Walked(t, u, id, n, -1, 0, None)
    BY <1>1, <1>2, <1>4, <1>5, WalkIs
  <2> QED
    BY <2>1 DEF Walked
<1>7. OneMore(u, t, id, n)
  BY <1>2, <1>3, <1>6 DEF OneMore
<1>8. Sound(u) /\ Keys(u) = Keys(t) \ {id} /\ id \notin Keys(u)
  BY <1>1, <1>6, <1>7, LessSound
<1>9. Passes(u, t, id, n)
  <2>1. t.id_load \in Int /\ \A j \in C : t.id_entries[j].skips \in Int
    BY CellFacts
  <2>2. t.id_load = u.id_load + (n + 1)
    BY <2>1, <1>4, <1>6
  <2>3. ASSUME NEW j \in C
        PROVE  t.id_entries[j].skips = u.id_entries[j].skips
                 + (IF \E k \in 0..n - 1 : path[k] = j THEN 1 ELSE 0)
    <3>1. t.id_entries[j].skips \in Int
      BY <2>1
    <3>2. CASE \E k \in 0..n - 1 : path[k] = j
      <4>1. u.id_entries[j].skips = t.id_entries[j].skips + (-1)
        BY <3>2, <1>6
      <4> QED
        BY <3>1, <3>2, <4>1
    <3>3. CASE ~ \E k \in 0..n - 1 : path[k] = j
      <4>1. u.id_entries[j].skips = t.id_entries[j].skips + 0
        BY <3>3, <1>6
      <4> QED
        BY <3>1, <3>3, <4>1
    <3> QED
      BY <3>2, <3>3
  <2> QED
    BY <2>2, <2>3, <1>6 DEF Passes
<1>10. Booked(u)
  BY <1>1, <1>7, <1>8, <1>9, MoreBooked
<1>11. \A i \in Ids \ {id} : Found(u, i) = Found(t, i)
  BY <1>1, <1>7, <1>8, MorePassed
<1> QED
  BY <1>6, <1>8, <1>10, <1>11

\* Where there are fewer ids than cells, one is free.
LEMMA FreeCell ==
    ASSUME NEW t, Sound(t), Cardinality(Keys(t)) < t.id_cap
    PROVE  \E c \in Cells(t.id_cap) : t.id_entries[c].val = None
<1> SUFFICES ASSUME \A c \in Cells(t.id_cap) : t.id_entries[c].val # None PROVE FALSE
  OBVIOUS
<1> DEFINE C == Cells(t.id_cap)
           f == [c \in C |-> t.id_entries[c].key]
<1>1. IsFiniteSet(Keys(t)) /\ Cardinality(Keys(t)) \in Nat
  BY Finitely, FS_CardinalityType
<1>2. IsFiniteSet(C) /\ Cardinality(C) = t.id_cap /\ t.id_cap \in Nat
  <2>1. t.id_cap \in Nat /\ t.id_cap >= 8 /\ C = 0..t.id_cap - 1
    BY CellFacts
  <2>2. 0 \in Int /\ t.id_cap - 1 \in Int /\ ~(0 > t.id_cap - 1)
    BY <2>1
  <2>3. IsFiniteSet(C) /\ Cardinality(C) = (t.id_cap - 1) - 0 + 1
    BY <2>1, <2>2, FS_Interval
  <2> QED
    BY <2>1, <2>3
<1>3. f \in [C -> Keys(t)]
  BY DEF Keys
<1>4. IsInjective(f)
  BY DEF Sound, IsInjective
<1>5. f \in Injection(C, Keys(t))
  BY <1>3, <1>4 DEF Injection
<1>6. Cardinality(C) <= Cardinality(Keys(t))
  BY <1>1, <1>5, FS_Injection
<1> QED
  BY <1>1, <1>2, <1>6

-----------------------------------------------------------------------------
(* A resize.                                                               *)

\* A table that holds nothing.
LEMMA EmptyTable ==
    ASSUME NEW cap \in Nat, NEW count \in Int, NEW u, u = Table(cap, count)
    PROVE  /\ u.id_cap = cap /\ u.id_count = count /\ Keys(u) = {}
           /\ cap \in Caps => Sound(u) /\ Booked(u) /\ Fresh(u)
<1>1. /\ u.id_cap = cap /\ u.id_count = count /\ u.id_load = 0
      /\ u.id_entries = [j \in Cells(cap) |-> Free]
  BY DEF Table
<1>2. Free.val = None /\ Free.skips = 0
  BY DEF Free
<1>3. Keys(u) = {}
  BY <1>1, <1>2 DEF Keys
<1>4. ASSUME cap \in Caps PROVE Sound(u) /\ Booked(u) /\ Fresh(u)
  <2>1. Free \in Entries
    <3>1. None \in Vals
      BY DEF Vals
    <3> QED
      BY <3>1 DEF Free, Entries
  <2>2. u \in Tables(cap)
    BY <2>1 DEF Table, Tables
  <2>3. Sound(u)
    BY <2>2, <1>1, <1>2, <1>3, <1>4 DEF Sound
  <2>4. Probed(u) = {} /\ \A j \in Cells(cap) : Passing(u, j) = {}
    BY <1>3 DEF Probed, Passing
  <2>5. Booked(u)
    BY <2>4, <1>1, <1>2, FS_EmptySet DEF Booked
  <2>6. Fresh(u)
    BY <1>1, <1>2 DEF Fresh
  <2> QED
    BY <2>3, <2>5, <2>6
<1> QED
  BY <1>1, <1>3, <1>4

\* What can be moved: a table, or none yet.
Movable(t) ==
    /\ t.id_cap \in Nat /\ t.id_count \in Int /\ Keys(t) \subseteq Ids
    /\ \A j \in Cells(t.id_cap) : t.id_entries[j].val \in Vals
    /\ \A i, j \in Cells(t.id_cap) :
         /\ t.id_entries[i].val # None /\ t.id_entries[j].val # None
         /\ t.id_entries[i].key = t.id_entries[j].key
         => i = j

\* Table u, of size cap, has what the first k cells of t hold.
Before(t, k) == {j \in 0..k - 1 : t.id_entries[j].val # None}
Carried(t, cap, u, k) ==
    /\ Sound(u) /\ Booked(u) /\ Fresh(u) /\ u.id_cap = cap /\ u.id_count = t.id_count
    /\ Keys(u) = {t.id_entries[j].key : j \in Before(t, k)}
    /\ \A j \in Before(t, k) : Found(u, t.id_entries[j].key) = t.id_entries[j].val

\* Moving the k-th cell carries it, and keeps what was carried.
LEMMA CarryOne ==
    ASSUME NEW t, Movable(t), NEW cap \in Caps, Cardinality(Keys(t)) < cap,
           NEW k \in Cells(t.id_cap), NEW u, Carried(t, cap, u, k)
    PROVE  Carried(t, cap, Move(u, t.id_entries[k]), k + 1)
<1> DEFINE e == t.id_entries[k]
           w == Move(u, e)
<1>1. /\ Sound(u) /\ Booked(u) /\ Fresh(u) /\ u.id_cap = cap /\ u.id_count = t.id_count
      /\ Keys(u) = {t.id_entries[j].key : j \in Before(t, k)}
      /\ \A j \in Before(t, k) : Found(u, t.id_entries[j].key) = t.id_entries[j].val
  BY DEF Carried
<1>2. t.id_cap \in Nat /\ Cells(t.id_cap) = 0..t.id_cap - 1 /\ k \in 0..t.id_cap - 1
  BY DEF Movable, Cells
<1>3. 0..(k + 1) - 1 = (0..k - 1) \union {k} /\ 0..k - 1 \subseteq Cells(t.id_cap)
  BY <1>2
<1>4. k \notin 0..k - 1
  BY <1>2
<1>5. CASE e.val = None
  <2>1. w = u
    BY <1>5 DEF Move
  <2>2. Before(t, k + 1) = Before(t, k)
    BY <1>3, <1>5 DEF Before
  <2>3. Carried(t, cap, u, k + 1)
    BY <2>2, <1>1 DEF Carried
  <2> QED
    BY <2>1, <2>3
<1>6. CASE e.val # None
  <2>1. w = Place(u, e.key, e.val)
    BY <1>6 DEF Move
  <2>2. Before(t, k + 1) = Before(t, k) \union {k}
    BY <1>3, <1>6 DEF Before
  <2>3. Before(t, k) \subseteq Cells(t.id_cap) /\ k \notin Before(t, k)
    BY <1>3, <1>4 DEF Before
  <2>4. \A j \in Before(t, k) : t.id_entries[j].val # None /\ j # k
    BY <2>3 DEF Before
  <2>5. e.key \in Keys(t) /\ e.key \in Ids /\ e.val \in Vals
    BY <1>6 DEF Keys, Movable
  <2>6. \A j \in Before(t, k) : t.id_entries[j].key # e.key
    BY <2>3, <2>4, <1>6 DEF Movable
  <2>7. e.key \notin Keys(u)
    BY <2>6, <1>1
  <2>8. Keys(u) \subseteq Keys(t)
    BY <2>3, <2>4, <1>1 DEF Keys
  <2>9. IsFiniteSet(Keys(t))
    BY FS_Subset, IdMapAssumption DEF Movable
  <2>10. Cardinality(Keys(u)) < u.id_cap
    <3>1. /\ IsFiniteSet(Keys(u)) /\ Cardinality(Keys(u)) <= Cardinality(Keys(t))
          /\ Cardinality(Keys(u)) \in Nat /\ Cardinality(Keys(t)) \in Nat
      BY <2>8, <2>9, FS_Subset, FS_CardinalityType
    <3>2. cap \in Nat
      BY CapFacts
    <3> QED
      BY <3>1, <3>2, <1>1
  <2>11. \E c \in Cells(u.id_cap) : u.id_entries[c].val = None
    BY <2>10, <1>1, FreeCell
  <2> HIDE DEF w, e
  <2>12. /\ Sound(w) /\ Booked(w) /\ Fresh(w) /\ Keys(w) = Keys(u) \union {e.key}
         /\ w.id_cap = u.id_cap /\ w.id_count = u.id_count
         /\ Found(w, e.key) = e.val /\ \A i \in Ids \ {e.key} : Found(w, i) = Found(u, i)
    BY <2>1, <2>5, <2>7, <2>11, <1>1, <1>6, PlaceIs
  <2>13. Keys(w) = {t.id_entries[j].key : j \in Before(t, k + 1)}
    BY <2>2, <2>12, <1>1 DEF e
  <2>14. ASSUME NEW j \in Before(t, k + 1) PROVE Found(w, t.id_entries[j].key) = t.id_entries[j].val
    <3>1. CASE j = k
      BY <3>1, <2>12 DEF e
    <3>2. CASE j \in Before(t, k)
      <4>1. t.id_entries[j].key \in Ids \ {e.key}
        BY <3>2, <2>3, <2>4, <2>6 DEF Keys, Movable
      <4> QED
        BY <4>1, <3>2, <2>12, <1>1
    <3> QED
      BY <3>1, <3>2, <2>2
  <2>15. Carried(t, cap, w, k + 1)
    BY <2>12, <2>13, <2>14, <1>1 DEF Carried
  <2> QED
    BY <2>15 DEF w, e
<1> QED
  BY <1>5, <1>6

\* The tables that id_resize goes through.
Moving(t, cap, f) ==
    /\ f[0] = Table(cap, t.id_count)
    /\ \A k \in 1..t.id_cap : f[k] = Move(f[k - 1], t.id_entries[k - 1])

\* At first nothing is carried.
LEMMA CarryNone ==
    ASSUME NEW t, Movable(t), NEW cap \in Caps
    PROVE  Carried(t, cap, Table(cap, t.id_count), 0)
<1> DEFINE base == Table(cap, t.id_count)
<1>1. t.id_count \in Int /\ cap \in Nat
  BY CapFacts DEF Movable
<1>2. /\ base.id_cap = cap /\ base.id_count = t.id_count /\ Keys(base) = {}
      /\ Sound(base) /\ Booked(base) /\ Fresh(base)
  BY <1>1, EmptyTable
<1>3. Before(t, 0) = {}
  BY DEF Before
<1> HIDE DEF base
<1>4. Carried(t, cap, base, 0)
  BY <1>2, <1>3 DEF Carried
<1> QED
  BY <1>4 DEF base

\* In the end everything is.
LEMMA CarryAll ==
    ASSUME NEW t, Movable(t), NEW cap \in Caps, Cardinality(Keys(t)) < cap,
           NEW f, Moving(t, cap, f)
    PROVE  \A k \in 0..t.id_cap : Carried(t, cap, f[k], k)
<1>0. PICK N \in Nat : N = t.id_cap
  BY DEF Movable
<1>1. Cells(t.id_cap) = 0..N - 1
  BY <1>0 DEF Cells
<1> DEFINE T == {k \in 0..N : Carried(t, cap, f[k], k)}
<1>2. 0 \in T
  BY CarryNone DEF Moving
<1>3. \A k \in 0..N - 1 : k \in T => k + 1 \in T
  <2> TAKE k \in 0..N - 1
  <2> HAVE k \in T
  <2>1. k + 1 \in 1..N /\ (k + 1) - 1 = k /\ k + 1 \in 0..N
    OBVIOUS
  <2>2. f[k + 1] = Move(f[k], t.id_entries[k])
    BY <2>1, <1>0 DEF Moving
  <2>3. Carried(t, cap, Move(f[k], t.id_entries[k]), k + 1)
    BY <1>1, CarryOne
  <2> QED
    BY <2>1, <2>2, <2>3
<1>4. 0..N \subseteq T
  <2> HIDE DEF T
  <2> QED
    BY <1>2, <1>3, InductionTo
<1> QED
  BY <1>0, <1>4

\* The tables of a resize exist, and the last one is the resized table.
LEMMA MovedIs ==
    ASSUME NEW t, Movable(t), NEW cap \in Caps, Cardinality(Keys(t)) < cap
    PROVE  Carried(t, cap, Moved(t, cap), t.id_cap)
<1> DEFINE IsNew(f) == f = [k \in 0..t.id_cap |->
                              IF k = 0 THEN Table(cap, t.id_count)
                              ELSE Move(f[k - 1], t.id_entries[k - 1])]
<1>0. PICK N \in Nat : N = t.id_cap
  BY DEF Movable
<1>1. Cells(t.id_cap) = 0..N - 1
  BY <1>0 DEF Cells
<1> DEFINE S == Tables(cap)
           base == Table(cap, t.id_count)
           One(u, k) == Move(u, t.id_entries[k - 1])
           g == [k \in 1..N |-> [u \in S |-> IF One(u, k) \in S THEN One(u, k) ELSE u]]
<1>2. Carried(t, cap, base, 0)
  BY CarryNone
<1>3. base \in S
  <2> HIDE DEF base
  <2> QED
    BY <1>2 DEF Carried, Sound
<1>4. g \in [1..N -> [S -> S]]
  <2> HIDE DEF S, One
  <2> QED
    OBVIOUS
<1>5. \A k \in 1..N : \A u \in S : g[k][u] = IF One(u, k) \in S THEN One(u, k) ELSE u
  <2> HIDE DEF S, One
  <2> QED
    OBVIOUS
<1> HIDE DEF g, base, One
<1>6. PICK f : Steps(N, S, base, g, f)
  <2> HIDE DEF S
  <2> QED
    BY <1>3, <1>4, Recursion
<1>7. f \in [0..N -> S] /\ f[0] = base /\ \A k \in 1..N : f[k] = g[k][f[k - 1]]
  BY <1>6 DEF Steps
<1> DEFINE T == {k \in 0..N : Carried(t, cap, f[k], k)}
<1>8. 0 \in T
  BY <1>2, <1>7
<1>9. ASSUME NEW k \in 0..N - 1, Carried(t, cap, f[k], k)
      PROVE  f[k + 1] = Move(f[k], t.id_entries[k]) /\ Carried(t, cap, f[k + 1], k + 1)
  <2>1. k + 1 \in 1..N /\ (k + 1) - 1 = k /\ k \in 0..N
    OBVIOUS
  <2>2. Carried(t, cap, Move(f[k], t.id_entries[k]), k + 1)
    BY <1>1, <1>9, CarryOne
  <2>3. One(f[k], k + 1) = Move(f[k], t.id_entries[k])
    BY <2>1 DEF One
  <2>4. Move(f[k], t.id_entries[k]) \in S
    BY <2>2 DEF Carried, Sound
  <2>5. f[k] \in S
    BY <2>1, <1>7
  <2>6. f[k + 1] = g[k + 1][f[k]]
    BY <2>1, <1>7
  <2> HIDE DEF S
  <2>7. f[k + 1] = Move(f[k], t.id_entries[k])
    BY <2>1, <2>3, <2>4, <2>5, <2>6, <1>5
  <2> QED
    BY <2>2, <2>7
<1>10. \A k \in 0..N - 1 : k \in T => k + 1 \in T
  <2> TAKE k \in 0..N - 1
  <2> HAVE k \in T
  <2>1. k + 1 \in 0..N
    OBVIOUS
  <2> QED
    BY <2>1, <1>9
<1>11. 0..N \subseteq T
  <2> HIDE DEF T
  <2> QED
    BY <1>8, <1>10, InductionTo
<1>12. \A k \in 1..N : f[k] = Move(f[k - 1], t.id_entries[k - 1])
  <2> TAKE k \in 1..N
  <2>1. k - 1 \in 0..N - 1 /\ k - 1 \in 0..N /\ (k - 1) + 1 = k
    OBVIOUS
  <2>2. Carried(t, cap, f[k - 1], k - 1)
    BY <2>1, <1>11
  <2> HIDE DEF T
  <2>3. f[(k - 1) + 1] = Move(f[k - 1], t.id_entries[k - 1])
    BY <2>1, <2>2, <1>9
  <2> QED
    BY <2>1, <2>3
<1>13. IsNew(f)
  <2>1. \A k \in 0..N : f[k] = IF k = 0 THEN Table(cap, t.id_count)
                               ELSE Move(f[k - 1], t.id_entries[k - 1])
    <3> TAKE k \in 0..N
    <3>1. k = 0 \/ k \in 1..N
      OBVIOUS
    <3> HIDE DEF S, T
    <3> QED
      BY <3>1, <1>7, <1>12 DEF base
  <2>2. f = [k \in 0..N |-> f[k]]
    BY <1>7
  <2>3. f = [k \in 0..N |-> IF k = 0 THEN Table(cap, t.id_count)
                            ELSE Move(f[k - 1], t.id_entries[k - 1])]
    <3> HIDE DEF S, T
    <3> QED
      BY <2>1, <2>2
  <2> QED
    BY <2>3, <1>0
<1>14. PICK c : c = CHOOSE h : IsNew(h)
  OBVIOUS
<1>15. IsNew(c)
  <2> HIDE DEF IsNew
  <2> QED
    BY <1>13, <1>14
<1>16. Moved(t, cap) = c[N]
  BY <1>0, <1>14 DEF Moved
<1>17. Moving(t, cap, c)
  <2>1. \A k \in 0..N : c[k] = IF k = 0 THEN Table(cap, t.id_count)
                               ELSE Move(c[k - 1], t.id_entries[k - 1])
    BY <1>0, <1>15
  <2>2. 0 \in 0..N /\ \A k \in 1..N : k \in 0..N /\ k # 0
    OBVIOUS
  <2> HIDE DEF IsNew
  <2> QED
    BY <2>1, <2>2, <1>0 DEF Moving
<1>18. N \in 0..N
  OBVIOUS
<1> QED
  BY <1>0, <1>16, <1>17, <1>18, CarryAll

\* The size that is chosen holds the ids and as many more.
LEMMA NewCapIs ==
    ASSUME NEW count \in Nat, count <= Cardinality(Ids)
    PROVE  NewCap(count) \in Caps /\ NewCap(count) >= 2 * count
<1> DEFINE S == {c \in Caps : c >= count * 2}
<1>1. PICK c \in Caps : c >= 2 * Cardinality(Ids)
  BY IdMapAssumption
<1>2. Cardinality(Ids) \in Nat /\ c \in Nat
  BY IdMapAssumption, FS_CardinalityType
<1>3. c >= count * 2
  BY <1>1, <1>2
<1>4. S # {} /\ S \in SUBSET Nat
  BY <1>3, IdMapAssumption
<1>5. Min(S) \in S
  <2> HIDE DEF S
  <2> QED
    BY <1>4, Least
<1>6. NewCap(count) \in S
  BY <1>5 DEF NewCap
<1>7. NewCap(count) \in Caps /\ NewCap(count) >= count * 2 /\ NewCap(count) \in Nat
  BY <1>6, IdMapAssumption
<1> QED
  BY <1>7

\* A table as the calls leave it, before or after one is allocated.
Held(t) ==
    /\ t.id_count = Cardinality(Keys(t)) /\ Keys(t) \subseteq Ids
    /\ \/ t = Table(0, 0)
       \/ Sound(t) /\ Booked(t)

\* What the calls leave can be moved.
LEMMA HeldMovable == ASSUME NEW t, Held(t) PROVE Movable(t)
<1>1. CASE t = Table(0, 0)
  <2>1. t.id_cap = 0 /\ t.id_count = 0
    BY <1>1 DEF Table
  <2>2. Cells(t.id_cap) = {}
    BY <2>1 DEF Cells
  <2> QED
    BY <2>1, <2>2 DEF Movable, Held
<1>2. CASE Sound(t)
  <2>1. t.id_cap \in Nat /\ t.id_count \in Int /\ t.id_entries \in [Cells(t.id_cap) -> Entries]
    BY <1>2, CellFacts
  <2>2. \A j \in Cells(t.id_cap) : t.id_entries[j].val \in Vals
    BY <2>1 DEF Entries
  <2> QED
    BY <2>1, <2>2, <1>2 DEF Movable, Sound
<1> QED
  BY <1>1, <1>2 DEF Held

\* A search in a table as the calls leave it.
LEMMA HeldFind ==
    ASSUME NEW t, Held(t), NEW id \in Ids
    PROVE  /\ id_find(t, id) = IF id \in Keys(t) THEN Passed(t, id) ELSE -1
           /\ id \in Keys(t) => Passed(t, id) # -1
           /\ nni_id_get(t, id) = Found(t, id)
<1>1. CASE t = Table(0, 0)
  <2>1. t.id_count = 0 /\ Keys(t) = {}
    BY <1>1, EmptyTable
  <2>2. id_find(t, id) = -1
    BY <2>1 DEF id_find
  <2> QED
    BY <2>1, <2>2 DEF nni_id_get, Found
<1>2. CASE Sound(t) /\ Booked(t)
  <2>1. t.id_count = Cardinality(Keys(t)) /\ IsFiniteSet(Keys(t))
    BY <1>2, Finitely DEF Held
  <2>2. t.id_count = 0 => Keys(t) = {}
    BY <2>1, FS_EmptySet
  <2>3. id \in Keys(t) => Passed(t, id) # -1
    <3> HAVE id \in Keys(t)
    <3>1. Passed(t, id) \in Cells(t.id_cap) /\ Cells(t.id_cap) = 0..t.id_cap - 1
      BY <1>2, Stays, CellFacts
    <3> QED
      BY <3>1
  <2> QED
    BY <2>2, <2>3, <1>2, Search, Get
<1> QED
  BY <1>1, <1>2 DEF Held

\* What is stored has a value.
LEMMA HeldFound ==
    ASSUME NEW t, Held(t), NEW id \in Ids
    PROVE  Found(t, id) # None <=> id \in Keys(t)
<1>1. CASE id \in Keys(t)
  <2>1. t # Table(0, 0)
    BY <1>1, EmptyTable
  <2>2. Sound(t)
    BY <2>1 DEF Held
  <2>3. At(t, id, Passed(t, id))
    BY <2>2, <1>1, Stays
  <2> QED
    BY <2>3, <1>1 DEF At, Found
<1>2. CASE id \notin Keys(t)
  BY <1>2 DEF Found
<1> QED
  BY <1>1, <1>2

\* Every id stored has at least one probe.
LEMMA LoadCount ==
    ASSUME NEW t, Sound(t)
    PROVE  Cardinality(Keys(t)) <= Cardinality(Probed(t))
<1> DEFINE f == [i \in Keys(t) |-> <<i, 0>>]
<1>1. f \in [Keys(t) -> Probed(t)]
  <2>1. ASSUME NEW i \in Keys(t) PROVE <<i, 0>> \in Probed(t)
    <3>1. Passed(t, i) \in Cells(t.id_cap)
      BY Stays
    <3>2. t.id_cap \in Nat /\ t.id_cap >= 8 /\ Cells(t.id_cap) = 0..t.id_cap - 1
      BY CellFacts
    <3>3. 0 \in Cells(t.id_cap) /\ 0 <= Passed(t, i)
      BY <3>1, <3>2
    <3> QED
      BY <3>3 DEF Probed
  <2> QED
    BY <2>1
<1>2. f \in Injection(Keys(t), Probed(t))
  BY <1>1 DEF Injection, IsInjective
<1> QED
  BY <1>2, Finitely, FS_Injection

\* After id_resize there is room for one more id, and for yet another.
LEMMA ResizeIs ==
    ASSUME NEW t, Held(t), NEW u, u = id_resize(t)
    PROVE  /\ Held(u) /\ Sound(u) /\ Booked(u) /\ Keys(u) = Keys(t)
           /\ u.id_count = t.id_count /\ u.id_count + 1 < u.id_cap
           /\ \A i \in Ids : Found(u, i) = Found(t, i)
<1> DEFINE count == Cardinality(Keys(t))
           cap == NewCap(t.id_count)
<1>1. t.id_count = count /\ count \in Nat /\ count <= Cardinality(Ids) /\ IsFiniteSet(Keys(t))
  BY IdMapAssumption, FS_Subset, FS_CardinalityType DEF Held
<1>2. cap \in Caps /\ cap >= 2 * count /\ cap \in Nat /\ cap >= 8
  BY <1>1, NewCapIs, CapFacts
<1>3. CASE Fits(t)
  <2>1. u = t
    BY <1>3 DEF id_resize
  <2>2. t # Table(0, 0)
    <3> SUFFICES ASSUME t = Table(0, 0) PROVE FALSE
      OBVIOUS
    <3>1. t.id_cap = 0 /\ t.id_load = 0
      BY DEF Table
    <3>2. ~(0 < MaxLoad(0))
      BY DEF MaxLoad
    <3>3. cap = 0
      BY <3>1, <3>2, <1>3 DEF Fits
    <3> QED
      BY <3>3, <1>2
  <2>3. Sound(t) /\ Booked(t)
    BY <2>2 DEF Held
  <2>4. count + 1 < t.id_cap
    <3>0. PICK c \in Nat : c = t.id_cap /\ c >= 8
      BY <2>3, CellFacts
    <3>1. CASE cap = t.id_cap
      <4> HIDE DEF count, cap
      <4> QED
        BY <3>1, <1>1, <1>2
    <3>2. CASE t.id_load < MaxLoad(t.id_cap)
      <4>1. count <= t.id_load /\ t.id_load \in Int
        BY <2>3, LoadCount, CellFacts DEF Booked
      <4>2. MaxLoad(c) \in Int /\ MaxLoad(c) + 1 <= c
        BY <3>0 DEF MaxLoad
      <4> HIDE DEF count
      <4> QED
        BY <3>0, <3>2, <4>1, <4>2, <1>1
    <3> QED
      BY <3>1, <3>2, <1>3 DEF Fits
  <2> QED
    BY <2>1, <2>3, <2>4, <1>1
<1>4. CASE ~Fits(t)
  <2>1. u = Moved(t, cap)
    BY <1>4 DEF id_resize
  <2>2. count + 1 < cap
    <3> HIDE DEF count, cap
    <3> QED
      BY <1>1, <1>2
  <2>3. Movable(t)
    BY HeldMovable
  <2>4. Carried(t, cap, u, t.id_cap)
    <3>1. Cardinality(Keys(t)) < cap
      <4> HIDE DEF cap
      <4> QED
        BY <1>1, <1>2, <2>2
    <3> HIDE DEF cap
    <3> QED
      BY <3>1, <2>1, <2>3, <1>2, MovedIs
  <2>5. Before(t, t.id_cap) = {j \in Cells(t.id_cap) : t.id_entries[j].val # None}
    BY DEF Before, Cells
  <2>6. /\ Sound(u) /\ Booked(u) /\ u.id_cap = cap /\ u.id_count = t.id_count
        /\ Keys(u) = Keys(t)
        /\ \A j \in Cells(t.id_cap) : t.id_entries[j].val # None =>
             Found(u, t.id_entries[j].key) = t.id_entries[j].val
    BY <2>4, <2>5 DEF Carried, Keys
  <2>7. Held(u)
    BY <2>6, <1>1 DEF Held
  <2>8. ASSUME NEW i \in Ids PROVE Found(u, i) = Found(t, i)
    <3>1. CASE i \notin Keys(t)
      BY <3>1, <2>6 DEF Found
    <3>2. CASE i \in Keys(t)
      <4>1. t # Table(0, 0)
        BY <3>2, EmptyTable
      <4>2. Sound(t)
        BY <4>1 DEF Held
      <4> DEFINE k == Passed(t, i)
                 d == Probe(t.id_cap, i)[k]
      <4>3. k \in Cells(t.id_cap) /\ At(t, i, k)
        BY <4>2, <3>2, Stays
      <4>4. d \in Cells(t.id_cap)
        <5>1. i \in Nat /\ t.id_cap \in Caps
          BY <4>2, IdMapAssumption DEF Sound
        <5>2. Probe(t.id_cap, i) \in [Cells(t.id_cap) -> Cells(t.id_cap)]
          BY <5>1, ProbeAll
        <5> QED
          BY <5>2, <4>3
      <4>5. t.id_entries[d].key = i /\ t.id_entries[d].val # None
        BY <4>3 DEF At
      <4>6. Found(t, i) = t.id_entries[d].val
        BY <3>2 DEF Found
      <4> HIDE DEF d, k
      <4> QED
        BY <4>4, <4>5, <4>6, <2>6
    <3> QED
      BY <3>1, <3>2
  <2> QED
    BY <2>2, <2>6, <2>7, <2>8, <1>1
<1> QED
  BY <1>3, <1>4

\* nni_id_set: the id has the value, and nothing else changes.
LEMMA SetIs ==
    ASSUME NEW t, Held(t), NEW id \in Ids, NEW val \in Vals, val # None,
           NEW u, u = Stored(id_resize(t), id, val)
    PROVE  /\ Held(u) /\ u.id_count < u.id_cap
           /\ \A i \in Ids : Found(u, i) = IF i = id THEN val ELSE Found(t, i)
<1>0. PICK r : r = id_resize(t)
  OBVIOUS
<1>1. /\ Held(r) /\ Sound(r) /\ Booked(r) /\ Keys(r) = Keys(t)
      /\ r.id_count = t.id_count /\ r.id_count + 1 < r.id_cap
      /\ \A i \in Ids : Found(r, i) = Found(t, i)
  BY <1>0, ResizeIs
<1>2. /\ r.id_cap \in Caps /\ r.id_count \in Int /\ r.id_cap \in Nat /\ r \in Tables(r.id_cap)
      /\ r.id_count = Cardinality(Keys(r)) /\ IsFiniteSet(Keys(r))
  BY <1>1, CellFacts, Finitely DEF Sound, Held
<1>3. id_find(r, id) = (IF id \in Keys(r) THEN Passed(r, id) ELSE -1)
      /\ (id \in Keys(r) => Passed(r, id) # -1)
  BY <1>1, HeldFind
<1> DEFINE C == Cells(r.id_cap)
<1>4. CASE id \in Keys(r)
  <2> DEFINE k == Passed(r, id)
             c == Probe(r.id_cap, id)[k]
  <2>1. u = [r EXCEPT !.id_entries[c].val = val]
    BY <1>0, <1>3, <1>4 DEF Stored
  <2>2. k \in C /\ At(r, id, k)
    BY <1>1, <1>4, Stays
  <2>3. c \in C
    <3>1. id \in Nat
      BY IdMapAssumption
    <3>2. Probe(r.id_cap, id) \in [C -> C]
      BY <3>1, <1>2, ProbeAll
    <3> QED
      BY <3>2, <2>2
  <2>4. r.id_entries[c].key = id /\ r.id_entries[c].val # None
    BY <2>2 DEF At
  <2> HIDE DEF c, k
  <2>5. r \in [id_cap : {r.id_cap}, id_count : Int, id_load : Int, id_entries : [C -> Entries]]
    BY <1>2 DEF Tables
  <2>6. /\ u.id_cap = r.id_cap /\ u.id_count = r.id_count /\ u.id_load = r.id_load
        /\ u.id_entries = [r.id_entries EXCEPT ![c].val = val]
    BY <2>1, <2>5
  <2>7. \A j \in C : r.id_entries[j] \in [key : Nat, skips : Int, val : Vals]
    BY <2>5 DEF Entries
  <2>8. /\ u.id_entries[c].key = r.id_entries[c].key
        /\ u.id_entries[c].skips = r.id_entries[c].skips
        /\ u.id_entries[c].val = val
    BY <2>3, <2>5, <2>6, <2>7
  <2>9. \A j \in C \ {c} : u.id_entries[j] = r.id_entries[j]
    BY <2>5, <2>6
  <2>10. u \in Tables(r.id_cap)
    <3>1. [r.id_entries[c] EXCEPT !.val = val] \in Entries
      BY <2>3, <2>7 DEF Entries
    <3>2. u.id_entries \in [C -> Entries]
      BY <3>1, <2>3, <2>5, <2>6
    <3>3. u = [r EXCEPT !.id_entries = u.id_entries]
      BY <2>1, <2>5, <2>6
    <3> QED
      BY <3>2, <3>3, <2>5 DEF Tables
  <2>11. Alike(r, u)
    BY <2>4, <2>6, <2>8, <2>9 DEF Alike
  <2>12. /\ Keys(u) = Keys(r) /\ Sound(u) /\ Booked(u)
         /\ \A i \in Keys(r) : Passed(u, i) = Passed(r, i)
    BY <2>10, <2>11, <1>1, AlikeKeys
  <2>13. Held(u)
    BY <2>6, <2>12, <1>1, <1>2 DEF Held
  <2>14. Found(u, id) = val
    BY <2>6, <2>8, <2>12, <1>4 DEF Found, c, k
  <2>15. ASSUME NEW i \in Ids \ {id} PROVE Found(u, i) = Found(r, i)
    <3>1. CASE i \notin Keys(r)
      BY <3>1, <2>12 DEF Found
    <3>2. CASE i \in Keys(r)
      <4> DEFINE d == Probe(r.id_cap, i)[Passed(r, i)]
      <4>1. Passed(r, i) \in C /\ At(r, i, Passed(r, i))
        BY <3>2, <1>1, Stays
      <4>2. d \in C
        <5>1. i \in Nat
          BY IdMapAssumption
        <5>2. Probe(r.id_cap, i) \in [C -> C]
          BY <5>1, <1>2, ProbeAll
        <5> QED
          BY <5>2, <4>1
      <4>3. r.id_entries[d].key = i
        BY <4>1 DEF At
      <4>4. d # c
        BY <4>3, <2>4
      <4>5. u.id_entries[d] = r.id_entries[d]
        BY <4>2, <4>4, <2>9
      <4> QED
        BY <4>5, <3>2, <2>6, <2>12 DEF Found
    <3> QED
      BY <3>1, <3>2
  <2> QED
    BY <2>6, <2>13, <2>14, <2>15, <1>1, <1>2
<1>5. CASE id \notin Keys(r)
  <2>0. PICK p : p = Place(r, id, val)
    OBVIOUS
  <2>1. u = [p EXCEPT !.id_count = @ + 1]
    BY <2>0, <1>0, <1>3, <1>5 DEF Stored
  <2>2. \E c \in C : r.id_entries[c].val = None
    <3>1. Cardinality(Keys(r)) < r.id_cap
      BY <1>1, <1>2
    <3> QED
      BY <3>1, <1>1, FreeCell
  <2>3. /\ Sound(p) /\ Booked(p) /\ Keys(p) = Keys(r) \union {id}
        /\ p.id_cap = r.id_cap /\ p.id_count = r.id_count
        /\ Found(p, id) = val /\ \A i \in Ids \ {id} : Found(p, i) = Found(r, i)
    BY <2>0, <2>2, <1>1, <1>5, PlaceIs
  <2>4. p \in [id_cap : {r.id_cap}, id_count : Int, id_load : Int, id_entries : [C -> Entries]]
    BY <2>3 DEF Sound, Tables
  <2>5. /\ u \in Tables(r.id_cap) /\ u.id_cap = p.id_cap /\ u.id_count = p.id_count + 1
        /\ u.id_load = p.id_load /\ u.id_entries = p.id_entries
    BY <2>1, <2>4 DEF Tables
  <2>6. Alike(p, u)
    BY <2>5 DEF Alike
  <2>7. Keys(u) = Keys(p) /\ Sound(u) /\ Booked(u) /\ \A i \in Keys(p) : Passed(u, i) = Passed(p, i)
    BY <2>3, <2>5, <2>6, AlikeKeys
  <2>8. \A i \in Ids : Found(u, i) = Found(p, i)
    BY <2>5, <2>7 DEF Found
  <2>9. Cardinality(Keys(u)) = Cardinality(Keys(r)) + 1
    <3>1. IsFiniteSet(Keys(r)) /\ id \notin Keys(r)
      BY <1>2, <1>5
    <3>2. Cardinality(Keys(r) \union {id}) = Cardinality(Keys(r)) + 1
      BY <3>1, FS_AddElement
    <3> QED
      BY <3>2, <2>3, <2>7
  <2>10. Held(u)
    BY <2>3, <2>5, <2>7, <2>9, <1>2 DEF Held, Sound
  <2> QED
    BY <2>3, <2>5, <2>8, <2>10, <1>1, <1>2
<1> QED
  BY <1>4, <1>5

\* nni_id_remove: the id is gone, and nothing else changes.
LEMMA RemoveIs ==
    ASSUME NEW t, Held(t), NEW id \in Keys(t), t.id_count < t.id_cap,
           NEW u, u = Removed(t, id)
    PROVE  /\ Held(u) /\ u.id_count < u.id_cap
           /\ \A i \in Ids : Found(u, i) = IF i = id THEN None ELSE Found(t, i)
<1>1. t # Table(0, 0)
  BY EmptyTable
<1>2. Sound(t) /\ Booked(t) /\ id \in Ids /\ t.id_count = Cardinality(Keys(t))
  BY <1>1 DEF Held
<1>3. IsFiniteSet(Keys(t)) /\ t.id_cap \in Nat /\ Cardinality(Keys(t)) \in Nat
  BY <1>2, Finitely, CellFacts, FS_CardinalityType
<1>4. PICK p : p = Walk(t, id, Passed(t, id), -1, 0, None)
  OBVIOUS
<1>5. id_find(t, id) = Passed(t, id)
  BY <1>2, HeldFind
<1>6. u = [p EXCEPT !.id_count = @ - 1]
  BY <1>4, <1>5 DEF Removed
<1>7. /\ Sound(p) /\ Booked(p) /\ Keys(p) = Keys(t) \ {id}
      /\ p.id_cap = t.id_cap /\ p.id_count = t.id_count
      /\ \A i \in Ids \ {id} : Found(p, i) = Found(t, i)
  BY <1>2, <1>4, TakeOut
<1>8. p \in [id_cap : {t.id_cap}, id_count : Int, id_load : Int,
             id_entries : [Cells(t.id_cap) -> Entries]]
  BY <1>7 DEF Sound, Tables
<1>9. /\ u \in Tables(t.id_cap) /\ u.id_cap = p.id_cap /\ u.id_count = p.id_count - 1
      /\ u.id_load = p.id_load /\ u.id_entries = p.id_entries
  BY <1>6, <1>8 DEF Tables
<1>10. Alike(p, u)
  BY <1>9 DEF Alike
<1>11. Keys(u) = Keys(p) /\ Sound(u) /\ Booked(u) /\ \A i \in Keys(p) : Passed(u, i) = Passed(p, i)
  BY <1>7, <1>9, <1>10, AlikeKeys
<1>12. \A i \in Ids : Found(u, i) = Found(p, i)
  BY <1>9, <1>11 DEF Found
<1>13. Cardinality(Keys(t) \ {id}) = Cardinality(Keys(t)) - 1
  BY <1>3, FS_RemoveElement
<1>14. Held(u)
  BY <1>2, <1>7, <1>9, <1>11, <1>13 DEF Held, Sound
<1>15. Found(u, id) = None
  BY <1>7, <1>11 DEF Found
<1> QED
  BY <1>2, <1>3, <1>7, <1>9, <1>12, <1>14, <1>15

-----------------------------------------------------------------------------
(* The ids that are given out.                                             *)

\* The range of the ids that are given out.
LEMMA IdRange ==
    /\ Lo \in Nat /\ Hi \in Nat /\ Lo < Hi /\ Lo > 0 /\ Hi - Lo \in Nat
    /\ Lo..Hi \subseteq Ids /\ Ids \subseteq Nat
<1>1. Lo \in Nat /\ Hi \in Nat /\ Lo < Hi /\ Lo # 0
  BY IdMapAssumption
<1>2. Lo > 0 /\ Hi - Lo \in Nat
  BY <1>1
<1> QED
  BY <1>1, <1>2, IdMapAssumption

\* The n-th id that is tried is the one that is n ahead.
LEMMA TriedIs ==
    ASSUME NEW start \in Lo..Hi, NEW n \in 0..Hi - Lo
    PROVE  /\ Tried(start, n) \in Lo..Hi
           /\ Abstract!Ahead(start, Tried(start, n)) = n
<1> DEFINE L == Hi - Lo + 1
           x == start - Lo + n
<1>0. Lo \in Nat /\ Hi \in Nat /\ Lo < Hi
  BY IdRange
<1>1. L \in Nat \ {0} /\ x \in Nat
  BY <1>0
<1>2. Tried(start, n) = Lo + (x % L)
  BY DEF Tried
<1>3. CASE x < L
  <2>1. x \in 0..L - 1 /\ 0 \in Nat /\ L * 0 + x = x
    BY <1>0, <1>1, <1>3
  <2> HIDE DEF L, x
  <2>2. (L * 0 + x) % L = x
    BY <1>1, <2>1, ModIs
  <2>3. Tried(start, n) = Lo + x
    BY <2>1, <2>2, <1>2
  <2>4. Tried(start, n) = start + n
    BY <2>3, <1>0 DEF x
  <2> QED
    BY <2>4, <1>0, <1>3 DEF Abstract!Ahead, x, L
<1>4. CASE x >= L
  <2> DEFINE y == x - L
  <2>1. y \in 0..L - 1 /\ 1 \in Nat /\ L * 1 + y = x
    BY <1>0, <1>1, <1>4
  <2> HIDE DEF L, x, y
  <2>2. (L * 1 + y) % L = y
    BY <1>1, <2>1, ModIs
  <2>3. Tried(start, n) = Lo + y
    BY <2>1, <2>2, <1>2
  <2>4. Tried(start, n) = start + n - (Hi - Lo + 1)
    BY <2>3, <1>0 DEF x, y, L
  <2> QED
    BY <2>4, <1>0, <1>4 DEF Abstract!Ahead, x, L
<1> QED
  BY <1>0, <1>1, <1>3, <1>4

\* Ids of the range are told apart by how far ahead they are.
LEMMA AheadIs ==
    ASSUME NEW start \in Lo..Hi, NEW i \in Lo..Hi, NEW j \in Lo..Hi
    PROVE  /\ Abstract!Ahead(start, i) \in 0..Hi - Lo
           /\ Abstract!Ahead(start, i) = Abstract!Ahead(start, j) => i = j
<1>1. Lo \in Nat /\ Hi \in Nat /\ Lo < Hi
  BY IdRange
<1> QED
  BY <1>1 DEF Abstract!Ahead

\* Every id of the range is tried.
LEMMA TriedAhead ==
    ASSUME NEW start \in Lo..Hi, NEW i \in Lo..Hi
    PROVE  Tried(start, Abstract!Ahead(start, i)) = i
<1>1. PICK n \in 0..Hi - Lo : n = Abstract!Ahead(start, i)
  BY AheadIs
<1>2. Tried(start, n) \in Lo..Hi /\ Abstract!Ahead(start, Tried(start, n)) = n
  BY TriedIs
<1> QED
  BY <1>1, <1>2, AheadIs

-----------------------------------------------------------------------------
(* The invariant.                                                          *)

MapInv ==
    /\ Held(m) /\ Room
    /\ map = [i \in Ids |-> Found(m, i)]
    /\ dyn \in {0} \union (Lo..Hi)

\* The ids in use are those stored.
LEMMA UsedKeys == MapInv => Abstract!Used = Keys(m)
<1> SUFFICES ASSUME MapInv PROVE Abstract!Used = Keys(m)
  OBVIOUS
<1>1. \A i \in Ids : map[i] # None <=> i \in Keys(m)
  BY HeldFound DEF MapInv
<1>2. Keys(m) \subseteq Ids
  BY DEF MapInv, Held
<1> QED
  BY <1>1, <1>2 DEF Abstract!Used

\* nni_id_alloc takes the first free id from the turn on.
LEMMA AllocatedIs ==
    ASSUME MapInv, m.id_count <= Hi - Lo, NEW start \in Lo..Hi
    PROVE  Allocated(start) \in Lo..Hi /\ Allocated(start) = Abstract!FirstFree(start)
<1>0. Lo \in Nat /\ Hi \in Nat /\ Lo < Hi /\ Lo..Hi \subseteq Ids
  BY IdRange
<1> DEFINE R == Lo..Hi
           K == Keys(m)
           A(i) == Abstract!Ahead(start, i)
           F == {n \in 0..Hi - Lo : id_find(m, Tried(start, n)) = -1}
           n0 == Min(F)
           i0 == Tried(start, n0)
<1>1. Held(m) /\ K \subseteq Ids /\ m.id_count = Cardinality(K) /\ IsFiniteSet(K)
  BY IdMapAssumption, FS_Subset DEF MapInv, Held
<1>2. \A i \in R : id_find(m, i) = -1 <=> i \notin K
  BY <1>0, <1>1, HeldFind
<1>3. PICK f \in R : f \notin K
  <2> SUFFICES ASSUME R \subseteq K PROVE FALSE
    OBVIOUS
  <2>1. IsFiniteSet(R) /\ Cardinality(R) <= Cardinality(K)
    BY <1>1, FS_Subset
  <2>2. Cardinality(R) = Hi - Lo + 1
    <3>1. Lo \in Int /\ Hi \in Int /\ ~(Lo > Hi)
      BY <1>0
    <3> QED
      BY <3>1, FS_Interval
  <2>3. Cardinality(K) \in Nat
    BY <1>1, FS_CardinalityType
  <2> HIDE DEF R, K
  <2> QED
    BY <2>1, <2>2, <2>3, <1>0, <1>1
<1>4. F # {} /\ F \in SUBSET Nat
  <2>1. A(f) \in 0..Hi - Lo
    BY AheadIs
  <2>2. Tried(start, A(f)) = f
    BY TriedAhead
  <2>3. A(f) \in F
    BY <2>1, <2>2, <1>2, <1>3
  <2> QED
    BY <2>3
<1>5. n0 \in F /\ \A k \in F : n0 <= k
  <2> HIDE DEF F
  <2> QED
    BY <1>4, Least
<1>6. n0 \in 0..Hi - Lo /\ id_find(m, i0) = -1
  BY <1>5
<1> HIDE DEF n0
<1>7. i0 \in R /\ A(i0) = n0
  BY <1>6, TriedIs
<1>8. i0 \notin K
  BY <1>2, <1>6, <1>7
<1>9. \A j \in R \ K : A(i0) <= A(j)
  <2> TAKE j \in R \ K
  <2>1. A(j) \in 0..Hi - Lo
    BY AheadIs
  <2>2. Tried(start, A(j)) = j
    BY TriedAhead
  <2>3. A(j) \in F
    BY <2>1, <2>2, <1>2
  <2> HIDE DEF F
  <2> QED
    BY <2>3, <1>5, <1>7
<1>10. Abstract!Used = K
  BY UsedKeys
<1> DEFINE First(i) == \A j \in R \ K : A(i) <= A(j)
<1>11. Abstract!FirstFree(start) = CHOOSE i \in R \ K : First(i)
  BY <1>10 DEF Abstract!FirstFree
<1>12. i0 \in R \ K /\ First(i0)
  BY <1>7, <1>8, <1>9
<1> DEFINE w == Abstract!FirstFree(start)
<1>13. w \in R \ K /\ First(w)
  <2> HIDE DEF R, K, First, i0, w
  <2>1. \E i \in R \ K : First(i)
    BY <1>12
  <2> QED
    BY <2>1, <1>11 DEF w
<1>14. A(w) = A(i0)
  <2>1. A(w) <= A(i0) /\ A(i0) <= A(w)
    BY <1>12, <1>13
  <2>2. A(w) \in Int /\ A(i0) \in Int
    <3>1. A(w) \in 0..Hi - Lo /\ A(i0) \in 0..Hi - Lo
      BY <1>12, <1>13, AheadIs
    <3> QED
      BY <3>1
  <2> QED
    BY <2>1, <2>2
<1>15. w = i0
  BY <1>12, <1>13, <1>14, AheadIs
<1>16. Allocated(start) = i0
  BY DEF Allocated, n0
<1> QED
  BY <1>7, <1>15, <1>16

\* What the calls look up is what the table holds.
LEMMA LookedUp ==
    ASSUME NEW t, Held(t)
    PROVE  [i \in Ids |-> nni_id_get(t, i)] = [i \in Ids |-> Found(t, i)]
  BY HeldFind

\* An empty map.
LEMMA InitMapInv == Init => MapInv /\ Abstract!Init
<1> SUFFICES ASSUME Init PROVE MapInv /\ Abstract!Init
  OBVIOUS
<1>1. m = Table(0, 0) /\ dyn = 0 /\ rv = "ok" /\ map = [i \in Ids |-> None]
  BY DEF Init
<1>2. m.id_cap = 0 /\ m.id_count = 0 /\ Keys(m) = {}
  BY <1>1, EmptyTable
<1>3. Held(m)
  BY <1>1, <1>2, FS_EmptySet DEF Held
<1>4. map = [i \in Ids |-> Found(m, i)]
  BY <1>1, <1>2 DEF Found
<1> QED
  BY <1>1, <1>2, <1>3, <1>4 DEF MapInv, Room, Abstract!Init

\* What nni_id_set does to the table, with or without memory.
SetOk(id, v) == rv' = "ok" /\ map' = [map EXCEPT ![id] = v]
SetFails == rv' = "ENOMEM" /\ map' = map
LEMMA SetStep ==
    ASSUME MapInv, NEW id \in Ids, NEW v \in Values[id], nni_id_set(id, v), LookUp
    PROVE  /\ Held(m') /\ Room' /\ map' = [i \in Ids |-> Found(m', i)]
           /\ SetOk(id, v) \/ SetFails
<1>1. Held(m) /\ Room /\ map = [i \in Ids |-> Found(m, i)]
  BY DEF MapInv
<1>2. v \in Vals /\ v # None
  BY IdMapAssumption DEF Vals
<1>3. CASE m' = Stored(id_resize(m), id, v) /\ rv' = "ok"
  <2>1. /\ Held(m') /\ m'.id_count < m'.id_cap
        /\ \A i \in Ids : Found(m', i) = IF i = id THEN v ELSE Found(m, i)
    BY <1>1, <1>2, <1>3, SetIs
  <2>2. map' = [i \in Ids |-> Found(m', i)]
    BY <2>1, LookedUp DEF LookUp
  <2>3. map' = [map EXCEPT ![id] = v]
    BY <2>1, <2>2, <1>1
  <2> QED
    BY <2>1, <2>2, <2>3, <1>3 DEF Room, SetOk
<1>4. CASE m' = m /\ rv' = "ENOMEM"
  <2>1. map' = [i \in Ids |-> Found(m', i)]
    BY <1>1, <1>4, LookedUp DEF LookUp
  <2> QED
    BY <2>1, <1>1, <1>4 DEF Room, SetFails
<1> QED
  BY <1>3, <1>4 DEF nni_id_set

\* nni_id_set.
LEMMA StepSet ==
    ASSUME MapInv, NEW id \in Ids, Set(id)
    PROVE  MapInv' /\ Abstract!Next
<1>1. PICK v \in Values[id] : nni_id_set(id, v)
  BY DEF Set
<1>2. LookUp /\ dyn' = dyn
  BY DEF Set
<1>3. /\ Held(m') /\ Room' /\ map' = [i \in Ids |-> Found(m', i)]
      /\ SetOk(id, v) \/ SetFails
  BY <1>1, <1>2, SetStep
<1>4. MapInv'
  BY <1>2, <1>3 DEF MapInv
<1>5. Abstract!Set(id, v) \/ Abstract!NoMemory
  BY <1>2, <1>3 DEF SetOk, SetFails, Abstract!Set, Abstract!NoMemory
<1> QED
  BY <1>4, <1>5 DEF Abstract!Next

\* nni_id_remove.
LEMMA StepRemove ==
    ASSUME MapInv, NEW id \in Ids, nni_id_remove(id)
    PROVE  MapInv' /\ Abstract!Next
<1>1. Held(m) /\ Room /\ map = [i \in Ids |-> Found(m, i)]
  BY DEF MapInv
<1>2. LookUp /\ dyn' = dyn
  BY DEF nni_id_remove
<1>3. id_find(m, id) = (IF id \in Keys(m) THEN Passed(m, id) ELSE -1)
      /\ (id \in Keys(m) => Passed(m, id) # -1)
  BY <1>1, HeldFind
<1>4. CASE id \notin Keys(m)
  <2>1. m' = m /\ rv' = "ENOENT"
    BY <1>3, <1>4 DEF nni_id_remove
  <2>2. map' = [i \in Ids |-> Found(m', i)]
    BY <2>1, <1>1, <1>2, LookedUp DEF LookUp
  <2>3. map[id] = None
    BY <1>1, <1>4 DEF Found
  <2>4. map' = [map EXCEPT ![id] = None]
    BY <2>1, <2>2, <2>3, <1>1
  <2>5. MapInv'
    BY <2>1, <2>2, <1>1, <1>2 DEF MapInv, Room
  <2>6. Abstract!Remove(id)
    BY <2>1, <2>3, <2>4, <1>2 DEF Abstract!Remove
  <2> QED
    BY <2>5, <2>6 DEF Abstract!Next
<1>5. CASE id \in Keys(m)
  <2>1. m' \in {Removed(m, id), id_resize(Removed(m, id))} /\ rv' = "ok"
    BY <1>3, <1>5 DEF nni_id_remove
  <2>2. m.id_count < m.id_cap
    <3>1. m # Table(0, 0)
      BY <1>5, EmptyTable
    <3>2. Sound(m)
      BY <3>1, <1>1 DEF Held
    <3>3. m.id_cap \in Nat /\ m.id_cap >= 8
      BY <3>2, CellFacts
    <3> QED
      BY <3>3, <1>1 DEF Room
  <2>3. PICK r : r = Removed(m, id)
    OBVIOUS
  <2>4. /\ Held(r) /\ r.id_count < r.id_cap
        /\ \A i \in Ids : Found(r, i) = IF i = id THEN None ELSE Found(m, i)
    BY <2>2, <2>3, <1>1, <1>5, RemoveIs
  <2>5. PICK s : s = id_resize(r)
    OBVIOUS
  <2>6. /\ Held(s) /\ Sound(s) /\ s.id_count + 1 < s.id_cap
        /\ \A i \in Ids : Found(s, i) = Found(r, i)
    BY <2>4, <2>5, ResizeIs
  <2>7. s.id_count < s.id_cap
    <3>1. s.id_cap \in Int /\ s.id_count \in Int
      BY <2>6, CellFacts
    <3> QED
      BY <3>1, <2>6
  <2>8. /\ Held(m') /\ m'.id_count < m'.id_cap
        /\ \A i \in Ids : Found(m', i) = IF i = id THEN None ELSE Found(m, i)
    <3>1. m' = r \/ m' = s
      BY <2>1, <2>3, <2>5
    <3> QED
      BY <3>1, <2>4, <2>6, <2>7
  <2>9. map' = [i \in Ids |-> Found(m', i)]
    BY <2>8, <1>2, LookedUp DEF LookUp
  <2>10. map' = [map EXCEPT ![id] = None]
    BY <2>8, <2>9, <1>1
  <2>11. map[id] # None
    BY <1>1, <1>5, HeldFound
  <2>12. MapInv'
    BY <2>8, <2>9, <1>2 DEF MapInv, Room
  <2>13. Abstract!Remove(id)
    BY <2>1, <2>10, <2>11, <1>2 DEF Abstract!Remove
  <2> QED
    BY <2>12, <2>13 DEF Abstract!Next
<1> QED
  BY <1>4, <1>5

\* nni_id_alloc.
LEMMA StepAlloc ==
    ASSUME MapInv, nni_id_alloc
    PROVE  MapInv' /\ Abstract!Next
<1>0. Lo \in Nat /\ Hi \in Nat /\ Lo < Hi /\ Lo > 0 /\ Lo..Hi \subseteq Ids
  BY IdRange
<1>1. Held(m) /\ Room /\ map = [i \in Ids |-> Found(m, i)] /\ dyn \in {0} \union (Lo..Hi)
  BY DEF MapInv
<1>2. CASE rv' = "ENOMEM" /\ UNCHANGED <<m, dyn, map>>
  <2>1. MapInv'
    BY <1>1, <1>2 DEF MapInv, Room
  <2>2. Abstract!NoMemory
    BY <1>2 DEF Abstract!NoMemory
  <2> QED
    BY <2>1, <2>2 DEF Abstract!Next
<1>3. ASSUME m.id_count <= Hi - Lo, LookUp,
             NEW start \in Starts, NEW v \in Values[Allocated(start)],
             nni_id_set(Allocated(start), v), dyn' = Turn(Allocated(start))
      PROVE  MapInv' /\ Abstract!Next
  <2> DEFINE id == Allocated(start)
  <2>1. start \in Lo..Hi
    BY <1>0, <1>1, <1>3 DEF Starts
  <2>2. id \in Lo..Hi /\ id = Abstract!FirstFree(start)
    BY <2>1, <1>3, AllocatedIs
  <2> HIDE DEF id
  <2>3. id \in Ids /\ v \in Values[id] /\ nni_id_set(id, v) /\ dyn' = Turn(id)
    BY <2>2, <1>0, <1>3 DEF id
  <2>4. /\ Held(m') /\ Room' /\ map' = [i \in Ids |-> Found(m', i)]
        /\ SetOk(id, v) \/ SetFails
    BY <2>3, <1>3, SetStep
  <2>5. Turn(id) \in Lo..Hi /\ Turn(id) = Abstract!After(id)
    BY <2>2, <1>0 DEF Turn, Abstract!After
  <2>6. MapInv'
    BY <2>3, <2>4, <2>5 DEF MapInv
  <2>7. CASE SetFails
    <3>1. Abstract!NoMemory
      BY <2>3, <2>5, <2>7 DEF SetFails, Abstract!NoMemory
    <3> QED
      BY <3>1, <2>6 DEF Abstract!Next
  <2>8. CASE SetOk(id, v)
    <3>0. Abstract!Cardinality(Abstract!Used) = Cardinality(Abstract!Used)
      BY DEF Abstract!Cardinality, Cardinality
    <3>1. Abstract!Cardinality(Abstract!Used) <= Hi - Lo
      BY <3>0, <1>1, <1>3, UsedKeys DEF Held
    <3>2. start \in Abstract!Starts
      BY <1>3 DEF Starts, Abstract!Starts
    <3>3. /\ \E x \in Values[id] : map' = [map EXCEPT ![id] = x]
          /\ dyn' = Abstract!After(id) /\ rv' = "ok"
      BY <2>3, <2>5, <2>8 DEF SetOk
    <3>4. Abstract!Alloc
      <4>1. LET i == Abstract!FirstFree(start)
            IN  /\ \E x \in Values[i] : map' = [map EXCEPT ![i] = x]
                /\ dyn' = Abstract!After(i) /\ rv' = "ok"
        BY <3>3, <2>2
      <4> QED
        BY <3>1, <3>2, <4>1 DEF Abstract!Alloc
    <3> QED
      BY <3>4, <2>6 DEF Abstract!Next
  <2> QED
    BY <2>4, <2>7, <2>8
<1> QED
  BY <1>2, <1>3 DEF nni_id_alloc

\* nni_id_map_fini.
LEMMA StepFini ==
    ASSUME MapInv, nni_id_map_fini
    PROVE  MapInv' /\ Abstract!Next
<1>1. m' = Table(0, 0) /\ dyn' = dyn /\ rv' = rv /\ LookUp
  BY DEF nni_id_map_fini
<1>2. m'.id_cap = 0 /\ m'.id_count = 0 /\ Keys(m') = {}
  BY <1>1, EmptyTable
<1>3. Held(m')
  BY <1>1, <1>2, FS_EmptySet DEF Held
<1>4. map' = [i \in Ids |-> Found(m', i)]
  BY <1>1, <1>3, LookedUp DEF LookUp
<1>5. map' = [i \in Ids |-> None]
  BY <1>2, <1>4 DEF Found
<1>6. MapInv'
  BY <1>1, <1>2, <1>3, <1>4 DEF MapInv, Room
<1>7. Abstract!Clear
  BY <1>1, <1>5 DEF Abstract!Clear
<1> QED
  BY <1>6, <1>7 DEF Abstract!Next

\* Every step keeps the invariant, and is a step of the plain table.
LEMMA NextMapInv == MapInv /\ [Next]_vars => MapInv' /\ [Abstract!Next]_(Abstract!vars)
<1> SUFFICES ASSUME MapInv, [Next]_vars PROVE MapInv' /\ [Abstract!Next]_(Abstract!vars)
  OBVIOUS
<1>1. ASSUME NEW id \in Ids, Set(id) PROVE MapInv' /\ Abstract!Next
  BY <1>1, StepSet
<1>2. ASSUME NEW id \in Ids, nni_id_remove(id) PROVE MapInv' /\ Abstract!Next
  BY <1>2, StepRemove
<1>3. CASE nni_id_alloc
  BY <1>3, StepAlloc
<1>4. CASE nni_id_map_fini
  BY <1>4, StepFini
<1>5. CASE UNCHANGED vars
  <2>1. m' = m /\ dyn' = dyn /\ rv' = rv /\ map' = map
    BY <1>5 DEF vars
  <2> QED
    BY <2>1 DEF MapInv, Room, Abstract!vars
<1> QED
  BY <1>1, <1>2, <1>3, <1>4, <1>5 DEF Next

LEMMA MapInvariance == Spec => []MapInv
<1>1. Init => MapInv
  BY InitMapInv
<1>2. MapInv /\ [Next]_vars => MapInv'
  BY NextMapInv
<1> QED
  BY <1>1, <1>2, PTL DEF Spec

\* The invariant is more than the accounts.
LEMMA HeldAccounts == MapInv => Accounting
<1> SUFFICES ASSUME MapInv PROVE Accounting
  OBVIOUS
<1>1. Held(m)
  BY DEF MapInv
<1>2. CASE m = Table(0, 0)
  <2>1. m.id_cap = 0 /\ m.id_load = 0
    BY <1>2 DEF Table
  <2>2. Keys(m) = {}
    BY <1>2, EmptyTable
  <2>3. Probed(m) = {} /\ Cells(m.id_cap) = {}
    BY <2>1, <2>2 DEF Probed, Cells
  <2> QED
    BY <2>1, <2>3, <1>1, FS_EmptySet DEF Accounting, Held
<1>3. CASE Sound(m) /\ Booked(m)
  BY <1>1, <1>3 DEF Accounting, Held, Booked
<1> QED
  BY <1>1, <1>2, <1>3 DEF Held

-----------------------------------------------------------------------------
(* The theorems.                                                           *)

\* Whatever the ids, their range and the sizes of the table: the skips of every
\* cell and the load are those of the ids that are stored, after any sequence of
\* nni_id_set, nni_id_remove, nni_id_alloc and nni_id_map_fini, with or without
\* memory for the resizes.
THEOREM AccountingHolds == Spec => []Accounting
  BY MapInvariance, HeldAccounts, PTL

\* There is always a free cell: the loops of nni_id_set and id_resize that look
\* for one end.
THEOREM RoomHolds == Spec => []Room
<1>1. MapInv => Room
  BY DEF MapInv
<1> QED
  BY <1>1, MapInvariance, PTL

\* The hash table implements a plain table from ids to values: nni_id_get finds
\* what was stored last and not removed, a failure loses nothing, and
\* nni_id_alloc gives out the first free id from its turn on.
THEOREM IdMapImplements == Spec => Implements
<1>1. Init => Abstract!Init
  BY InitMapInv
<1>2. MapInv /\ [Next]_vars => [Abstract!Next]_(Abstract!vars)
  BY NextMapInv
<1> QED
  BY <1>1, <1>2, MapInvariance, PTL DEF Spec, Implements, Abstract!Spec

\* Every cell that a stored id has passed counts a skip.
PassedCount ==
    \A id \in Keys(m) : \A k \in 0..Passed(m, id) - 1 :
        m.id_entries[Probe(m.id_cap, id)[k]].skips > 0

\* The assertion of nni_id_remove that a cell it passes has skips to take back
\* never fails.
THEOREM RemoveAssertHolds == Spec => []PassedCount
<1>1. MapInv => PassedCount
  <2> SUFFICES ASSUME MapInv, NEW id \in Keys(m), NEW k \in 0..Passed(m, id) - 1
               PROVE  m.id_entries[Probe(m.id_cap, id)[k]].skips > 0
    BY DEF PassedCount
  <2> DEFINE j == Probe(m.id_cap, id)[k]
  <2>1. m # Table(0, 0)
    BY EmptyTable
  <2>2. Sound(m) /\ Booked(m) /\ id \in Ids
    BY <2>1 DEF MapInv, Held
  <2>3. Passed(m, id) \in Cells(m.id_cap)
    BY <2>2, Stays
  <2>4. m.id_cap \in Caps /\ m.id_cap \in Nat /\ Cells(m.id_cap) = 0..m.id_cap - 1
    BY <2>2, CellFacts
  <2>5. k \in Cells(m.id_cap)
    BY <2>3, <2>4
  <2>6. Probe(m.id_cap, id) \in [Cells(m.id_cap) -> Cells(m.id_cap)]
    BY <2>2, <2>4, IdMapAssumption, ProbeAll
  <2>7. j \in Cells(m.id_cap)
    BY <2>5, <2>6
  <2>8. id \in Passing(m, j)
    BY DEF Passing
  <2> HIDE DEF j
  <2>9. IsFiniteSet(Passing(m, j))
    BY <2>2, <2>7, Finitely
  <2>10. Cardinality(Passing(m, j)) \in Nat /\ Cardinality(Passing(m, j)) # 0
    BY <2>8, <2>9, FS_EmptySet, FS_CardinalityType
  <2>11. m.id_entries[j].skips = Cardinality(Passing(m, j))
    BY <2>2, <2>7 DEF Booked
  <2>12. m.id_entries[j].skips > 0
    BY <2>10, <2>11
  <2> QED
    BY <2>12 DEF j
<1> QED
  BY <1>1, MapInvariance, PTL

\* The tables that may have to be resized, and the tables f that id_resize goes
\* through, one for each cell of the old one.
Resizable == {m} \union {Removed(m, id) : id \in Keys(m)}
MovesFresh ==
    \A t \in Resizable : \A f :
        Moving(t, NewCap(t.id_count), f) => \A k \in 0..t.id_cap : Fresh(f[k])

\* The assertion of id_resize that a free cell has no skips when it is hit for the
\* first time never fails.
THEOREM ResizeAssertHolds == Spec => []MovesFresh
<1>1. MapInv => MovesFresh
  <2> SUFFICES ASSUME MapInv, NEW t \in Resizable, NEW f, Moving(t, NewCap(t.id_count), f)
               PROVE  \A k \in 0..t.id_cap : Fresh(f[k])
    BY DEF MovesFresh
  <2>1. Held(m) /\ Room
    BY DEF MapInv
  <2>2. Held(t)
    <3>1. ASSUME NEW id \in Keys(m) PROVE Held(Removed(m, id))
      <4>1. m # Table(0, 0)
        BY EmptyTable
      <4>2. Sound(m)
        BY <4>1, <2>1 DEF Held
      <4>3. m.id_cap # 0
        BY <4>2, CellFacts
      <4>4. m.id_count < m.id_cap
        BY <4>3, <2>1 DEF Room
      <4> QED
        BY <4>4, <2>1, RemoveIs
    <3> QED
      BY <3>1, <2>1 DEF Resizable
  <2> DEFINE count == Cardinality(Keys(t))
             cap == NewCap(t.id_count)
  <2>3. t.id_count = count /\ count \in Nat /\ count <= Cardinality(Ids)
    BY <2>2, IdMapAssumption, FS_Subset, FS_CardinalityType DEF Held
  <2>4. cap \in Caps /\ cap >= 2 * count /\ cap \in Nat /\ cap >= 8
    BY <2>3, NewCapIs, CapFacts
  <2>5. count < cap
    <3> HIDE DEF count, cap
    <3> QED
      BY <2>3, <2>4
  <2>6. Movable(t)
    BY <2>2, HeldMovable
  <2>7. \A k \in 0..t.id_cap : Carried(t, cap, f[k], k)
    BY <2>4, <2>5, <2>6, CarryAll
  <2> QED
    BY <2>7 DEF Carried
<1> QED
  BY <1>1, MapInvariance, PTL
=============================================================================
