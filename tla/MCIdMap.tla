------------------------------- MODULE MCIdMap -------------------------------
\* Instances of the id map: ids that collide in a table of 8 cells, enough of them
\* to make it grow and shrink.
EXTENDS IdMap

CONSTANTS a, b

MCIds == {1, 2, 3, 4, 5, 9, 10, 17}
MCValues == [i \in Ids |-> IF i = 9 THEN {a, b} ELSE {a}]
=============================================================================
