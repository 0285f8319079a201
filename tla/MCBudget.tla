------------------------------ MODULE MCBudget ------------------------------
(* Budget on a small instance: the last tick of a month, the first of the next and *)
(* its last.                                                                      *)
EXTENDS Budget, TLC

CONSTANTS k1, k2, s1, s2

MCLimit == [k \in Keys |-> IF k = k1 THEN 1 ELSE 0]
MCMonthOf == [t \in 0 .. LastTick |-> IF t = 0 THEN 0 ELSE 1]

\* The beginning of the month in a session that is in UTC, and in one that is ahead
\* of it and whose month begins a tick before the UTC month does.
CutInUTC == [t \in 0 .. LastTick |-> IF t = 0 THEN 0 ELSE 1]
CutAhead == [t \in 0 .. LastTick |-> IF t < 2 THEN 0 ELSE 2]

\* In the old month the limited key is followed until one more request can use it up;
\* in the new one until it has cost two caps, or only until it has cost something, and
\* then the unlimited key until then too.
MCFollow   == [m \in 0 .. 1 |-> [k \in Keys |-> IF m = 0 THEN 1 ELSE 4]]
LiveFollow == [m \in 0 .. 1 |-> [k \in Keys |-> IF m = 0 /\ k = k2 THEN 0 ELSE 1]]

Symmetry == Permutations({s1, s2})
=============================================================================
