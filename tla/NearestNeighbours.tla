------------------------- MODULE NearestNeighbours -------------------------
(***************************************************************************)
(* What the nearest-neighbour search promises: it looks at the database    *)
(* rows in order, and after each one it holds the K nearest of the rows    *)
(* seen so far (all of them while they are fewer).  A row that is as near  *)
(* as an earlier one comes after it.                                       *)
(***************************************************************************)
EXTENDS Integers, FiniteSets

CONSTANTS M, K, Distances

VARIABLES
    distances,  \* distance of every row
    seen,       \* number of rows looked at
    best        \* the rows held

vars == <<distances, seen, best>>

Precedes(q, r) ==
    \/ distances[q] < distances[r]
    \/ distances[q] = distances[r] /\ q < r

Nearest(n) ==
    {r \in 0 .. n-1 : Cardinality({q \in 0 .. n-1 : Precedes(q, r)}) < K}

Init ==
    /\ distances \in Distances
    /\ seen = 0
    /\ best = {}

Look ==
    /\ seen < M
    /\ seen' = seen + 1
    /\ best' = Nearest(seen + 1)
    /\ UNCHANGED distances

Spec == Init /\ [][Look]_vars
=============================================================================
